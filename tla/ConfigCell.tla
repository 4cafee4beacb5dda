------------------------------ MODULE ConfigCell ------------------------------
(***************************************************************************)
(* What the configuration store promises. The EEPROM holds one             *)
(* configuration. While a save is on its way, or after one that failed, a  *)
(* power-on may find that configuration or the previous one; after a save  *)
(* answered with success it finds that one and nothing else. What a        *)
(* power-on has found is what every later one finds.                       *)
(***************************************************************************)
CONSTANTS Configs,       (* the configurations a save may carry            *)
          Default        (* stands for "run with the defaults"             *)

VARIABLES candidates,    (* what the next power-on may find                *)
          loaded         (* what the last power-on gave the application    *)

cellVars == <<candidates, loaded>>

CellInit == candidates = {Default} /\ loaded = Default

Offer(v) == candidates' = candidates \cup {v} /\ UNCHANGED loaded

Acknowledge(v) == v \in candidates /\ candidates' = {v} /\ UNCHANGED loaded

(* A power-on that answers too late leaves the application its defaults.   *)
PowerUp(v) ==
  /\ v \in candidates
  /\ candidates' = {v}
  /\ loaded' \in {v, Default}

NoDevice == loaded' = Default /\ UNCHANGED candidates

CellNext ==
  \/ \E v \in Configs : Offer(v)
  \/ \E v \in candidates : Acknowledge(v) \/ PowerUp(v)
  \/ NoDevice

CellSpec == CellInit /\ [][CellNext]_cellVars
=============================================================================
