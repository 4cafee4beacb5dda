------------------------------- MODULE MCAlarm --------------------------------
(***************************************************************************)
(* Bounds for Alarm. Two phases, so that the hottest one changes and one   *)
(* can be faulty alone; temperatures at two thresholds, between them and   *)
(* well below, whose difference reaches two more; a rate of rise at its    *)
(* lowest threshold. Two configurations that differ in a threshold and in  *)
(* which of the two counts is larger. RecoveredBelowHysteresis, which is   *)
(* no part of the run as the code does not keep it, fails with             *)
(* FineTemperatures: those in the band of the hysteresis as well, which is *)
(* one degree wide.                                                        *)
(***************************************************************************)
EXTENDS Alarm

Thresholds(notice) ==
  [PHASE_TEMPERATURE_HIGH |-> <<notice, 6, 8>>,
   PHASE_DELTA_HIGH |-> <<3, 5, 6>>,
   RISE_RATE_HIGH |-> <<4, 6, 8>>]

MCTemperatures == {0, 5, 6}
FineTemperatures == {0, 3, 4, 5, 6}
MCFaults == {"SENSOR_CRC_ERROR", "SENSOR_NOT_PRESENT"}
MCRises == {[rate |-> 0, phase |-> 0], [rate |-> 4, phase |-> 1]}
MCConfig == [threshold |-> Thresholds(4), hysteresis |-> 1, assert |-> 2, clear |-> 3]
MCConfigs == {MCConfig, [MCConfig EXCEPT !.threshold = Thresholds(5), !.assert = 3, !.clear = 2]}
=============================================================================
