CONSTANTS
  PhaseCount = 2
  Temperatures <- MCTemperatures
  Faults <- MCFaults
  Rises <- MCRises
  Configs <- MCConfigs
  MaxSamples = 3
SPECIFICATION Spec
INVARIANTS
  EventsPaired
  AckCoversAlarm
  Settles
PROPERTIES
  ChangesConfirmed
