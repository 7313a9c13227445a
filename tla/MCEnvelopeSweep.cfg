\* Every SPL of six devices under 208 tunings.
CONSTANTS
  MilliwattsPerWatt = 10
  MaxMilliwatts = 1000
  Machines <- MCMachines
  Tunings <- MCTunings
  SweepEnd = 360

SPECIFICATION Spec
\* The sweep ends.
CHECK_DEADLOCK FALSE

INVARIANTS
  DerivedIsValid
  PresetsAccepted
  SanitizedIsUsable
  CoolingAccepted
PROPERTIES
  MorePowerNeverLess
  CoolingFollowsPower
