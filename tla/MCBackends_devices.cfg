\* Three backend calls of any kind in a row, with two failing operations.
CONSTANTS
  None = None
  Unmanaged = Unmanaged
  Stock = Stock
  MilliwattsPerWatt = 1000
  MaxMilliwatts = 60000
  CustomProfile = {"turbo"}
  CustomCurve = {"mine", "mixed", "steep"}
  Charge = {60, 80}
  DefaultCharge = 80
  MixedCurve = "mixed"
  Points = 2
  Choices = {"low-power", "balanced", "performance", "turbo"}
  InvalidCurve = {"steep"}
  Calls <- MCCalls
  DeviceRange <- MCRange
  MaxCalls = 3
  MaxFaults = 2

SPECIFICATION Spec
\* The calls are bounded, and a device may be left alone.
CHECK_DEADLOCK FALSE

INVARIANTS
  TypeOK
  EnabledWhole
  StateFileWhole

PROPERTIES
  KeepsPromise
  FansAgree
  FailedClockReleased
