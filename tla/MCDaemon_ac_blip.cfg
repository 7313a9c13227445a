\* The charger changes twice around a resume.
CONSTANTS
  None = None
  Unmanaged = Unmanaged
  MilliwattsPerWatt = 1000
  MaxMilliwatts = 2000000000
  CustomProfile = {"turbo"}
  CustomCurve = {"mine", "mixed"}
  Charge = {60, 80, 100}
  DefaultCharge = 80
  Capacity = 2
  Capability = {"profile", "charge", "curve", "gpu"}
  DeviceLimits <- MCOneLimit
  MixedCurve = "mixed"
  MaxFaults = 0
  Requests <- FewRequests
  RuntimeConfig <- MCConfig
  DefaultProfile = "Performance"
  DefaultCurve = "Balanced"
  DefaultLock = TRUE
  DefaultThreshold = 60
  FactoryEnvelope <- MCFactoryEnvelope
  MaxRequests = 0
  MaxEdges = 2
  MaxSleeps = 1
  MaxBoots = 1
  MaxCrashes = 0

SPECIFICATION FairSpec
\* The daemon may be down for good, and every bound may be spent.
CHECK_DEADLOCK FALSE

PROPERTIES
  ChargerFollowed
