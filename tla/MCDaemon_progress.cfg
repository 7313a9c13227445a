\* A one-slot channel and a power-only device, under fairness of the daemon's tasks.
CONSTANTS
  None = None
  Unmanaged = Unmanaged
  MilliwattsPerWatt = 1000
  MaxMilliwatts = 2000000000
  CustomProfile = {"turbo"}
  CustomCurve = {"mine", "mixed"}
  Charge = {60, 80, 100}
  DefaultCharge = 80
  Capacity = 1
  Capability = {"profile"}
  DeviceLimits <- MCOneLimit
  MixedCurve = "mixed"
  MaxFaults = 2
  Requests <- OneRequest
  RuntimeConfig <- MCConfig
  DefaultProfile = "Performance"
  DefaultCurve = "Balanced"
  DefaultLock = TRUE
  DefaultThreshold = 60
  FactoryEnvelope <- MCFactoryEnvelope
  MaxRequests = 1
  MaxEdges = 0
  MaxSleeps = 1
  MaxBoots = 1
  MaxCrashes = 0

SPECIFICATION FairSpec
\* The daemon may be down for good, and every bound may be spent.
CHECK_DEADLOCK FALSE

PROPERTIES
  ChannelDrains
  ResumeReasserts
