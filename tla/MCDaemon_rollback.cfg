\* A one-slot channel with failing operations anywhere, then a resume.
CONSTANTS
  None = None
  Unmanaged = Unmanaged
  MilliwattsPerWatt = 1000
  MaxMilliwatts = 2000000000
  CustomProfile = {"turbo"}
  CustomCurve = {"mine", "mixed"}
  Charge = {60, 80, 100}
  DefaultCharge = 80
  Capacity = 1
  Capability = {"profile", "charge", "curve", "gpu"}
  DeviceLimits <- MCOneLimit
  MixedCurve = "mixed"
  MaxFaults = 1
  Requests <- AllRequests
  RuntimeConfig <- MCConfig
  DefaultProfile = "Performance"
  DefaultCurve = "Balanced"
  DefaultLock = TRUE
  DefaultThreshold = 60
  FactoryEnvelope <- MCFactoryEnvelope
  MaxRequests = 2
  MaxEdges = 0
  MaxSleeps = 1
  MaxBoots = 1
  MaxCrashes = 0

SPECIFICATION Spec
\* The daemon may be down for good, and every bound may be spent.
CHECK_DEADLOCK FALSE

INVARIANTS
  RollbackConverges
  SetLeversReconcile
  GpuConverges

PROPERTIES
  ShutdownFlushes
  FollowsPolicy
  ReleaseEndsFollow
