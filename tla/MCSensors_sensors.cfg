\* Overlapping telemetry calls while drivers are loaded again.
CONSTANTS
  None = None
  Caller = {a, b}
  Sensors <- MCSensors
  Reads <- MCReads
  amdgpu = amdgpu
  asus = asus
  Driver = {amdgpu, asus}
  ScanLimit = 2
  LastIndex = 1
  MinGap = 2
  MaxTicks = 3
  MaxCalls = 3
  MaxReloads = 2

SYMMETRY CallerSymmetry

SPECIFICATION Spec
\* Time, calls and reloads may all be spent.
CHECK_DEADLOCK FALSE

INVARIANTS
  TypeOK

PROPERTIES
  AnswersTheNamed
  PercentOfAnInterval
  PollersAreAnswered
