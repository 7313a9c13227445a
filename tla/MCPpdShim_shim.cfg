\* Two clients with two holds, an ActiveProfile write or a charger edge.
CONSTANTS
  Client = {c1, c2}
  None = None
  Capacity = 1
  DefaultProfile = "Balanced"
  Others = {"AcEdge", "Unrelated"}
  MaxHolds = 2
  MaxOthers = 1

SPECIFICATION Spec
\* Every bound may be spent.
CHECK_DEADLOCK FALSE
SYMMETRY MCSymmetry

INVARIANTS
  TypeOK
  SnapshotDrains
  ProfileFollowsHolds
  CookiesUnique
