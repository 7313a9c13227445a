\* Two clients, two calls, two charger edges or limit changes, a lost signal.
CONSTANTS
  Client = {c1, c2}
  Setters <- MCSetters
  None = None
  Capacity = 2
  MaxCalls = 2
  MaxEdges = 2
  MaxFaults = 1

SPECIFICATION Spec
\* Every bound may be spent.
CHECK_DEADLOCK FALSE
SYMMETRY MCSymmetry

INVARIANTS
  TypeOK
  ErrorMeansUntouched
  SuccessHasEffect
  SignalsSuffice
