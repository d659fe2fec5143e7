SPECIFICATION Spec
CONSTANTS
  Estimator = {e}
  Grower = {g}
  RuleObj = {r, q}
  NoRule = NoRule
  LR = {float, double}
  MaxServers = 2
  MaxModels = 4
SYMMETRY Symmetry
INVARIANTS TypeOK RequestsReachOwnModel NeverSpins HeapOwned
PROPERTIES UsableUntilReleased
