CONSTANTS
  NumLevels = 2
  NumSlots = 3
  Keys = {k1, k2, k3}
  Handles = {h1, h2, h3}
  MaxTicks = 10
  U64 = 1000
  None = None
  SubTicks = 2
  Durations = {0, 1, 2, 3, 4}
  MaxDelta = 2
  MaxBusy = 2
  MaxClock = 20
SPECIFICATION Spec
SYMMETRY Symmetry
INVARIANTS
  TypeOK
  HandlesAgree
  NeverATickEarly
  SleepsEndInTime
  WaitsForEarliest
PROPERTY ImplementsPerfectTimers
