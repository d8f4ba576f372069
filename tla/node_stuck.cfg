CONSTANTS
  NumLevels = 2
  NumSlots = 3
  Keys = {k1, k2}
  Handles = {h1, h2}
  MaxTicks = 20
  U64 = 1000
  None = None
  SubTicks = 2
  Durations = {2, 8, 10}
  MaxDelta = 8
  MaxBusy = 2
  MaxClock = 40
SPECIFICATION Spec
INVARIANTS WaitsForSomeTimer
