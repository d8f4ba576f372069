CONSTANTS
  NumLevels = 2
  NumSlots = 3
  Keys = {k1}
  Handles = {h1}
  MaxTicks = 10
  U64 = 1000
  None = None
  SubTicks = 2
  Durations = {2}
  MaxDelta = 2
  MaxBusy = 2
  MaxClock = 20
SPECIFICATION Spec
INVARIANTS SleepsTheirDuration
