CONSTANTS
  NumLevels = 3
  NumSlots = 3
  Keys = {k1, k2}
  Intervals = {1, 2, 3, 5, 8, 9, 13, 26, 27, 40}
  MaxTime = 56
SPECIFICATION Spec
SYMMETRY Symmetry
INVARIANTS
  TypeOK
  OneSlotPerTimer
  PositionsTrackTime
  LevelZeroExact
  NextExpirationOfLevelZero
PROPERTY ImplementsTimerService
