CONSTANTS
  NumLevels = 2
  NumSlots = 2
  Keys = {k1, k2, k3}
  Empty = Empty
  Intervals = {0, 1, 2, 3, 4, 6}
  MaxTime = 14
SPECIFICATION Spec
SYMMETRY Symmetry
INVARIANTS
  TypeOK
  LinksSound
PROPERTY ImplementsTimerWheel
