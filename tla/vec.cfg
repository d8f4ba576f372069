SPECIFICATION Spec
CONSTANTS
  Elem = {a, b}
  Uninit = Uninit
  GrowMax = 2
  Slack = 3
  MaxLen = 4
INVARIANT CapacityIsAllocated
PROPERTIES
  KeepsCapacity
  ImplementsArray
