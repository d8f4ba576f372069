SPECIFICATION Spec
CONSTANTS
  Inputs <- MCInputs
  Servable <- MCServable
  Top = "main"
  MaxDepth = 4
  Clients = {c1, c2}
  Buffers = {b1, b2, b3}
  MaxRequests = 2
  MaxSent = 3
INVARIANTS
  TypeOK
  OneDefinitionEach
  EveryRequestHasOneService
  MessagesOwned
  OneAnswerEach
PROPERTY
  AcyclicEnds
CHECK_DEADLOCK FALSE
