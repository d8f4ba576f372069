SPECIFICATION Spec
CONSTANTS
  Indices = {0, 2, 4, 6, 8}
  Line = 2
  U32 = 16
  FrameSize = 256
  PreData = 1
  DataSize = 1
  ToCode = {6, 8}
  MaxHeld = 1
  Order <- OrderDef
  Words <- WordsDef
  Configs <- ConfigsDef
  ByFour = {"f"}
  MaxFrame = 5
  MaxDefined = 1
  Setups <- SetupsDef
INVARIANTS
  TypeOK
  PacketInBuffer
  LanesFitFrames
  EachBufferOnce
  FollowsItsFeatures
  CarriedGoTheRightWay
