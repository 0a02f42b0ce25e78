SPECIFICATION FairSpec
CONSTANTS
  Capacity = 3
  LowWater = 2
  kWriteTrimThreshold = 3
  MaxBytes = 12
  HeaderSize = 2
  MaxBody = 1
  NumFrames = 3
INVARIANTS TypeOK FramesHandled BufferBounded
PROPERTIES Refines MessagesHandled
