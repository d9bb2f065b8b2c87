SPECIFICATION FairSpec
CONSTANTS
  MaxFrames = 2
  ComPolls = 2
  CrcPolls = 2
  TestPolls = 2
INVARIANTS OwnAnswer ReadIsIntact FramesAreSealed
PROPERTIES CallsReturn ImplementsExchange
CHECK_DEADLOCK FALSE
