SPECIFICATION FairSpec
CONSTANTS
  Kinds <- MCKinds
  MaxCalls = 3
  MaxChunks = 3
  Rooms = {0, 2, 4}
INVARIANTS ChainInOrder InStep ModesAgree
PROPERTIES NewCardFound ChainEnds
CHECK_DEADLOCK FALSE
