\* GetInput on a buffer that locks in GetDataPtr (finding).
SPECIFICATION FairSpec
CONSTANTS
  None = None
  Kinds <- AllKinds
  InputKinds <- AllKinds
  Capacity = 2
  Padding = 1
  Size = 3
  MaxStamp = 1
  MaxUpdates = 2
  MaxResize = 0
PROPERTIES GetInputReturns
CHECK_DEADLOCK FALSE
