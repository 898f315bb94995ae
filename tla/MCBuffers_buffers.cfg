\* Every kind of buffer, orderly threads and others.  The threads may stop when
\* the bounds are used up, and a producer without an orderly consumer waits.
SPECIFICATION FairSpec
CONSTANTS
  None = None
  Kinds <- AllKinds
  InputKinds <- CircularOnly
  Capacity = 2
  Padding = 1
  Size = 3
  MaxStamp = 3
  MaxUpdates = 4
  MaxResize = 1
INVARIANTS BuffersSound
PROPERTIES Retains EachArrives BothReturn
CHECK_DEADLOCK FALSE
