\* Callbacks that push to the other thread and destroy slots: the threads may
\* deadlock, as the code does, and what is safe must still hold.
SPECIFICATION Spec
CONSTANTS
  Threads <- TwoThreads
  o1 = o1
  o2 = o2
  Objects = {o1, o2}
  None = None
  MaxPush = 2
  NestedPush <- AllPairs
  NestedRemove <- TwoThreads
  Removers <- TwoThreads
SYMMETRY SlotSymmetry
INVARIANTS QueuesSound QueuesDeliver
PROPERTIES ImplementsMailbox
CHECK_DEADLOCK FALSE
