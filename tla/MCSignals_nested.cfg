\* The functions of slots emit and destroy slots: the threads may deadlock, as
\* the code does, and what is safe must still hold.
SPECIFICATION SigSpec
CONSTANTS
  None = None
  o1 = o1
  o2 = o2
  s1 = s1
  s2 = s2
  r1 = r1
  r2 = r2
  Threads <- TwoThreads
  Objects = {o1, o2}
  Sigs = {s1, s2}
  Relays = {r1, r2}
  MaxPush = 4
  MaxEmit = 2
  MaxEdit = 2
  Emitters <- OneThread
  Wirers <- LastThread
  Loopers <- LastThread
  NestedPush <- AllPairs
  NestedRemove <- TwoThreads
  Removers <- TwoThreads
  Home <- HomeAtLast
  SigHome <- NoSigHome
  OwnContext = TRUE
  Calls <- EveryCall
  Kills <- EveryKill
SYMMETRY Symmetry
INVARIANTS NoCallOfDyingSlot
PROPERTIES UsesQueuesSafely
CHECK_DEADLOCK FALSE
