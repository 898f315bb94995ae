\* Wiring, deletions and updates by the main thread, then updates and readers
\* on two threads.  It may stop when the bounds are used up.
SPECIFICATION FairSpec
CONSTANTS
  None = None
  a1 = a1
  b1 = b1
  i1 = i1
  j1 = j1
  A = A
  B = B
  C = C
  Outputs = {a1, b1}
  Inputs = {i1, j1}
  Objects = {A, B, C}
  Object <- ObjectOf
  Level <- LevelOf
  Home <- HomeOf
  MayFeed <- Flow
  Threads <- ThreadSet
  Main = 1
  Typed <- TypedOne
  MaxUpdates = 2
  MaxChanges = 3
INVARIANTS InputsSound NoDeadlock FollowsSource
PROPERTIES KeepsSource CallsReturn
CHECK_DEADLOCK FALSE
