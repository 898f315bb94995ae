\* SetInput to a second source while the first is a shared_ptr (finding).
SPECIFICATION Spec
CONSTANTS
  None = None
  a1 = a1
  b1 = b1
  i1 = i1
  j1 = j1
  A = A
  B = B
  C = C
  Outputs = {a1, b1}
  Inputs = {i1, j1}
  Objects = {A, B, C}
  Object <- ObjectOf
  Level <- LevelOf
  Home <- HomeOf
  MayFeed <- Flow
  Threads <- ThreadSet
  Main = 1
  Typed <- TypedOne
  MaxUpdates = 1
  MaxChanges = 2
PROPERTIES SetInputTakesEffect
CHECK_DEADLOCK FALSE
