\* Two threads emit; two slots live on a third thread.
SPECIFICATION SigSpec
CONSTANTS
  None = None
  o1 = o1
  o2 = o2
  s1 = s1
  s2 = s2
  r1 = r1
  r2 = r2
  Threads <- ThreeThreads
  Objects = {o1, o2}
  Sigs = {s1}
  Relays = {r1, r2}
  MaxPush = 4
  Emitters <- FirstTwo
  Wirers <- LastThread
  Loopers <- LastThread
  MaxEdit = 3
  MaxEmit = 1
  NestedPush <- NoPairs
  NestedRemove <- NoThreads
  Removers <- NoThreads
  Home <- AllAtLast
  SigHome <- NoSigHome
  OwnContext = TRUE
  Calls <- NoPairs
  Kills <- NoPairs
SYMMETRY RelaySymmetry
INVARIANTS SameOrder OnHomeThread
