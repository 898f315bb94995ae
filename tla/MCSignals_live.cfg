\* Fair threads: emissions and destructors return.  The signal belongs to the
\* second thread and the slot to the first, which emits too.
SPECIFICATION SigFairSpec
CONSTANTS
  None = None
  o1 = o1
  o2 = o2
  s1 = s1
  s2 = s2
  r1 = r1
  r2 = r2
  Threads <- TwoThreads
  Objects = {o1}
  Sigs = {s1}
  Relays = {r1, r2}
  MaxPush = 4
  MaxEmit = 1
  MaxEdit = 2
  Emitters <- TwoThreads
  Wirers <- OneThread
  Loopers <- OneThread
  NestedPush <- NoPairs
  NestedRemove <- NoThreads
  Removers <- OneThread
  Home <- AllAtFirst
  SigHome <- SigHomeLast
  OwnContext = FALSE
  Calls <- NoPairs
  Kills <- NoPairs
INVARIANT SignalsSound
PROPERTIES EmissionReturns EventuallyExecuted
