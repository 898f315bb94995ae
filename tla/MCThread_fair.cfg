\* Clients that push only to an empty queue, Start and Stop; ~Thread may come at
\* any time.
SPECIFICATION FairSpec
CONSTANTS
  e1 = e1
  e2 = e2
  e3 = e3
  w1 = w1
  w2 = w2
  Events = {e1, e2}
  Work = {w1}
  MaxSwitch = 3
  Backlog = 1
INVARIANTS ThreadSound
PROPERTIES QueuesDrain StartTakesEffect JoinReturns
\* The thread ends, or parks for ever when the interruption was swallowed.
CHECK_DEADLOCK FALSE
