\* Two events wait in the queue when the thread drains it.
SPECIFICATION Spec
CONSTANTS
  e1 = e1
  e2 = e2
  e3 = e3
  w1 = w1
  w2 = w2
  Events = {e1, e2}
  Work = {}
  MaxSwitch = 1
  Backlog = 2
INVARIANT EventsHandled
CHECK_DEADLOCK FALSE
