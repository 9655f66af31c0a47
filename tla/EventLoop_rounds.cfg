\* Three events, one of them edge-triggered, one that select has no room for.
SPECIFICATION Spec
CONSTANTS
  Events = {e1, e2, e3}
  Nobody = Nobody
  Edge = {e3}
  High = {e3}
  ChildCounts <- MCChildCounts
  IntModulus = 32
INVARIANTS TypeOK
PROPERTIES ImplementsDispatcher Served
CHECK_DEADLOCK FALSE
