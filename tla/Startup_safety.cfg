\* Foreground and daemonized; either result may be reported, or none.
SPECIFICATION Spec
CONSTANTS
  Acks = {0, 1}
  Capacity = 2
  MaxPlaces = 2
INVARIANTS TypeOK PidFileNamesMaster SignalsReachMaster
PROPERTIES CallerReturns
CHECK_DEADLOCK FALSE
