\* The result is reported as the code expects.
SPECIFICATION Spec
CONSTANTS
  Acks = {0, 1}
  Capacity = 2
  MaxPlaces = 2
INVARIANTS AckMeansSuccess
CHECK_DEADLOCK FALSE
