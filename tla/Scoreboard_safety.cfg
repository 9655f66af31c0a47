\* The master and two workers, one call each, SET against INC.
SPECIFICATION Spec
CONSTANTS
  Procs = {"master", "w1", "w2"}
  Workers = {"w1", "w2"}
  NoCall = NoCall
  MaxCalls = 1
  UModulus = 4
  Calls <- MixedCalls
INVARIANTS TypeOK MutualExclusion MaximaCoverWhenFree NeverNegative
PROPERTIES HighWaterMonotone FrozenOnceOrphaned ImplementsAtomic ReleasedOrOrphaned
CHECK_DEADLOCK FALSE
