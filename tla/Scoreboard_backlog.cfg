\* The call of pmf_sockets_init_main, then a worker's.
SPECIFICATION Spec
CONSTANTS
  Procs = {"master", "w1"}
  Workers = {"w1"}
  NoCall = NoCall
  MaxCalls = 1
  UModulus = 4
  Calls <- StartupCalls
INVARIANTS LqMaxCoversLqLen
CHECK_DEADLOCK FALSE
