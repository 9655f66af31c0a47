\* Up to four pools, any of the addresses unusable.
SPECIFICATION Spec
CONSTANTS
  a = a
  b = b
  any6 = any6
  any4 = any4
  Addresses = {a, b, any6, any4}
  Overlaps <- MCOverlaps
  NoKey = NoKey
  Layouts <- MCLayouts
  SizeModulus = 16
  MaxFd = 7
INVARIANTS TypeOK EveryPoolServed RefusedOnlyUnusable RefcountCountsUsers
PROPERTIES Terminates
CHECK_DEADLOCK FALSE
