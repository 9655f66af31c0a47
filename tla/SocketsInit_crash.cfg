\* Three pools.
SPECIFICATION Spec
CONSTANTS
  a = a
  b = b
  any6 = any6
  any4 = any4
  Addresses = {a, b, any6, any4}
  Overlaps <- MCOverlaps
  NoKey = NoKey
  Layouts <- ThreePools
  SizeModulus = 16
  MaxFd = 7
INVARIANTS NeverCrashes
CHECK_DEADLOCK FALSE
