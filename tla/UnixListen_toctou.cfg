\* Starts in parallel: the connect test and the unlink are not one step.
SPECIFICATION Spec
CONSTANTS
  Instances = {i1, i2}
  Nobody = Nobody
  NoFile = NoFile
  Stale = Stale
  Chown = TRUE
  Regimes <- ParallelStarts
INVARIANTS OneServer
