\* Starts in turn and in parallel.
SPECIFICATION Spec
CONSTANTS
  Instances = {i1, i2, i3}
  Nobody = Nobody
  NoFile = NoFile
  Stale = Stale
  Chown = TRUE
  Regimes <- MCRegimes
INVARIANTS TypeOK UmaskOnlyForBind NoLeak Reachable
PROPERTIES RefusedOnlyByAServer ImplementsAddress StartsEnd
