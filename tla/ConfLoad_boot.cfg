\* Every main file, directory and pool of MCConfLoad.
SPECIFICATION BootSpec
CONSTANTS
  Configurations = {}
  BacklogDefault = 4
  Unset = 64
  Unreadable = Unreadable
  HeaderSize = 3
  PointerSize = 1
  SlotSize = 2
  TimeWords <- MCTimeWords
  Systems <- MCSystems
INVARIANTS ConfTypeOK PoolsAreTheFiles SettingsInForce AcceptedPoolsSound CompletionIsStable BoardsFit
PROPERTIES BootEnds
CHECK_DEADLOCK FALSE
