\* A pool declared in the main file.
SPECIFICATION BootSpec
CONSTANTS
  Configurations = {}
  BacklogDefault = 4
  Unset = 64
  Unreadable = Unreadable
  HeaderSize = 3
  PointerSize = 1
  SlotSize = 2
  TimeWords <- MCTimeWords
  Systems <- MainPoolSystems
INVARIANTS MainPoolsExist
CHECK_DEADLOCK FALSE
