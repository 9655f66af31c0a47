\* Every short file, with and without memory, and calls on what is loaded.
SPECIFICATION Spec
CONSTANTS
  v = v
  w = w
  Null = Null
  Joint = Joint
  Nothing = Nothing
  Hash <- MCHash
  MinSize = 2
  Files <- MCFiles
  Vals = {v, w, Joint}
  ApiKeys <- MCApiKeys
  MaxEntries = 5
  MaxCalls = 2
INVARIANTS TypeOK WellFormed  
PROPERTIES ImplementsMap
CHECK_DEADLOCK FALSE
