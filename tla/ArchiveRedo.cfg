SPECIFICATION RedoSpec
CONSTANTS
  Hole = Hole
  StartBlock = 1
  LastBlock = 3
  SegmentSize = 2
  MaxFrames = 2
  MaxMishaps = 2
  Policies = {"archive"}
  Faults = {}
INVARIANTS
  HasCopy
CHECK_DEADLOCK FALSE
