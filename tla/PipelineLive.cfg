SPECIFICATION SteadyFairSpec
CONSTANTS
  Workers = {w1, w2}
  StartBlock = 1
  FirstHead = 2
  MaxHead = 5
  MaxAttempts = 2
  ChunkSize = 3
  MaxLag = 2
  Batch = 3
  Modes = {"index"}
  Stops = {6}
  Froms = {}
INVARIANTS
  WatermarkHonest
PROPERTIES
  EventuallyIndexed
  GivesUp
