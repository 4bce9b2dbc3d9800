SPECIFICATION Spec
CONSTANTS
  Workers = {w1}
  StartBlock = 1
  FirstHead = 4
  MaxHead = 4
  MaxAttempts = 2
  ChunkSize = 2
  MaxLag = 4
  Batch = 3
  Modes = {"index", "fetch", "digest"}
  Stops = {4}
  Froms <- IndexAndFetchFrom2
INVARIANTS
  WatermarkHonest
  NoGaps
