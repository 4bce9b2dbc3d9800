SPECIFICATION Spec
CONSTANTS
  Workers = {w1, w2}
  StartBlock = 1
  FirstHead = 3
  MaxHead = 5
  MaxAttempts = 2
  ChunkSize = 2
  MaxLag = 5
  Batch = 3
  Modes = {"index"}
  Stops = {6}
  Froms = {}
SYMMETRY Symmetry
INVARIANTS
  WatermarkHonest
