SPECIFICATION ReplaySpec
CONSTANTS
  Workers = {w1}
  StartBlock = 1
  FirstHead = 4
  MaxHead = 4
  MaxAttempts = 2
  ChunkSize = 2
  MaxLag = 4
  Batch = 2
  Modes = {"index"}
  Stops = {4}
  Froms = {}
  Replays <- MCReplays
INVARIANTS
  NoGaps
