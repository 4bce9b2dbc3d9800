SPECIFICATION FairSpec
CONSTANTS
  Workers = {w1, w2}
  StartBlock = 1
  FirstHead = 4
  MaxHead = 4
  MaxAttempts = 2
  ChunkSize = 2
  MaxLag = 4
  Batch = 3
  Modes = {"index"}
  Stops = {4}
  Froms = {}
PROPERTIES
  IndexRecovers
