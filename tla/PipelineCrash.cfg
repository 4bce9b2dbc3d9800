SPECIFICATION Spec
CONSTANTS
  Workers = {w1, w2}
  StartBlock = 1
  FirstHead = 5
  MaxHead = 5
  MaxAttempts = 2
  ChunkSize = 2
  MaxLag = 4
  Batch = 3
  Modes = {"index"}
  Stops = {5}
  Froms = {}
INVARIANTS
  TypeOK
  WatermarkHonest
  NoGaps
  RowsReplayable
  DigestFindsItsBlocks
  CursorInStep
  BrakeHolds
PROPERTIES
  ImplementsTwoStage
