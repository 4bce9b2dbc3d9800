SPECIFICATION Spec
CONSTANTS
  MaxEdits = 2
  WordSize = 100000
  TicksPerSecond = 2
  FloorRate = 1
  MaxRate = 3
  RateStep = 1
  FailuresToOpen = 2
  InitialBackoff = 2
  MaxBackoff = 8
  MaxJitter = 1
  ChunkBlocks = 2
  MaxRefused = 3
  MaxStreamed = 4
  w1 = w1
  w2 = w2
  Fetchers = {w1, w2}
  LastBlock = 3
  Upgrades = {1, 2}
  Offers <- ThreeOffers
  Readable = {14, 15}
  MaxCrashes = 1
  MaxErrors = 1
  p1 = p1
  p2 = p2
  g1 = g1
  g2 = g2
  Commands = {p1, p2}
  Configured = 2
  Geneses = {g1, g2}
  Unknown = Unknown
  MaxStarts = 3
  Bodies <- AllBodies
  LastBody = 2
  BatchSize = 2
  Redos = 1
INVARIANTS PartsTypeOK Conforms NoLeaseBehindOpenBreaker HalfOpenBounded
INVARIANTS AcceptedRuns RetentionKept DecodesTrue  OneChain RowsTrue
PROPERTIES ProbesBackOff ComesBack
CHECK_DEADLOCK FALSE
