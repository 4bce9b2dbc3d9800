SPECIFICATION Spec
CONSTANTS
  Hole = Hole
  StartBlock = 1
  LastBlock = 3
  SegmentSize = 2
  MaxFrames = 2
  MaxMishaps = 2
  Policies = {"archive", "delete"}
  Faults = {"power", "full"}
INVARIANTS
  ArchiveTypeOK
  ReadsBack
  RecordsTrue
  ArchivedPrefix
  TornReadsAbsent
  StatusTrue
PROPERTIES
  ImplementsBlockArchive
CHECK_DEADLOCK FALSE
