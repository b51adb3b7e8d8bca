SPECIFICATION AuditorSpec
CONSTANTS
  Stable = Stable
  Db = Db
  None = None
  i1 = i1
  i2 = i2
  Instances = {i1, i2}
  Sizes = {9, 10}
  Offered <- Deployments
  DegradedAfter = 3
  MaxStarts = 2
  MaxFaults = 1
  MaxGrowths = 2
  MaxTree = 10
INVARIANTS
  TypeOK
  PublishedTruthful
  EvidenceCovers
  
  
  InclusionExact
  ConsistencyExact
PROPERTIES
  
  PublicationsKept
  OneLogPinned
  AlarmsJustified
CHECK_DEADLOCK FALSE
