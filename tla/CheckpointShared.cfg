SPECIFICATION Spec
CONSTANTS
  Instances = {i1, i2}
  Threads = {t1, t2}
  InstanceOf <- TwoInstances
  Checkpoints <- MixedLog
  Policy = "warn"
  Retention = TRUE
  MaxLog = 3
  MaxFaults = 1
  None = None
  i1 = i1
  i2 = i2
  t1 = t1
  t2 = t2
SYMMETRY PairSymmetry
INVARIANTS
  TypeOK
  TipAccepted
  AssertionsBridge
  EquivocationsFlagged
PROPERTIES
  EvidenceKept
