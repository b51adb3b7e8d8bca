SPECIFICATION Spec
CONSTANTS
  Instances = {i1, i2}
  Threads = {t1, t2}
  InstanceOf <- TwoInstances
  Checkpoints <- OneHistory
  Policy = "enforce"
  Retention = FALSE
  MaxLog = 2
  MaxFaults = 0
  None = None
  i1 = i1
  i2 = i2
  t1 = t1
  t2 = t2
INVARIANTS
  RecordedGradeEarned
