SPECIFICATION Spec
CONSTANTS
  Instances = {i1}
  Threads = {t1}
  InstanceOf <- OneInstance
  Checkpoints <- SlotLog
  Policy = "warn"
  Retention = FALSE
  MaxLog = 3
  MaxFaults = 0
  None = None
  i1 = i1
  i2 = i2
  t1 = t1
  t2 = t2
INVARIANTS
  WitnessedAnswersVerified
