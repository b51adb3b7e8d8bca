SPECIFICATION Spec
CONSTANTS
  Instances = {i1}
  Threads = {t1, t2}
  InstanceOf <- OneInstance
  Checkpoints <- EveryKind
  Policy = "enforce"
  Retention = TRUE
  MaxLog = 5
  MaxFaults = 0
  None = None
  i1 = i1
  i2 = i2
  t1 = t1
  t2 = t2
SYMMETRY ThreadSymmetry
INVARIANTS
  NoForkAccepted
PROPERTIES
  TipExtends
