SPECIFICATION Spec
CONSTANTS
  Instances = {i1, i2}
  Submissions = {digest}
  WithSubject = {digest}
  PreMigration <- NothingMigrated
  Anchors = {a1}
  WithCapsule = {a1}
  Time = {0, 1}
  Retention = TRUE
  MaxLog = 2
  MaxFaults = 1
  EntryHash <- MCEntryHash
  LegacyHash <- MCLegacyHash
  None = None
  digest = digest
  envelope = envelope
  twin = twin
  old = old
  hDigest = hDigest
  hAct = hAct
  hEnvelope = hEnvelope
  hTwin = hTwin
  hOld = hOld
  hOldAct = hOldAct
SYMMETRY InstanceSymmetry
INVARIANTS
  TypeOK
  VerifyLog
  ReceiptsTruthful
  HeadsTruthful
  
PROPERTIES
  GetSthFresh
  SthNeverRegresses
  HistoryImmutable
  ImplementsAppendOnlyLog
