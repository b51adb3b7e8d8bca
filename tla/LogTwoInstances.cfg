SPECIFICATION Spec
CONSTANTS
  Instances = {i1, i2}
  Submissions = {digest}
  WithSubject = {}
  PreMigration <- NothingMigrated
  Anchors = {}
  WithCapsule = {}
  Time = {0}
  Retention = FALSE
  MaxLog = 3
  MaxFaults = 0
  EntryHash <- MCEntryHash
  LegacyHash <- MCLegacyHash
  None = None
  digest = digest
  envelope = envelope
  twin = twin
  old = old
  hDigest = hDigest
  hAct = hAct
  hEnvelope = hEnvelope
  hTwin = hTwin
  hOld = hOld
  hOldAct = hOldAct
INVARIANTS
  OneLeafPerAct
