SPECIFICATION FairSpec
CONSTANTS
  Instances = {i1, i2}
  Submissions = {digest}
  WithSubject = {}
  PreMigration <- NothingMigrated
  Anchors = {a1}
  WithCapsule = {}
  Time = {0}
  Retention = FALSE
  MaxLog = 2
  MaxFaults = 1
  EntryHash <- MCEntryHash
  LegacyHash <- MCLegacyHash
  None = None
  digest = digest
  envelope = envelope
  twin = twin
  old = old
  hDigest = hDigest
  hAct = hAct
  hEnvelope = hEnvelope
  hTwin = hTwin
  hOld = hOld
  hOldAct = hOldAct
PROPERTIES
  EntriesCovered
