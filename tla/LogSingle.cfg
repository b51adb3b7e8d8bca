SPECIFICATION Spec
CONSTANTS
  Instances = {i1}
  Submissions = {digest, envelope, twin, old}
  WithSubject = {envelope, twin}
  PreMigration <- OldMigrated
  Anchors = {a1}
  WithCapsule = {}
  Time = {0}
  Retention = FALSE
  MaxLog = 5
  MaxFaults = 0
  EntryHash <- MCEntryHash
  LegacyHash <- MCLegacyHash
  None = None
  digest = digest
  envelope = envelope
  twin = twin
  old = old
  hDigest = hDigest
  hAct = hAct
  hEnvelope = hEnvelope
  hTwin = hTwin
  hOld = hOld
  hOldAct = hOldAct
INVARIANTS
  OneLeafPerAct
  OneReceipt
  ReceiptHeadOnRecord
  SubjectListed
