-------------------------- MODULE MCTransparencyLog --------------------------
(***************************************************************************)
(* Instances of TransparencyLog for TLC: a bare digest, a COSE envelope    *)
(* and its signature-malleated twin (the same signing act in other bytes), *)
(* and an envelope that may have been logged before the migration.         *)
(***************************************************************************)
EXTENDS TransparencyLog, TLC

CONSTANTS digest, envelope, twin, old,                \* submissions
          hDigest, hAct, hEnvelope, hTwin, hOld, hOldAct  \* hashes

MCEntryHash ==
  [s \in Submissions |-> CASE s = digest -> hDigest
                           [] s \in {envelope, twin} -> hAct
                           [] s = old -> hOldAct]

MCLegacyHash ==
  [s \in Submissions |-> CASE s = digest -> hDigest
                           [] s = envelope -> hEnvelope
                           [] s = twin -> hTwin
                           [] s = old -> hOld]

NothingMigrated == <<>>
OldMigrated == <<old>>

InstanceSymmetry == Permutations(Instances)
=============================================================================
