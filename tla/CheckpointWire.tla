--------------------------- MODULE CheckpointWire ---------------------------
(***************************************************************************)
(* The submitter allowlist (submitters.py) and the two wire forms of a     *)
(* checkpoint: the COSE_Sign1 envelope (checkpoint_cose.py), open to every *)
(* log_id, and the JSON record (checkpoint_json.py), for logs enrolled     *)
(* with that form.                                                         *)
(*                                                                         *)
(* A submission is what its bytes say, field by field; None stands for a   *)
(* field that is absent or not of its type.  A root is a value, "" the     *)
(* root of a log without leaves.  The time stamp is left out.              *)
(***************************************************************************)
EXTENDS Integers, Sequences

CONSTANTS
  Logs,   \* log_ids
  Keys,   \* Ed25519 keys
  None

\* Items of the submitters file, as from_list reads them.
ValidItem(item) ==
  /\ item.log_id \in Logs
  /\ item.pubkey \in Keys
  /\ item.accumulator \in {"native", "foreign"}
  /\ item.rate_limit \in Nat \ {0}
  /\ \/ item.wire_form = "cose" /\ item.field_map = "none"
     \/ item.wire_form = "json" /\ item.field_map \in {"none", "distinct"}

\* from_list fails closed on the whole file.
ValidConfig(items) ==
  /\ \A k \in 1 .. Len(items) : ValidItem(items[k])
  /\ \A j, k \in 1 .. Len(items) : items[j].log_id = items[k].log_id => j = k

\* The allowlist is a function from the enrolled log_ids.
Allowlist(items) ==
  [l \in {items[k].log_id : k \in 1 .. Len(items)} |->
     items[CHOOSE k \in 1 .. Len(items) : items[k].log_id = l]]

GradeOf(entry) ==
  IF entry.accumulator = "foreign" THEN "countersigned-observed" ELSE "mmr-verified"

\* What both forms ask of the claims.
ValidClaims(c) ==
  /\ c.size > 0 /\ c.prev_size >= 0 /\ c.prev_size < c.size
  /\ c.root \notin {None, ""} /\ c.prev_root # None

NotACheckpoint == [status |-> 400]
BadSignature == [status |-> 401]

\* The dict the parsers return.
Parsed(e, key, grade, proof) ==
  [status |-> 200, log_id |-> e.log_id, size |-> e.claims.size, root |-> e.claims.root,
   prev_size |-> e.claims.prev_size, prev_root |-> e.claims.prev_root, key_id |-> key,
   grade |-> grade, proof |-> proof]
-----------------------------------------------------------------------------
(* The COSE form. *)

\* _extract_protected_fields and the two checks after it.
CoseHeaderRead(e) ==
  e.form = "cose" /\ e.content_type = "cll-checkpoint" /\ e.kid \in Keys

\* Mutant: the envelope's own key verifies it, enrolled or not.
VerifyKey_OwnKid(allowlist, e) == e.kid

\* The pinned key of an enrolled issuer, else the envelope's own.
VerifyKey(allowlist, e) ==
  IF e.log_id \in DOMAIN allowlist THEN allowlist[e.log_id].pubkey ELSE e.kid

\* A proof, if there is one, spans the two sizes; the subject names the size;
\* a prior root may be missing whatever prev_size is.
CoseClaimsValid(c) ==
  /\ ValidClaims(c)
  /\ c.proof = None \/ c.proof = <<c.prev_size, c.size>>
  /\ c.subject = c.size

\* The signature first, the claims after it.
ParseCose(allowlist, e) ==
  IF ~ CoseHeaderRead(e) THEN NotACheckpoint
  ELSE IF e.signer # VerifyKey(allowlist, e) THEN BadSignature
  ELSE IF e.log_id = None \/ ~ CoseClaimsValid(e.claims) THEN NotACheckpoint
  ELSE Parsed(e, VerifyKey(allowlist, e),
              IF e.log_id \in DOMAIN allowlist THEN GradeOf(allowlist[e.log_id]) ELSE None,
              e.claims.proof # None)
-----------------------------------------------------------------------------
(* The JSON form. *)

\* _extract_log_id: the entry whose own field name holds its log_id.
JsonEntries(allowlist, e) ==
  {l \in DOMAIN allowlist : allowlist[l].wire_form = "json" /\ e.log_id = l}

\* A prior root is needed beyond the first checkpoint; kid is the key_id field.
JsonClaimsValid(e) ==
  /\ ValidClaims(e.claims)
  /\ e.kid # None
  /\ e.claims.prev_size > 0 => e.claims.prev_root # ""

\* The fields first, the signature after them, under the pinned key.
ParseJson(allowlist, e) ==
  IF e.form # "json" \/ JsonEntries(allowlist, e) = {} \/ ~ JsonClaimsValid(e)
  THEN NotACheckpoint
  ELSE LET entry == allowlist[e.log_id]
       IN IF e.signer # entry.pubkey THEN BadSignature
          ELSE Parsed(e, e.kid, GradeOf(entry), FALSE)

\* _checkpoint_digest, of the signing body: not of grade and proof.
Digest(cp) ==
  <<cp.log_id, cp.size, cp.root, cp.prev_size, cp.prev_root, cp.key_id>>
=============================================================================
