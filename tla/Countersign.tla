---------------------------- MODULE Countersign ----------------------------
(***************************************************************************)
(* The countersign module's own rules (countersign/): which bundles it     *)
(* takes and from whom, what it states about them, the entry it signs, and *)
(* how a verifier reads a bundle's countersignatures[].                    *)
(*                                                                         *)
(* Hashing and JCS are injective and signatures ideal: a digest is what it *)
(* is of, a signature the pair of its key and its input.  A bundle is what *)
(* the checks read of it, without its countersignatures, which its digest  *)
(* leaves out; what the neutral bundle library says of its proofs is part  *)
(* of it ("membership", "findings", "interval").                           *)
(***************************************************************************)
EXTENDS Integers, Sequences, FiniteSetsExt

CONSTANTS
  Ledgers,   \* issuer identities
  Keys,      \* Ed25519 keys
  None

\* Items of the issuers file: from_list fails closed on the whole of it.
ValidIssuers(items) ==
  /\ \A k \in 1 .. Len(items) : items[k].ledger_id \in Ledgers /\ items[k].pubkey \in Keys
  /\ \A j, k \in 1 .. Len(items) : items[j].ledger_id = items[k].ledger_id => j = k

\* The pinned key of each enrolled ledger.
Issuers(items) ==
  [l \in {items[k].ledger_id : k \in 1 .. Len(items)} |->
     items[CHOOSE k \in 1 .. Len(items) : items[k].ledger_id = l].pubkey]

Sign(key, input) == [by |-> key, input |-> input]

Digest(bundle) == bundle

\* A well-formed bundle that is withheld.
ParseBundle(bundle) ==
  /\ bundle.version = "v2" /\ bundle.root # None
  /\ bundle.payloads_mode = "none" /\ ~ bundle.disclosures

\* Mutant: the key that comes with the request verifies its signature.
AcceptBundle_SuppliedKey(issuers, req) ==
  /\ ParseBundle(req.bundle) /\ req.requester \in DOMAIN issuers
  /\ req.signature = Sign(req.key_id, Digest(req.bundle))

\* accept_bundle: the requester is enrolled, names its pinned key, and has
\* signed this very bundle under it.
AcceptBundle(issuers, req) ==
  /\ ParseBundle(req.bundle) /\ req.requester \in DOMAIN issuers
  /\ req.key_id = issuers[req.requester]
  /\ req.signature = Sign(issuers[req.requester], Digest(req.bundle))
-----------------------------------------------------------------------------
(* The statement: the five checks, then those of the policy module, a      *)
(* function from the names of its checks to their results.                 *)

NullPolicyModule == <<>>

\* range_membership.
RangeMembership(bundle) ==
  IF bundle.records = {} THEN "not present"
  ELSE IF ~ bundle.certified \/ bundle.membership = "withheld" THEN "not checked"
  ELSE IF bundle.membership = "fail" THEN "failed"
  ELSE IF bundle.findings THEN "inconclusive"
  ELSE "established"

\* profile_conformance: of the action types, None that of a record without one.
ProfileConformance(bundle, module) ==
  LET kinds == bundle.records \ {None}
      missing == kinds \ DOMAIN module
  IN IF kinds = {} THEN "not present"
     ELSE IF missing = {} THEN "established"
     ELSE IF missing = kinds THEN "not checked"
     ELSE "inconclusive"

Checks(bundle, module) ==
  {<<"chain consistency", "not present">>,
   <<"range membership", RangeMembership(bundle)>>,
   <<"cadence", "not present">>,
   <<"key hygiene", "not present">>,
   <<"profile conformance", ProfileConformance(bundle, module)>>}
  \cup {<<name, module[name]>> : name \in DOMAIN module}

\* recompute_statement as it goes on the wire; a closure depth that is missing
\* or no integer reads as 2.
RecomputeStatement(bundle, module, ledger, time) ==
  [checks |-> Checks(bundle, module),
   scope |-> [ledger_id |-> ledger,
              closure_depth |-> IF bundle.closure_depth = None THEN 2 ELSE bundle.closure_depth],
   recomputed_at |-> time]
-----------------------------------------------------------------------------
(* The entry, made and verified. *)

\* Mutant: the signature covers the digest of the bundle alone.
SigningInput_DigestOnly(over, signer, statement, type) == <<over>>

SigningInput(over, signer, statement, type) == <<over, signer, statement, type>>

\* sign_countersignature, but for the receipt; independence is judged against
\* the key of the requester.
SignCountersignature(bundle, statement, key, id, requesterKey) ==
  LET signer == [id |-> id, key_id |-> key] IN
  [type |-> "countersign/v1", signer |-> signer, over |-> Digest(bundle),
   statement |-> statement,
   signature |-> Sign(key, SigningInput(Digest(bundle), signer, statement, "countersign/v1")),
   independent |-> key # requesterKey]

\* An absent type is verified as the one there is.
TypeOf(entry) == IF entry.type = None THEN "countersign/v1" ELSE entry.type

\* _signature_valid.
SignatureValid(entry, digest) ==
  /\ entry.over = digest
  /\ entry.signature =
       Sign(entry.signer.key_id,
            SigningInput(entry.over, entry.signer, entry.statement, TypeOf(entry)))

\* verify_entry, for a verifier that knows the producer's keys and has a
\* directory of signers' keys.
VerifyEntry(bundle, entry, producers, directory) ==
  IF TypeOf(entry) # "countersign/v1" THEN "unverified"
  ELSE IF ~ SignatureValid(entry, Digest(bundle)) THEN "invalid"
  ELSE IF entry.signer.key_id \in producers THEN "self-countersigned"
  ELSE IF entry.signer.key_id \notin directory THEN "unresolved signer"
  ELSE "countersigned"

EntryRank ==
  <<"invalid", "unverified", "self-countersigned", "unresolved signer", "countersigned">>

\* The bundle's checkpoint carries evidence of its own.
Witnessed(bundle) == bundle.interval = "pass"

\* resolve_entry_state, of the set of a bundle's entries: the best one counts.
ResolveEntryState(bundle, entries, producers, directory) ==
  IF entries = {}
  THEN IF Witnessed(bundle) THEN "witnessed" ELSE "self-attested"
  ELSE LET ranks == {r \in 1 .. Len(EntryRank) : \E e \in entries :
                       VerifyEntry(bundle, e, producers, directory) = EntryRank[r]}
       IN EntryRank[Max(ranks)]
=============================================================================
