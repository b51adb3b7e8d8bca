------------------------------- MODULE Watcher -------------------------------
(***************************************************************************)
(* The conformance watcher (cross_witness_conformance), run now and then   *)
(* beside the service on a checkpoint handed to it: it parses the bytes    *)
(* with the service's own parsers, asks the witness for the digest, and    *)
(* compares the checkpoint with the one its last run saved to a file.      *)
(*                                                                         *)
(* A run's report is a set of [check, status]; what is kept of it is the   *)
(* state file.                                                             *)
(***************************************************************************)
EXTENDS Admission

CONSTANTS
  Expected   \* the log_ids the watcher is run for, with one state file

VARIABLES
  saved   \* the state file: the claims of a past run, or None

watcherVars == <<vars, saved>>

Check(name, status) == [check |-> name, status |-> status]
Pass(name) == Check(name, "PASS")
Fail(name) == Check(name, "FAIL")
Unknown(name) == Check(name, "UNKNOWN")

HasFailure(checks) == \E c \in checks : c.status = "FAIL"

\* The declared form of the expected log chooses the parser.
DeclaredParse(e, expected) ==
  IF expected \in DOMAIN allowlist /\ allowlist[expected].wire_form = "json"
  THEN ParseJson(allowlist, e) ELSE ParseCose(allowlist, e)

\* check_checkpoint_wire: whose checkpoint it is, and under which grade.
WireChecks(claims, expected, grade) ==
  {Pass("wire_structure"), Pass("signature_verified"), Pass("sub_pattern"),
   IF claims.log_id = expected THEN Pass("enrolled_log_id") ELSE Fail("enrolled_log_id"),
   CASE grade = None -> Unknown("countersign_grade")
     [] grade # None /\ claims.grade = grade -> Pass("countersign_grade")
     [] OTHER -> Fail("countersign_grade")}

\* check_witness_tie_back: GET /v1/inclusion and the receipt's verification,
\* for a witness that answers.
TieBack(claims) ==
  IF Digest(claims) \notin registered
  THEN {Fail("witness_registered")}
  ELSE {Pass("witness_registered"), Pass("receipt_offline_verify")}

\* Mutant: a checkpoint that begins anew is taken for a first one.
Extends_OrBegins(first, second) ==
  \/ second.prev_size = 0
  \/ second.prev_size = first.size /\ second.prev_root = first.root

\* check_chain_continuity of two checkpoints of one log.
Extends(first, second) ==
  /\ second.prev_size = first.size /\ second.prev_root = first.root
  /\ second.size > first.size

ChainContinuity(claims) ==
  IF saved = None \/ saved.log_id # claims.log_id THEN {Unknown("chain_continuity")}
  ELSE IF Extends(saved, claims) THEN {Pass("chain_continuity")}
  ELSE {Fail("chain_continuity")}

\* run, if no check fails (else, or when the witness does not answer, it
\* changes nothing): the state file is written,
\* whatever log the claims in it were of.
Watch(e, expected, grade) ==
  LET claims == DeclaredParse(e, expected)
      checks == WireChecks(claims, expected, grade) \cup TieBack(claims)
                  \cup ChainContinuity(claims)
  IN /\ claims.status = 200 /\ ~ HasFailure(checks)
     /\ saved' = claims
     /\ UNCHANGED vars

WatcherInit == Init /\ saved = None

WatcherNext ==
  \/ Next /\ UNCHANGED saved
  \/ \E e \in Submissions, expected \in Expected,
        grade \in {None, "countersigned-observed"} :
       Watch(e, expected, grade)

WatcherSpec == WatcherInit /\ [][WatcherNext]_watcherVars
-----------------------------------------------------------------------------
(* Properties. *)

\* The watcher's state file holds a checkpoint that is on the log of the
\* witness, and moves along one chain: the next run without a failure has
\* brought an extension of it, unless it was of another log, whose claims the
\* file then holds instead (watcher.py:85-104).
WatchedChain ==
  [][saved' # saved =>
       /\ Digest(saved') \in registered'
       /\ saved # None /\ saved.log_id = saved'.log_id =>
            /\ saved'.prev_size = saved.size /\ saved'.prev_root = saved.root
            /\ saved'.size > saved.size]_watcherVars
=============================================================================
