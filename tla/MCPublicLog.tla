---------------------------- MODULE MCPublicLog ----------------------------
(***************************************************************************)
(* An instance of Auditor for TLC: two instances over one database, with   *)
(* the environments that matter to the rail.                               *)
(***************************************************************************)
EXTENDS Auditor

CONSTANTS i1, i2

Production ==
  [seed_env |-> "seed", key_file |-> "unset", ephemeral_ok |-> FALSE, public_host |-> TRUE,
   database_url |-> TRUE, memory_ok |-> FALSE, knobs_ok |-> TRUE, public_log |-> "rekor"]

\* One variable away from production, or two; the comment says what becomes of it.
Deployments ==
  {Production,
   [Production EXCEPT !.database_url = FALSE],                         \* refused
   [Production EXCEPT !.database_url = FALSE, !.memory_ok = TRUE],     \* up, its own log
   [Production EXCEPT !.seed_env = "unset"],                           \* refused
   [Production EXCEPT !.seed_env = "unset", !.ephemeral_ok = TRUE],    \* refused with Rekor
   [Production EXCEPT !.seed_env = "malformed", !.key_file = "seed"]}  \* refused
=============================================================================
