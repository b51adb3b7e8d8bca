------------------------------ MODULE Startup ------------------------------
(***************************************************************************)
(* What create_app (app.py) makes of its environment: the process either   *)
(* refuses to start or serves under one signing key, over one store, with  *)
(* or without the external public log.  Every check fails closed, and they *)
(* all run before the first request, so their order does not matter.       *)
(***************************************************************************)
EXTENDS Integers

CONSTANTS
  Stable,   \* the authority key an operator configured
  Db        \* the shared Postgres database

\* An environment, as far as create_app reads it.  A key source is "malformed"
\* when it is set to something that is no Ed25519 seed or PEM.
Environments ==
  [seed_env     : {"unset", "seed", "malformed"},
   key_file     : {"unset", "seed", "malformed"},
   ephemeral_ok : BOOLEAN,
   public_host  : BOOLEAN,
   database_url : BOOLEAN,
   memory_ok    : BOOLEAN,
   knobs_ok     : BOOLEAN,     \* consistency policy, payload cap, submitters file, retention
   public_log   : {"none", "rekor", "other"}]

\* load_signing_key: the seed in the environment wins over the key file, a
\* malformed source raises, and no source at all mints a fresh key.
KeySource(env) ==
  IF env.seed_env # "unset" THEN env.seed_env ELSE env.key_file

LoadSigningKey(env, fresh) ==
  IF KeySource(env) = "unset" THEN [id |-> fresh, ephemeral |-> TRUE]
  ELSE [id |-> Stable, ephemeral |-> FALSE]

KeyAccepted(env) ==
  /\ KeySource(env) # "malformed"
  /\ KeySource(env) = "unset" => env.ephemeral_ok

\* Mutant: an instance without a database serves without the opt-in.
StoreAccepted_Unchecked(env) == TRUE

StoreAccepted(env) == env.database_url \/ env.memory_ok

\* Mutant: the public log is switched on under any key the process may serve
\* under.
PublicLogAccepted_AnyKey(env) == env.public_log # "other"

PublicLogAccepted(env) ==
  /\ env.public_log # "other"
  /\ env.public_log = "rekor" => KeySource(env) # "unset"

Starts(env) ==
  /\ KeyAccepted(env)
  /\ env.public_host
  /\ StoreAccepted(env)
  /\ env.knobs_ok
  /\ PublicLogAccepted(env)

\* Neither development opt-in is set: the operator acknowledged no risk.
Strict(env) == ~ env.ephemeral_ok /\ ~ env.memory_ok

\* The serving process, the n-th to start.  A process without a database
\* keeps a log of its own, named by that number, and loses it when it ends.
Process(env, n) ==
  [status    |-> "up",
   key       |-> LoadSigningKey(env, n).id,
   log       |-> IF env.database_url THEN Db ELSE n,
   strict    |-> Strict(env),
   publisher |-> IF env.public_log = "rekor" THEN "running" ELSE "none",
   failures  |-> 0]

Down ==
  [status |-> "down", key |-> Stable, log |-> Db, strict |-> FALSE,
   publisher |-> "none", failures |-> 0]
=============================================================================
