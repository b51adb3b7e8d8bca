--------------------------- MODULE MCCountersign ---------------------------
(***************************************************************************)
(* An instance of CountersignService for TLC: a producer, the operator     *)
(* itself as a producer, a stranger, and one webhook host whose DNS answer *)
(* moves between a public address, two with a private one, and none.       *)
(***************************************************************************)
EXTENDS CountersignService

CONSTANTS producer, operator, kp, ks, public, private, hook, other

Enrolled == <<[ledger_id |-> producer, pubkey |-> kp], [ledger_id |-> operator, pubkey |-> Key]>>

Strict ==
  [countersign |-> "1", policy |-> "strict", public_host |-> "host", issuers |-> Enrolled,
   webhook_hosts |-> None]

\* The second does not mount the route, the last does not start.
Environments ==
  {Strict, [Strict EXCEPT !.policy = "permissive"],
   [Strict EXCEPT !.webhook_hosts = {other}],
   [Strict EXCEPT !.issuers = Enrolled \o Enrolled]}

Withheld ==
  [version |-> "v2", root |-> "r", payloads_mode |-> "none", disclosures |-> FALSE,
   records |-> {"action", None}, certified |-> TRUE, membership |-> "pass",
   findings |-> FALSE, interval |-> "pass", closure_depth |-> None]

Broken == [Withheld EXCEPT !.membership = "fail", !.interval = "fail"]

Profiles ==
  [p \in {"test/v0", "actions", "raw"} |->
     IF p = "test/v0" THEN NullPolicyModule ELSE [n \in {"action"} |-> "established"]]

Url(scheme) == [scheme |-> scheme, host |-> hook]

Request(ledger, key, bundle) ==
  [body |-> "ok", requester |-> ledger, key_id |-> key, bundle |-> bundle,
   signature |-> Sign(key, Digest(bundle)), profile_id |-> None, webhook |-> None]

Plain == Request(producer, kp, Withheld)

Posted ==
  {[Plain EXCEPT !.body = "large"], [Plain EXCEPT !.body = "malformed"],
   [Plain EXCEPT !.profile_id = "raw"], [Plain EXCEPT !.profile_id = "unknown"],
   [Plain EXCEPT !.webhook = Url("unparsable"), !.profile_id = "actions"],
   [Request(producer, kp, Broken) EXCEPT !.webhook = Url("https"), !.profile_id = "test/v0"],
   Request(operator, Key, Withheld),
   Request(producer, ks, Broken),                             \* a stranger's
   [Request(producer, kp, Broken) EXCEPT !.bundle = Withheld], \* signed for another bundle
   Request(producer, kp, [Withheld EXCEPT !.payloads_mode = "inline"])}

Lookups == {<<public>>, <<private, public>>, <<>>}
=============================================================================
