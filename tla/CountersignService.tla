------------------------- MODULE CountersignService -------------------------
(***************************************************************************)
(* POST /countersign/register (countersign/router.py) of an instance that  *)
(* has opted into it, and the delivery of its entries to webhooks          *)
(* (countersign/webhooks.py) by background tasks of the same process.      *)
(*                                                                         *)
(* register runs on the event loop and waits only for its body, so it is   *)
(* one step; its registration in the log is TransparencyLog's and its rate *)
(* limiter, a _SlidingWindowLimiter of its own, is Admission's, here "the  *)
(* limiter may refuse".  A delivery is cut where others step in: after it  *)
(* resolved and checked the host, and after each attempt.  Back-off is     *)
(* only a wait.                                                            *)
(***************************************************************************)
EXTENDS Countersign

CONSTANTS
  Key,             \* the authority key of the attestor
  Deployments,     \* environments a process may start in
  Requests,        \* what clients POST
  Registry,        \* per profile id, its policy module
  Encodable,       \* profile ids whose module names checks that have a JCS form
  Hosts,           \* hosts of webhook URLs
  Addresses,       \* of hosts
  Answers,         \* what the DNS may say of a host: sequences of addresses
  Blocked,         \* loopback, link-local, private, reserved addresses
  MaxStatements,   \* bound: requests countersigned
  MaxStarts,       \* bound: starts of the process
  MaxFlips         \* bound: changes of the DNS

ASSUME CountersignConstants ==
  /\ Key \in Keys
  /\ MaxStatements \in Nat /\ MaxStarts \in Nat /\ MaxFlips \in Nat
  /\ None \notin DOMAIN Registry \cup {"2xx"}
  /\ Answers \subseteq Seq(Addresses)
  /\ \A req \in Requests : req.webhook # None => req.webhook.host \in Hosts

VARIABLES
  proc,        \* the environment the process runs in, or None
  log,         \* the statements whose digests this route registered
  issued,      \* history: the entries made, each with its request
  answer,      \* the status of the answer just given, or 0
  dns,         \* what the DNS says of each host
  deliveries,  \* the background tasks, in the order they were scheduled
  starts,      \* history: starts
  flips        \* history: changes of the DNS

vars == <<proc, log, issued, answer, dns, deliveries, starts, flips>>

Init ==
  /\ proc = None
  /\ log = {}
  /\ issued = {}
  /\ answer = 0
  /\ dns \in [Hosts -> Answers]
  /\ deliveries = <<>>
  /\ starts = 0
  /\ flips = 0
-----------------------------------------------------------------------------
(* The process. *)

\* Both switches are needed; only then is the route mounted and the file of
\* issuers read.
StrictCountersignActive(env) == env.countersign = "1" /\ env.policy = "strict"

\* A malformed file of issuers ends the start.
Start(env) ==
  /\ proc = None /\ starts < MaxStarts
  /\ StrictCountersignActive(env) => ValidIssuers(env.issuers)
  /\ proc' = env
  /\ starts' = starts + 1
  /\ answer' = 0
  /\ UNCHANGED <<log, issued, dns, deliveries, flips>>

Pending(d) == d \in 1 .. Len(deliveries) /\ deliveries[d].status = "pending"

\* Background tasks are not persisted.
Crash ==
  /\ proc # None
  /\ proc' = None
  /\ deliveries' = [d \in 1 .. Len(deliveries) |->
       IF Pending(d) THEN [deliveries[d] EXCEPT !.status = "lost", !.pinned = None]
       ELSE deliveries[d]]
  /\ answer' = 0
  /\ UNCHANGED <<log, issued, dns, starts, flips>>

Flip(host) ==
  /\ flips < MaxFlips
  /\ \E a \in Answers \ {dns[host]} : dns' = [dns EXCEPT ![host] = a]
  /\ flips' = flips + 1
  /\ answer' = 0
  /\ UNCHANGED <<proc, log, issued, deliveries, starts>>
-----------------------------------------------------------------------------
(* _validate_and_pin. *)

AllowedHost(host) ==
  host \in IF proc.webhook_hosts = None THEN Hosts ELSE proc.webhook_hosts

\* Every address of the host is public, and there is one.
ResolveAndCheck(host) ==
  /\ dns[host] # <<>>
  /\ \A k \in 1 .. Len(dns[host]) : dns[host][k] \notin Blocked

Vetted(url) ==
  url.scheme = "https" /\ AllowedHost(url.host) /\ ResolveAndCheck(url.host)
-----------------------------------------------------------------------------
(* POST /countersign/register. *)

Mounted == proc # None /\ StrictCountersignActive(proc)

\* NullPolicyModule for a request that names no profile.
ModuleOf(req) == IF req.profile_id = None THEN NullPolicyModule ELSE Registry[req.profile_id]

\* The refusals in their order, or 200.  The two 503s ask for what create_app
\* has seen to.
Admit(req) ==
  IF req.body = "large" THEN 413
  ELSE IF req.body = "malformed" \/ ~ AcceptBundle(Issuers(proc.issuers), req)
          \/ req.profile_id \notin {None} \cup DOMAIN Registry THEN 422
  ELSE IF req.profile_id \notin {None} \cup Encodable THEN 400
  ELSE 200

\* Nothing is signed or logged for a refused request.
Refuse(req) ==
  /\ Mounted
  /\ answer' \in {429, Admit(req)} \ {200}
  /\ UNCHANGED <<proc, log, issued, dns, deliveries, starts, flips>>

Deliver(entry, url) ==
  [entry |-> entry, url |-> url, status |-> "pending", attempts |-> 0,
   pinned |-> None, dialled |-> None, answered |-> None, received |-> FALSE]

\* The statement is registered before the webhook's URL is looked at: a URL the
\* checks refuse is a 422 and one they raise on a 500, and the caller of either
\* does not get the entry the log holds the statement of.
Register(req) ==
  LET statement == RecomputeStatement(req.bundle, ModuleOf(req), req.requester,
                                      Cardinality(issued))
      entry == SignCountersignature(req.bundle, statement, Key, proc.public_host, req.key_id)
  IN /\ Mounted /\ Cardinality(issued) < MaxStatements
     /\ Admit(req) = 200
     /\ log' = log \cup {statement}
     /\ issued' = issued \cup {[request |-> req, entry |-> entry]}
     /\ \/ req.webhook = None /\ answer' = 200 /\ UNCHANGED deliveries
        \/ req.webhook # None /\ req.webhook.scheme = "unparsable" /\ answer' = 500
             /\ UNCHANGED deliveries
        \/ req.webhook # None /\ req.webhook.scheme # "unparsable" /\ ~ Vetted(req.webhook)
             /\ answer' = 422 /\ UNCHANGED deliveries
        \/ req.webhook # None /\ Vetted(req.webhook)
             /\ answer' = 200 /\ deliveries' = Append(deliveries, Deliver(entry, req.webhook))
     /\ UNCHANGED <<proc, dns, starts, flips>>
-----------------------------------------------------------------------------
(* deliver_webhook. *)

MaxAttempts == 4   \* one, and one after each of the three waits

\* Mutant: an attempt whose host is refused is not counted.
Attempted_DialsOnly(d) ==
  IF d.answered = None THEN d.attempts ELSE d.attempts + 1

Attempted(d) == d.attempts + 1

\* Mutant: any answer of the receiver is a success.
Succeeded_AnyAnswer(d) == d.answered # None

Succeeded(d) == d.answered = "2xx"

\* The end of an attempt, of the loop, and of the task.
EndAttempt(d) ==
  LET n == Attempted(d)
  IN [d EXCEPT !.attempts = n, !.pinned = None,
        !.status = IF Succeeded(d) THEN "success"
                   ELSE IF n = MaxAttempts THEN "failed" ELSE "pending"]

\* An attempt resolves and checks the host anew; a refusal ends it.
Pin(d) ==
  LET url == deliveries[d].url IN
  /\ proc # None /\ Pending(d) /\ deliveries[d].pinned = None
  /\ deliveries' = [deliveries EXCEPT ![d] =
       IF Vetted(url) THEN [@ EXCEPT !.pinned = Head(dns[url.host]),
                                     !.dialled = None, !.answered = None]
       ELSE EndAttempt([@ EXCEPT !.dialled = None, !.answered = None])]
  /\ answer' = 0
  /\ UNCHANGED <<proc, log, issued, dns, starts, flips>>

\* Mutant: the connection looks the host up again.
Dialled_Resolved(d) ==
  IF dns[d.url.host] = <<>> THEN None ELSE Head(dns[d.url.host])

Dialled(d) == d.pinned

\* It dials the pinned address.  The receiver is out of reach, or gets the entry
\* and answers; the answer may be lost or no success, a redirect included.
Dial(d, reached, status) ==
  /\ proc # None /\ Pending(d) /\ deliveries[d].pinned # None
  /\ status # None => reached
  /\ deliveries' = [deliveries EXCEPT ![d] =
       EndAttempt([@ EXCEPT !.dialled = Dialled(deliveries[d]), !.answered = status,
                            !.received = deliveries[d].received \/ reached])]
  /\ answer' = 0
  /\ UNCHANGED <<proc, log, issued, dns, starts, flips>>

DialAny(d) == \E reached \in BOOLEAN, status \in {None, "2xx", "other"} : Dial(d, reached, status)

Next ==
  \/ \E env \in Deployments : Start(env)
  \/ Crash
  \/ \E host \in Hosts : Flip(host)
  \/ \E req \in Requests : Refuse(req) \/ Register(req)
  \/ \E d \in 1 .. Len(deliveries) : Pin(d) \/ DialAny(d)

Tasks == 1 .. MaxStatements

\* A task that has begun goes on: its waits are short, and a connection that
\* does not answer times out.
DeliveryFairness ==
  \A d \in Tasks : WF_vars(Pin(d) \/ DialAny(d))

Spec == Init /\ [][Next]_vars

FairSpec == Spec /\ DeliveryFairness
-----------------------------------------------------------------------------
(* Properties. *)

\* A delivery tells the truth: no task makes a fifth attempt, one that gave up
\* made four, and a task ends as a success exactly when the receiver, who may
\* have got the entry before, said 2xx to the last (webhooks.py:301-320).
TypeOK ==
  /\ proc \in Deployments \cup {None}
  /\ answer \in {0, 200, 400, 413, 422, 429, 500}
  /\ \A k \in 1 .. Len(deliveries) :
       LET d == deliveries[k] IN
       /\ d.attempts <= MaxAttempts
       /\ d.status \in {"pending", "success", "failed", "lost"}
       /\ d.status = "success" <=> d.answered = "2xx"
       /\ d.status = "success" => d.received
       /\ d.status = "failed" => d.attempts = MaxAttempts
       /\ d.pinned # None => d.status = "pending"
       /\ d.entry.statement \in log

\* Entries a holder of the bundles and of every entry made may put together,
\* with names and results of its choice.
Composed ==
  LET made == {i.entry : i \in issued}
      signers == {e.signer : e \in made} \cup {[id |-> "another", key_id |-> Key]}
      statements == {e.statement : e \in made}
        \cup {[e.statement EXCEPT !.checks = {<<"range membership", "established">>}] : e \in made}
  IN [type : {None, "countersign/v1"}, signer : signers, over : {e.over : e \in made},
      statement : statements, signature : {e.signature : e \in made}]

\* The holder's own key, the one every deployment pins for the ledger.
Holder(ledger) ==
  CHOOSE k \in Keys : \E env \in Deployments :
    ledger \in DOMAIN Issuers(env.issuers) /\ Issuers(env.issuers)[ledger] = k

\* Whatever a verifier resolves to this instance's countersignature, it made: of
\* that bundle, with that signer's name and these results, for a ledger whose
\* holder signed the bundle; and it resolves every entry made, and reads
\* independence as the entry says, if it knows the requester's key
\* (signer.py:60-76, verify.py:72-118).
CountersignaturesTrue ==
  /\ \A e \in Composed : VerifyEntry(e.over, e, {}, {Key}) = "countersigned" =>
       \E i \in issued :
         /\ i.request.bundle = e.over
         /\ i.entry.signer = e.signer /\ i.entry.statement = e.statement
         /\ i.request.signature =
              Sign(Holder(e.statement.scope.ledger_id), Digest(i.request.bundle))
  /\ \A i \in issued :
       ResolveEntryState(i.request.bundle, {i.entry}, {i.request.key_id}, {Key}) =
         IF i.entry.independent THEN "countersigned" ELSE "self-countersigned"

\* No connection of a delivery goes to an address that is not public, or to a
\* host that is not allowed, whatever the DNS said at registration, or says by
\* now, and however often the process was deployed anew (webhooks.py:117-147,
\* 221-269).
PublicDials ==
  [][\A k \in 1 .. Len(deliveries) :
       deliveries'[k].attempts > deliveries[k].attempts /\ deliveries'[k].dialled # None =>
         deliveries'[k].dialled \notin Blocked /\ AllowedHost(deliveries[k].url.host)]_vars

\* Every delivery ends, or is lost with its process, whatever the receiver and
\* the DNS do (webhooks.py:301-311).
DeliveriesEnd ==
  \A d \in Tasks : Pending(d) ~> ~ Pending(d)
=============================================================================
