------------------------- MODULE CountersignProofs -------------------------
(***************************************************************************)
(* Theorems about CountersignService, for every set of deployments, of     *)
(* requests, of hosts and of answers of the DNS, and for any number of     *)
(* statements, starts and changes.                                         *)
(*                                                                         *)
(* The invariant of the deliveries says what a task's place in its loop    *)
(* has to do with the process that runs it: the address a task has pinned  *)
(* was checked under the environment its process still has, as a task does *)
(* not outlive its process.  That of the entries says what accept_bundle   *)
(* saw when an entry was made.                                             *)
(***************************************************************************)
EXTENDS CountersignService, SequenceTheorems, TLAPS

Fields ==
  {"entry", "url", "status", "attempts", "pinned", "dialled", "answered", "received"}

\* What a task may know; the first line is its shape.
Delivered(d) ==
  /\ DOMAIN d = Fields
  /\ d.attempts \in 0 .. MaxAttempts
  /\ d.status \in {"pending", "success", "failed", "lost"}
  /\ d.status = "success" <=> d.answered = "2xx"
  /\ d.status = "success" => d.received
  /\ d.status = "failed" => d.attempts = MaxAttempts
  /\ d.status = "pending" => d.attempts < MaxAttempts
  /\ d.pinned # None => d.status = "pending"
  /\ d.url.host \in Hosts

\* A pinned address is public, on a host the process allows.
Pinned(d) ==
  d.pinned # None =>
    proc # None /\ d.pinned \notin Blocked /\ AllowedHost(d.url.host)

Typed ==
  /\ proc \in Deployments \cup {None}
  /\ Mounted => ValidIssuers(proc.issuers)
  /\ answer \in {0, 200, 400, 413, 422, 429, 500}
  /\ dns \in [Hosts -> Answers]
  /\ \E S : deliveries \in Seq(S)

Tasked ==
  \A k \in 1 .. Len(deliveries) :
    Delivered(deliveries[k]) /\ Pinned(deliveries[k]) /\ deliveries[k].entry.statement \in log

\* What the route saw of a request it made an entry for, and the entry.
Made(i) ==
  /\ \E env \in Deployments :
       /\ i.request.requester \in DOMAIN Issuers(env.issuers)
       /\ Issuers(env.issuers)[i.request.requester] \in Keys
       /\ i.request.signature =
            Sign(Issuers(env.issuers)[i.request.requester], Digest(i.request.bundle))
  /\ i.entry.over = Digest(i.request.bundle)
  /\ i.entry.type = "countersign/v1"
  /\ i.entry.signer.key_id = Key
  /\ i.entry.statement.scope.ledger_id = i.request.requester
  /\ i.entry.signature =
       Sign(Key, SigningInput(i.entry.over, i.entry.signer, i.entry.statement, i.entry.type))
  /\ i.entry.independent <=> Key # i.request.key_id

Countersigned == \A i \in issued : Made(i)

IInv == Typed /\ Tasked /\ Countersigned
-----------------------------------------------------------------------------
(* The steps of a task. *)

\* An attempt that ends: the fifth is never made.
LEMMA EndAttemptDelivered ==
  ASSUME NEW d, DOMAIN d = Fields, d.attempts \in 0 .. MaxAttempts, d.attempts < MaxAttempts,
         d.url.host \in Hosts, d.answered = "2xx" => d.received
  PROVE  /\ Delivered(EndAttempt(d))
         /\ EndAttempt(d).attempts = d.attempts + 1 /\ EndAttempt(d).pinned = None
         /\ EndAttempt(d).dialled = d.dialled /\ EndAttempt(d).entry = d.entry
<1> DEFINE n == d.attempts + 1
           st == IF d.answered = "2xx" THEN "success"
                 ELSE IF n = MaxAttempts THEN "failed" ELSE "pending"
           e == EndAttempt(d)
<1>1. e = [d EXCEPT !.attempts = n, !.pinned = None, !.status = st]
  BY DEF EndAttempt, Attempted, Succeeded
<1>2. n \in 1 .. MaxAttempts /\ (n # MaxAttempts => n < MaxAttempts)
  BY DEF MaxAttempts
<1>3. st \in {"pending", "success", "failed"} /\ (st = "success" <=> d.answered = "2xx")
      /\ (st = "failed" => n = MaxAttempts) /\ (st = "pending" => n # MaxAttempts)
  OBVIOUS
<1> HIDE DEF n, st, e
<1>4. /\ DOMAIN e = Fields /\ e.attempts = n /\ e.pinned = None /\ e.status = st
      /\ e.dialled = d.dialled /\ e.entry = d.entry /\ e.answered = d.answered
      /\ e.received = d.received /\ e.url = d.url
  BY <1>1 DEF Fields
<1>5. Delivered(e)
  BY <1>2, <1>3, <1>4 DEF Delivered, MaxAttempts
<1> QED BY <1>4, <1>5 DEF e, n

\* Every address of a host that is vetted is public, the first included.
LEMMA VettedHead ==
  ASSUME dns \in [Hosts -> Answers], NEW url, url.host \in Hosts, Vetted(url)
  PROVE  Head(dns[url.host]) \notin Blocked /\ AllowedHost(url.host)
<1> DEFINE s == dns[url.host]
<1>1. s \in Seq(Addresses) /\ s # <<>> /\ \A k \in 1 .. Len(s) : s[k] \notin Blocked
  BY CountersignConstants DEF Vetted, ResolveAndCheck
<1> HIDE DEF s
<1>2. Len(s) \in Nat /\ Len(s) >= 1 /\ Head(s) = s[1]
  BY <1>1, LenProperties
<1>3. 1 \in 1 .. Len(s)
  BY <1>2
<1>4. Head(s) \notin Blocked
  BY <1>1, <1>2, <1>3
<1> QED BY <1>4 DEF s, Vetted

\* A step of one task.
LEMMA TaskInv ==
  ASSUME IInv, NEW k \in 1 .. Len(deliveries), NEW d,
         deliveries' = [deliveries EXCEPT ![k] = d],
         Delivered(d), Pinned(d), d.entry = deliveries[k].entry,
         UNCHANGED <<proc, log, issued, dns>>, answer' = 0
  PROVE  IInv'
<1>1. /\ DOMAIN deliveries = 1 .. Len(deliveries) /\ Len(deliveries) \in Nat
      /\ dns \in [Hosts -> Answers] /\ proc \in Deployments \cup {None}
      /\ Mounted => ValidIssuers(proc.issuers)
  BY LenProperties DEF IInv, Typed
<1>2. (\E S : deliveries' \in Seq(S)) /\ Len(deliveries') = Len(deliveries)
  <2>1. PICK S : deliveries \in Seq(S)
    BY DEF IInv, Typed
  <2>2. deliveries \in Seq(S \cup {d})
    BY <2>1, SeqMonotonic
  <2>3. deliveries' \in Seq(S \cup {d}) /\ Len(deliveries') = Len(deliveries)
    BY <2>2, ExceptSeq
  <2> QED BY <2>3
<1>3. Typed'
  BY <1>1, <1>2 DEF Typed, Mounted, StrictCountersignActive
<1>4. \A j \in 1 .. Len(deliveries) : deliveries'[j] = IF j = k THEN d ELSE deliveries[j]
  BY <1>1
<1>5. \A e : Pinned(e)' <=> Pinned(e)
  BY DEF Pinned, AllowedHost
<1>6. Tasked'
  BY <1>2, <1>4, <1>5 DEF IInv, Tasked
<1>7. Countersigned'
  BY DEF IInv, Countersigned
<1> QED BY <1>3, <1>6, <1>7 DEF IInv

\* A task pins an address, or its attempt ends at the checks.
LEMMA PinMoves ==
  ASSUME IInv, NEW k \in 1 .. Len(deliveries), Pin(k)
  PROVE  \E d : /\ deliveries' = [deliveries EXCEPT ![k] = d]
                /\ Delivered(d) /\ Pinned(d) /\ d.entry = deliveries[k].entry
                /\ d.attempts = deliveries[k].attempts \/ d.dialled = None
<1> DEFINE old == deliveries[k]
           url == old.url
           begun == [old EXCEPT !.dialled = None, !.answered = None]
           pin == [old EXCEPT !.pinned = Head(dns[url.host]), !.dialled = None, !.answered = None]
           d == IF Vetted(url) THEN pin ELSE EndAttempt(begun)
<1>1. /\ Delivered(old) /\ Pinned(old) /\ dns \in [Hosts -> Answers]
      /\ DOMAIN deliveries = 1 .. Len(deliveries) /\ url.host \in Hosts
  BY LenProperties DEF IInv, Typed, Tasked, Delivered
<1>2. /\ proc # None /\ old.status = "pending" /\ None # "2xx"
      /\ deliveries' = [deliveries EXCEPT ![k] = d]
  BY CountersignConstants DEF Pin, Pending
<1>3. DOMAIN old = Fields /\ old.attempts \in 0 .. MaxAttempts /\ old.attempts < MaxAttempts
  BY <1>1, <1>2 DEF Delivered
<1>4. /\ DOMAIN begun = Fields /\ begun.attempts = old.attempts /\ begun.url = old.url
      /\ begun.dialled = None /\ begun.answered = None /\ begun.entry = old.entry
  BY <1>3 DEF Fields
<1>5. /\ DOMAIN pin = Fields /\ pin.attempts = old.attempts /\ pin.url = old.url
      /\ pin.status = old.status /\ pin.pinned = Head(dns[url.host])
      /\ pin.answered = None /\ pin.entry = old.entry
  BY <1>3 DEF Fields
<1>6. CASE Vetted(url)
  <2>1. d = pin /\ Head(dns[url.host]) \notin Blocked /\ AllowedHost(url.host)
    BY <1>1, <1>6, VettedHead
  <2> HIDE DEF d, begun, pin, old
  <2>2. Delivered(d) /\ Pinned(d)
    BY <1>1, <1>2, <1>3, <1>5, <2>1 DEF Delivered, Pinned
  <2> QED BY <1>2, <1>5, <2>1, <2>2 DEF old
<1>7. CASE ~ Vetted(url)
  <2>1. d = EndAttempt(begun)
    BY <1>7
  <2> HIDE DEF d, begun, pin, old
  <2>2. /\ Delivered(d) /\ d.pinned = None /\ d.dialled = None /\ d.entry = old.entry
    BY <1>1, <1>2, <1>3, <1>4, <2>1, EndAttemptDelivered
  <2>3. Pinned(d)
    BY <2>2 DEF Pinned
  <2> QED BY <1>2, <2>2, <2>3 DEF old
<1> QED BY <1>6, <1>7

\* A task dials the address it pinned, and its attempt ends.
LEMMA DialMoves ==
  ASSUME IInv, NEW k \in 1 .. Len(deliveries), NEW reached \in BOOLEAN, NEW status, Dial(k, reached, status)
  PROVE  \E d : /\ deliveries' = [deliveries EXCEPT ![k] = d]
                /\ Delivered(d) /\ Pinned(d) /\ d.entry = deliveries[k].entry
                /\ d.dialled \notin Blocked /\ AllowedHost(deliveries[k].url.host)
<1> DEFINE old == deliveries[k]
           done == [old EXCEPT !.dialled = old.pinned, !.answered = status,
                               !.received = old.received \/ reached]
           d == EndAttempt(done)
<1>1. /\ Delivered(old) /\ Pinned(old) /\ DOMAIN deliveries = 1 .. Len(deliveries)
  BY LenProperties DEF IInv, Typed, Tasked
<1>2. /\ old.status = "pending" /\ old.pinned # None /\ None # "2xx" /\ (status # None => reached)
      /\ deliveries' = [deliveries EXCEPT ![k] = d]
  <2>1. deliveries' = [deliveries EXCEPT ![k] = d]
    BY Zenon DEF Dial, Dialled
  <2> HIDE DEF d, done
  <2> QED BY <2>1, CountersignConstants DEF Dial, Pending
<1>3. DOMAIN old = Fields /\ old.attempts \in 0 .. MaxAttempts /\ old.attempts < MaxAttempts
      /\ old.url.host \in Hosts
  BY <1>1, <1>2 DEF Delivered
<1>4. /\ DOMAIN done = Fields /\ done.attempts = old.attempts /\ done.url = old.url
      /\ done.dialled = old.pinned /\ done.answered = status /\ done.entry = old.entry
      /\ done.received = (old.received \/ reached)
  BY <1>3 DEF Fields
<1>5. done.answered = "2xx" => done.received
  BY <1>2, <1>4
<1> HIDE DEF done, d, old
<1>6. /\ Delivered(EndAttempt(done)) /\ EndAttempt(done).pinned = None
      /\ EndAttempt(done).dialled = done.dialled /\ EndAttempt(done).entry = done.entry
  BY <1>3, <1>4, <1>5, EndAttemptDelivered
<1>7. Delivered(d) /\ d.pinned = None /\ d.dialled = old.pinned /\ d.entry = old.entry
  BY <1>4, <1>6 DEF d
<1>8. Pinned(d)
  BY <1>7 DEF Pinned
<1>9. old.pinned \notin Blocked /\ AllowedHost(old.url.host)
  BY <1>1, <1>2 DEF Pinned
<1> QED BY <1>2, <1>7, <1>8, <1>9 DEF old
-----------------------------------------------------------------------------
(* The steps of the process and of the route. *)

\* No process, no entry and no task at first.
LEMMA InitInv == Init => IInv
<1> SUFFICES ASSUME Init PROVE IInv
  OBVIOUS
<1>1. deliveries \in Seq({}) /\ Len(deliveries) = 0
  BY DEF Init
<1>2. Typed
  BY <1>1 DEF Init, Typed, Mounted, StrictCountersignActive
<1>3. Tasked /\ Countersigned
  BY <1>1 DEF Init, Tasked, Countersigned
<1> QED BY <1>2, <1>3 DEF IInv

\* While no process runs, no address is pinned.
LEMMA StartInv == ASSUME IInv, NEW env \in Deployments, Start(env) PROVE IInv'
<1>1. /\ proc = None /\ proc' = env /\ answer' = 0
      /\ StrictCountersignActive(env) => ValidIssuers(env.issuers)
      /\ UNCHANGED <<log, issued, dns, deliveries>>
  BY DEF Start
<1>2. Typed' /\ Countersigned'
  BY <1>1 DEF IInv, Typed, Countersigned, Mounted, StrictCountersignActive
<1>3. \A k \in 1 .. Len(deliveries) : deliveries[k].pinned = None
  BY <1>1 DEF IInv, Tasked, Pinned
<1>4. Tasked'
  BY <1>1, <1>3 DEF IInv, Tasked, Pinned
<1> QED BY <1>2, <1>4 DEF IInv

\* The tasks of a process end with it.
LEMMA CrashInv == ASSUME IInv, Crash PROVE IInv'
<1> DEFINE n == Len(deliveries)
           lost(k) == IF Pending(k) THEN [deliveries[k] EXCEPT !.status = "lost", !.pinned = None]
                      ELSE deliveries[k]
<1>1. /\ proc' = None /\ answer' = 0 /\ UNCHANGED <<log, issued, dns>>
      /\ deliveries' = [k \in 1 .. n |-> lost(k)]
  BY DEF Crash
<1>2. n \in Nat
  BY LenProperties DEF IInv, Typed
<1>3. \A k \in 1 .. n :
        Delivered(lost(k)) /\ lost(k).pinned = None /\ lost(k).entry = deliveries[k].entry
  <2> SUFFICES ASSUME NEW k \in 1 .. n
               PROVE  Delivered(lost(k)) /\ lost(k).pinned = None
                      /\ lost(k).entry = deliveries[k].entry
    OBVIOUS
  <2> DEFINE old == deliveries[k]
             gone == [old EXCEPT !.status = "lost", !.pinned = None]
  <2>1. Delivered(old)
    BY DEF IInv, Tasked
  <2>2. CASE Pending(k)
    <3>1. lost(k) = gone /\ old.status = "pending" /\ DOMAIN old = Fields
      BY <2>1, <2>2 DEF Pending, Delivered
    <3>2. /\ DOMAIN gone = Fields /\ gone.status = "lost" /\ gone.pinned = None
          /\ gone.attempts = old.attempts /\ gone.answered = old.answered
          /\ gone.entry = old.entry /\ gone.url = old.url
      BY <3>1 DEF Fields
    <3> HIDE DEF gone, old, lost
    <3>3. Delivered(gone)
      BY <2>1, <3>1, <3>2 DEF Delivered
    <3> QED BY <3>1, <3>2, <3>3 DEF old
  <2>3. CASE ~ Pending(k)
    <3>1. lost(k) = old /\ old.status # "pending"
      BY <2>3 DEF Pending
    <3> QED BY <2>1, <3>1 DEF Delivered
  <2> QED BY <2>2, <2>3
<1> HIDE DEF lost
<1>4. (\E S : deliveries' \in Seq(S)) /\ Len(deliveries') = n
  <2> DEFINE S == {lost(k) : k \in 1 .. n}
  <2>1. deliveries' \in [1 .. n -> S]
    BY <1>1
  <2>2. deliveries' \in Seq(S)
    BY <1>2, <2>1, SeqDef
  <2>3. Len(deliveries') = n
    BY <1>2, <2>1, <2>2, LenProperties
  <2> QED BY <2>2, <2>3
<1>5. Typed'
  BY <1>1, <1>4 DEF IInv, Typed, Mounted, StrictCountersignActive
<1>6. Tasked'
  <2>1. \A k \in 1 .. n : deliveries'[k] = lost(k)
    BY <1>1
  <2>2. \A k \in 1 .. n : Delivered(deliveries'[k]) /\ deliveries'[k].pinned = None
                          /\ deliveries'[k].entry.statement \in log'
    BY <1>1, <1>3, <2>1 DEF IInv, Tasked
  <2> QED BY <1>4, <2>2 DEF Tasked, Pinned
<1>7. Countersigned'
  BY <1>1 DEF IInv, Countersigned
<1> QED BY <1>5, <1>6, <1>7 DEF IInv

\* The DNS may change: a pinned address is what it was.
LEMMA FlipInv == ASSUME IInv, NEW host \in Hosts, Flip(host) PROVE IInv'
<1>1. /\ dns' \in [Hosts -> Answers] /\ answer' = 0
      /\ UNCHANGED <<proc, log, issued, deliveries>>
  BY DEF Flip, IInv, Typed
<1>2. Typed' /\ Countersigned'
  BY <1>1 DEF IInv, Typed, Countersigned, Mounted, StrictCountersignActive
<1>3. Tasked'
  BY <1>1 DEF IInv, Tasked, Pinned, AllowedHost
<1> QED BY <1>2, <1>3 DEF IInv

\* A refusal changes nothing but the answer.
LEMMA RefuseInv == ASSUME IInv, NEW req \in Requests, Refuse(req) PROVE IInv'
<1>1. /\ answer' \in {400, 413, 422, 429} /\ UNCHANGED <<proc, log, issued, dns, deliveries>>
  BY DEF Refuse, Admit
<1>2. Typed' /\ Countersigned'
  BY <1>1 DEF IInv, Typed, Countersigned, Mounted, StrictCountersignActive
<1>3. Tasked'
  BY <1>1 DEF IInv, Tasked, Pinned, AllowedHost
<1> QED BY <1>2, <1>3 DEF IInv

\* What is admitted was signed by the holder of the ledger, under the issuers
\* file of the process.
LEMMA AdmittedSigned ==
  ASSUME NEW req, Admit(req) = 200
  PROVE  /\ req.requester \in DOMAIN Issuers(proc.issuers)
         /\ req.signature = Sign(Issuers(proc.issuers)[req.requester], Digest(req.bundle))
  BY DEF Admit, AcceptBundle

\* The pinned keys of a valid file are keys.
LEMMA IssuerKeys ==
  ASSUME NEW items, ValidIssuers(items), NEW l \in DOMAIN Issuers(items)
  PROVE  Issuers(items)[l] \in Keys
<1> DEFINE at == CHOOSE k \in 1 .. Len(items) : items[k].ledger_id = l
<1>1. \E k \in 1 .. Len(items) : items[k].ledger_id = l
  BY DEF Issuers
<1>2. at \in 1 .. Len(items)
  BY <1>1
<1>3. Issuers(items)[l] = items[at].pubkey
  BY DEF Issuers
<1> HIDE DEF at
<1> QED BY <1>2, <1>3 DEF ValidIssuers

\* A request that is countersigned makes an entry, and a task if its URL is vetted.
LEMMA RegisterInv == ASSUME IInv, NEW req \in Requests, Register(req) PROVE IInv'
<1> DEFINE statement == RecomputeStatement(req.bundle, ModuleOf(req), req.requester,
                                           Cardinality(issued))
           entry == SignCountersignature(req.bundle, statement, Key, proc.public_host, req.key_id)
           i == [request |-> req, entry |-> entry]
           d == Deliver(entry, req.webhook)
<1>1. /\ Mounted /\ Admit(req) = 200
      /\ log' = log \cup {statement} /\ issued' = issued \cup {i}
      /\ UNCHANGED <<proc, dns>> /\ answer' \in {200, 422, 500}
      /\ deliveries' = deliveries
         \/ (req.webhook # None /\ deliveries' = Append(deliveries, d))
  <2>1. Mounted /\ Admit(req) = 200 /\ log' = log \cup {statement} /\ UNCHANGED <<proc, dns>>
    BY Zenon DEF Register
  <2>2. issued' = issued \cup {i}
    BY Zenon DEF Register
  <2>3. answer' = 200 \/ answer' = 422 \/ answer' = 500
    BY Zenon DEF Register
  <2>4. deliveries' = deliveries
        \/ (req.webhook # None /\ deliveries' = Append(deliveries, d))
    BY Zenon DEF Register
  <2> HIDE DEF statement, i, d
  <2> QED BY <2>1, <2>2, <2>3, <2>4
<1>2. /\ entry.over = Digest(req.bundle) /\ entry.type = "countersign/v1"
      /\ entry.signer.key_id = Key /\ entry.statement = statement
      /\ entry.signature =
           Sign(Key, SigningInput(entry.over, entry.signer, entry.statement, entry.type))
      /\ entry.independent <=> Key # req.key_id
  BY DEF SignCountersignature
<1>3. statement.scope.ledger_id = req.requester
  BY DEF RecomputeStatement
<1> HIDE DEF statement, entry
<1>4. Made(i)
  <2>1. i.request = req /\ i.entry = entry
    OBVIOUS
  <2>2. proc \in Deployments /\ ValidIssuers(proc.issuers)
    BY <1>1 DEF IInv, Typed, Mounted
  <2>3. /\ req.requester \in DOMAIN Issuers(proc.issuers)
        /\ Issuers(proc.issuers)[req.requester] \in Keys
        /\ req.signature = Sign(Issuers(proc.issuers)[req.requester], Digest(req.bundle))
    BY <1>1, <2>2, AdmittedSigned, IssuerKeys
  <2> HIDE DEF i
  <2> QED BY <1>2, <1>3, <2>1, <2>2, <2>3 DEF Made
<1> HIDE DEF i
<1>5. Countersigned'
  BY <1>1, <1>4 DEF IInv, Countersigned
<1>6. \A e : Pinned(e)' <=> Pinned(e)
  BY <1>1 DEF Pinned, AllowedHost
<1>7. CASE deliveries' = deliveries
  <2>1. Typed' /\ Tasked'
    BY <1>1, <1>6, <1>7 DEF IInv, Typed, Tasked
  <2> QED BY <1>5, <2>1 DEF IInv
<1>8. CASE req.webhook # None /\ deliveries' = Append(deliveries, d)
  <2>1. /\ DOMAIN d = Fields /\ d.attempts = 0 /\ d.status = "pending" /\ d.pinned = None
        /\ d.answered = None /\ d.url = req.webhook /\ d.entry = entry
    BY DEF Deliver, Fields
  <2> HIDE DEF d
  <2>2. Delivered(d) /\ Pinned(d) /\ d.entry.statement \in log'
    BY <1>1, <1>2, <1>8, <2>1, CountersignConstants DEF Delivered, Pinned, MaxAttempts
  <2>3. PICK S : deliveries \in Seq(S)
    BY DEF IInv, Typed
  <2>4. deliveries \in Seq(S \cup {d}) /\ Len(deliveries) \in Nat
    BY <2>3, SeqMonotonic, LenProperties
  <2>5. /\ deliveries' \in Seq(S \cup {d}) /\ Len(deliveries') = Len(deliveries) + 1
        /\ \A k \in 1 .. Len(deliveries) : deliveries'[k] = deliveries[k]
        /\ deliveries'[Len(deliveries) + 1] = d
    BY <1>8, <2>4, AppendProperties
  <2>6. Typed'
    BY <1>1, <2>5 DEF IInv, Typed
  <2>7. \A k \in 1 .. Len(deliveries) + 1 : k \in 1 .. Len(deliveries) \/ k = Len(deliveries) + 1
    BY <2>4
  <2>8. Tasked'
    BY <1>1, <1>6, <2>2, <2>5, <2>7 DEF IInv, Tasked
  <2> QED BY <1>5, <2>6, <2>8 DEF IInv
<1> QED BY <1>1, <1>7, <1>8
\* No step leaves the invariant.
LEMMA StepInv == IInv /\ [Next]_vars => IInv'
<1> SUFFICES ASSUME IInv, [Next]_vars PROVE IInv'
  OBVIOUS
<1>1. CASE UNCHANGED vars
  BY <1>1 DEF vars, IInv, Typed, Tasked, Pinned, AllowedHost, Countersigned, Mounted, StrictCountersignActive
<1>2. ASSUME NEW env \in Deployments, Start(env) PROVE IInv'
  BY <1>2, StartInv
<1>3. CASE Crash
  BY <1>3, CrashInv
<1>4. ASSUME NEW host \in Hosts, Flip(host) PROVE IInv'
  BY <1>4, FlipInv
<1>5. ASSUME NEW req \in Requests, Refuse(req) \/ Register(req) PROVE IInv'
  BY <1>5, RefuseInv, RegisterInv
<1>6. ASSUME NEW k \in 1 .. Len(deliveries), Pin(k) PROVE IInv'
  <2>1. UNCHANGED <<proc, log, issued, dns>> /\ answer' = 0
    BY <1>6 DEF Pin
  <2>2. PICK d : /\ deliveries' = [deliveries EXCEPT ![k] = d]
                 /\ Delivered(d) /\ Pinned(d) /\ d.entry = deliveries[k].entry
    BY <1>6, PinMoves
  <2> QED BY <2>1, <2>2, TaskInv
<1>7. ASSUME NEW k \in 1 .. Len(deliveries), DialAny(k) PROVE IInv'
  <2>1. PICK reached \in BOOLEAN, status \in {None, "2xx", "other"} : Dial(k, reached, status)
    BY <1>7 DEF DialAny
  <2>2. UNCHANGED <<proc, log, issued, dns>> /\ answer' = 0
    BY <2>1 DEF Dial
  <2>3. PICK d : /\ deliveries' = [deliveries EXCEPT ![k] = d]
                 /\ Delivered(d) /\ Pinned(d) /\ d.entry = deliveries[k].entry
    BY <2>1, DialMoves
  <2> QED BY <2>2, <2>3, TaskInv
<1> QED BY <1>1, <1>2, <1>3, <1>4, <1>5, <1>6, <1>7 DEF Next
-----------------------------------------------------------------------------
(* The theorems. *)

\* The inductive invariant holds in every reachable state.
THEOREM Invariance == Spec => []IInv
  BY InitInv, StepInv, PTL DEF Spec

\* A delivery tells the truth: at most four attempts, four before it gives up,
\* and a success exactly when the receiver said 2xx (webhooks.py:301-320).
THEOREM TypeCorrect == Spec => []TypeOK
<1>1. IInv => TypeOK
  <2> SUFFICES ASSUME IInv PROVE TypeOK
    OBVIOUS
  <2>1. \A k \in 1 .. Len(deliveries) :
          /\ Delivered(deliveries[k]) /\ deliveries[k].attempts <= MaxAttempts
          /\ deliveries[k].entry.statement \in log
    BY DEF IInv, Tasked, Delivered, MaxAttempts
  <2> QED BY <2>1 DEF IInv, Typed, TypeOK, Delivered
<1> QED BY <1>1, Invariance, PTL

\* No connection goes to an address that is not public, or to a host that is
\* not allowed, whatever the DNS says in between (webhooks.py:117-147, 221-269).
THEOREM DialsArePublic == Spec => PublicDials
<1> DEFINE Dials ==
      \A k \in 1 .. Len(deliveries) :
        deliveries'[k].attempts > deliveries[k].attempts /\ deliveries'[k].dialled # None =>
          deliveries'[k].dialled \notin Blocked /\ AllowedHost(deliveries[k].url.host)
      Quiet == \A k \in 1 .. Len(deliveries) : deliveries'[k].attempts = deliveries[k].attempts
<1>1. IInv /\ [Next]_vars => [Dials]_vars
  <2> SUFFICES ASSUME IInv, Next PROVE Dials
    OBVIOUS
  <2>1. /\ \A k \in 1 .. Len(deliveries) : deliveries[k].attempts \in Nat
        /\ DOMAIN deliveries = 1 .. Len(deliveries)
    BY LenProperties DEF IInv, Typed, Tasked, Delivered, MaxAttempts
  <2>2. Quiet => Dials
    BY <2>1
  <2>3. UNCHANGED deliveries => Quiet
    OBVIOUS
  <2>4. ASSUME NEW k \in 1 .. Len(deliveries), NEW d,
               deliveries' = [deliveries EXCEPT ![k] = d],
               \/ d.attempts = deliveries[k].attempts
               \/ d.dialled = None
               \/ d.dialled \notin Blocked /\ AllowedHost(deliveries[k].url.host)
        PROVE  Dials
    BY <2>1, <2>4
  <2> HIDE DEF Dials
  <2>5. ASSUME NEW k \in 1 .. Len(deliveries), Pin(k) PROVE Dials
    BY <2>4, <2>5, PinMoves
  <2>6. ASSUME NEW k \in 1 .. Len(deliveries), DialAny(k) PROVE Dials
    BY <2>4, <2>6, DialMoves DEF DialAny
  <2>7. ASSUME Crash PROVE Quiet
    <3>1. \A k \in 1 .. Len(deliveries) :
            deliveries'[k] = IF Pending(k)
                             THEN [deliveries[k] EXCEPT !.status = "lost", !.pinned = None]
                             ELSE deliveries[k]
      BY <2>7 DEF Crash
    <3>2. \A k \in 1 .. Len(deliveries) : DOMAIN deliveries[k] = Fields
      BY DEF IInv, Tasked, Delivered
    <3> QED BY <3>1, <3>2 DEF Fields
  <2>8. ASSUME NEW req \in Requests, Register(req) PROVE Quiet
    <3>1. PICK d : deliveries' = deliveries \/ deliveries' = Append(deliveries, d)
      BY <2>8 DEF Register
    <3>2. PICK S : deliveries \in Seq(S)
      BY DEF IInv, Typed
    <3>3. deliveries \in Seq(S \cup {d})
      BY <3>2, SeqMonotonic
    <3>4. deliveries' = Append(deliveries, d) =>
            \A k \in 1 .. Len(deliveries) : deliveries'[k] = deliveries[k]
      BY <3>3, AppendProperties
    <3> QED BY <3>1, <3>4
  <2> HIDE DEF Quiet
  <2> QED BY <2>2, <2>3, <2>5, <2>6, <2>7, <2>8 DEF Next, Start, Flip, Refuse
<1> QED BY <1>1, Invariance, PTL DEF Spec, PublicDials

\* Every deployment pins the same key for a ledger: its holder's.
OneHolder ==
  \A env, other \in Deployments : \A l \in DOMAIN Issuers(env.issuers) :
    l \in DOMAIN Issuers(other.issuers) => Issuers(other.issuers)[l] = Issuers(env.issuers)[l]

\* The pinned keys are keys.
LEMMA HolderPinned ==
  ASSUME OneHolder, NEW env \in Deployments, NEW l \in DOMAIN Issuers(env.issuers),
         Issuers(env.issuers)[l] \in Keys
  PROVE  Holder(l) = Issuers(env.issuers)[l]
<1> DEFINE Pins(k) == \E e \in Deployments :
                        l \in DOMAIN Issuers(e.issuers) /\ Issuers(e.issuers)[l] = k
<1>1. Pins(Issuers(env.issuers)[l])
  OBVIOUS
<1>2. Holder(l) = CHOOSE k \in Keys : Pins(k)
  BY DEF Holder
<1> HIDE DEF Pins
<1>3. Pins(Holder(l))
  BY <1>1, <1>2
<1> QED BY <1>3 DEF Pins, OneHolder
\* An entry that a verifier resolves under the operator's key was made: its
\* signature binds the bundle, the name of the signer and the statement.
LEMMA ResolvedMade ==
  ASSUME Countersigned, NEW e \in Composed,
         VerifyEntry(e.over, e, {}, {Key}) = "countersigned"
  PROVE  \E i \in issued :
           i.entry.over = e.over /\ i.entry.signer = e.signer /\ i.entry.statement = e.statement
<1>1. SignatureValid(e, Digest(e.over)) /\ e.signer.key_id = Key
  BY DEF VerifyEntry
<1>2. PICK i \in issued : e.signature = i.entry.signature
  BY DEF Composed
<1>3. i.entry.signature =
        Sign(Key, SigningInput(i.entry.over, i.entry.signer, i.entry.statement, i.entry.type))
  BY DEF Countersigned, Made
<1>4. e.signature = Sign(Key, SigningInput(e.over, e.signer, e.statement, TypeOf(e)))
  BY <1>1 DEF SignatureValid
<1>5. SigningInput(i.entry.over, i.entry.signer, i.entry.statement, i.entry.type)
        = SigningInput(e.over, e.signer, e.statement, TypeOf(e))
  BY <1>2, <1>3, <1>4 DEF Sign
<1> QED BY <1>5 DEF SigningInput

\* The reading of a single entry is its own.
LEMMA ResolveSingle ==
  ASSUME NEW bundle, NEW e, NEW producers, NEW directory, NEW r \in {3, 5},
         VerifyEntry(bundle, e, producers, directory) = EntryRank[r]
  PROVE  ResolveEntryState(bundle, {e}, producers, directory) = EntryRank[r]
<1> DEFINE ranks == {n \in 1 .. Len(EntryRank) : \E f \in {e} :
                       VerifyEntry(bundle, f, producers, directory) = EntryRank[n]}
<1>1. ranks = {r}
  <2>1. Len(EntryRank) = 5 /\ \A n \in 1 .. 5 : EntryRank[n] = EntryRank[r] <=> n = r
    <3>1. /\ Len(EntryRank) = 5 /\ EntryRank[1] = "invalid" /\ EntryRank[2] = "unverified"
          /\ EntryRank[3] = "self-countersigned" /\ EntryRank[4] = "unresolved signer"
          /\ EntryRank[5] = "countersigned"
      BY DEF EntryRank
    <3>2. \A n \in 1 .. 5 : n = 1 \/ n = 2 \/ n = 3 \/ n = 4 \/ n = 5
      OBVIOUS
    <3> QED BY <3>1, <3>2
  <2>2. \A n \in 1 .. 5 : n \in ranks <=> n = r
    BY <2>1
  <2>3. ranks \subseteq 1 .. 5 /\ r \in 1 .. 5
    BY <2>1
  <2> QED BY <2>2, <2>3
<1>2. Max(ranks) = r
  BY <1>1 DEF Max
<1>3. ResolveEntryState(bundle, {e}, producers, directory) = EntryRank[Max(ranks)]
  BY DEF ResolveEntryState
<1> QED BY <1>2, <1>3

\* Whatever a verifier resolves to this instance's countersignature, it made:
\* of that bundle, with these results, for a ledger whose holder signed the
\* bundle; and every entry made is read as it says (signer.py:60-76,
\* verify.py:72-118).
THEOREM CountersignaturesAreTrue ==
  ASSUME OneHolder PROVE Spec => []CountersignaturesTrue
<1>1. IInv => CountersignaturesTrue
  <2> SUFFICES ASSUME IInv PROVE CountersignaturesTrue
    OBVIOUS
  <2>1. \A i \in issued : Made(i)
    BY DEF IInv, Countersigned
  <2>2. ASSUME NEW e \in Composed, VerifyEntry(e.over, e, {}, {Key}) = "countersigned"
        PROVE  \E i \in issued :
                 /\ i.request.bundle = e.over
                 /\ i.entry.signer = e.signer /\ i.entry.statement = e.statement
                 /\ i.request.signature =
                      Sign(Holder(e.statement.scope.ledger_id), Digest(i.request.bundle))
    <3>1. PICK i \in issued :
            i.entry.over = e.over /\ i.entry.signer = e.signer /\ i.entry.statement = e.statement
      BY <2>2, ResolvedMade DEF IInv
    <3>2. Made(i)
      BY <2>1
    <3>3. PICK env \in Deployments :
            /\ i.request.requester \in DOMAIN Issuers(env.issuers)
            /\ Issuers(env.issuers)[i.request.requester] \in Keys
            /\ i.request.signature =
                 Sign(Issuers(env.issuers)[i.request.requester], Digest(i.request.bundle))
      BY <3>2 DEF Made
    <3>4. e.statement.scope.ledger_id = i.request.requester /\ i.request.bundle = e.over
      BY <3>1, <3>2 DEF Made, Digest
    <3>5. Holder(i.request.requester) = Issuers(env.issuers)[i.request.requester]
      BY <3>3, HolderPinned
    <3> QED BY <3>1, <3>3, <3>4, <3>5
  <2>3. ASSUME NEW i \in issued
        PROVE  ResolveEntryState(i.request.bundle, {i.entry}, {i.request.key_id}, {Key}) =
                 IF i.entry.independent THEN "countersigned" ELSE "self-countersigned"
    <3> DEFINE v == VerifyEntry(i.request.bundle, i.entry, {i.request.key_id}, {Key})
    <3>1. Made(i)
      BY <2>1
    <3>2. TypeOf(i.entry) = "countersign/v1"
      BY <3>1 DEF Made, TypeOf
    <3>3. SignatureValid(i.entry, Digest(i.request.bundle))
      BY <3>1, <3>2 DEF Made, SignatureValid
    <3>4. v = IF Key = i.request.key_id THEN "self-countersigned" ELSE "countersigned"
      BY <3>1, <3>2, <3>3 DEF VerifyEntry, Made
    <3>5. i.entry.independent <=> Key # i.request.key_id
      BY <3>1 DEF Made
    <3>6. CASE Key = i.request.key_id
      <4>1. v = EntryRank[3] /\ EntryRank[3] = "self-countersigned"
        BY <3>4, <3>6 DEF EntryRank
      <4> QED BY <3>5, <3>6, <4>1, ResolveSingle
    <3>7. CASE Key # i.request.key_id
      <4>1. v = EntryRank[5] /\ EntryRank[5] = "countersigned"
        BY <3>4, <3>7 DEF EntryRank
      <4> QED BY <3>5, <3>7, <4>1, ResolveSingle
    <3> QED BY <3>6, <3>7
  <2> QED BY <2>2, <2>3 DEF CountersignaturesTrue
<1> QED BY <1>1, Invariance, PTL
=============================================================================
