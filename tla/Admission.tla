----------------------------- MODULE Admission -----------------------------
(***************************************************************************)
(* What stands before the witness (anchoring/router.py): the sliding       *)
(* window of all POSTs, the checks of POST /checkpoints in their order,    *)
(* the window of each enrolled submitter, and the two outcomes of the      *)
(* continuity gate.  POST /register shares the first window.               *)
(*                                                                         *)
(* checkpoints is a coroutine that waits only for its body; the other      *)
(* POSTs run in threads.  Time is a counter.  The requests of the threads  *)
(* meet in the limiters, which read the clock before they take their lock: *)
(* "at" is what a request read, up to MaxLag before now.                   *)
(*                                                                         *)
(* One process serves; Deploy replaces it by one with another submitters   *)
(* file, over the same database.  Witnessing is Checkpoint's, cut down to  *)
(* one step under the default policy "warn".                               *)
(***************************************************************************)
EXTENDS CheckpointWire, FiniteSets

CONSTANTS
  Submissions,   \* what clients POST to /checkpoints
  Registrable,   \* those whose digests clients also POST to /register
  Configs,       \* submitters files a deployment may carry
  MaxCalls,      \* the limiter of all POSTs: calls per window
  Window,        \* and the length of a window
  MaxLag,        \* bound: how long a call waits between the clock and the lock
  MaxTime,       \* bound: the clock
  MaxDeploys     \* bound: deployments after the first

Callers == {"global"} \cup Logs

ASSUME AdmissionConstants ==
  /\ MaxCalls \in Nat \ {0} /\ Window \in Nat /\ MaxLag \in 0 .. Window
  /\ MaxTime \in Nat /\ MaxDeploys \in Nat
  /\ "global" \notin Logs
  /\ \E items \in Configs : ValidConfig(items)

VARIABLES
  now,         \* the time
  allowlist,   \* _SUBMITTERS
  windows,     \* _POST_LIMITER and _SUBMITTER_LIMITERS: per caller, its deque
  registered,  \* the digests the log holds
  tip,         \* per log_id, the last accepted checkpoint and who signed it, or None
  refused,     \* whose window refused the last request with a 429, or None
  deploys,     \* history: deployments
  allowed      \* history: per caller, when its limiter allowed a call of late

vars == <<now, allowlist, windows, registered, tip, refused, deploys, allowed>>

NoCalls == [c \in Callers |-> <<>>]

Init ==
  /\ now = 0
  /\ \E items \in Configs : ValidConfig(items) /\ allowlist = Allowlist(items)
  /\ windows = NoCalls
  /\ registered = {}
  /\ tip = [l \in Logs |-> None]
  /\ refused = None
  /\ deploys = 0
  /\ allowed = NoCalls

Limit(c) == IF c = "global" THEN MaxCalls ELSE allowlist[c].rate_limit
-----------------------------------------------------------------------------
(* _SlidingWindowLimiter.is_allowed. *)

\* What the clock may have shown to a call that holds the lock now.
Clock == {t \in 0 .. now : t + MaxLag >= now}

\* Mutant: a call as old as the window no longer counts.
Counts_Open(t, at) == t > at - Window

Counts(t, at) == t >= at - Window

Suffix(s, n) == SubSeq(s, Len(s) - n + 1, Len(s))

\* The deque after the popleft loop, which stops at the first that counts.
Trimmed(c, at) ==
  Suffix(windows[c], Cardinality({k \in 1 .. Len(windows[c]) :
                                  \E j \in 1 .. k : Counts(windows[c][j], at)}))

\* Mutant: one call more than the limit fits.
IsAllowed_AtLimit(c, at) == Len(Trimmed(c, at)) <= Limit(c)

IsAllowed(c, at) == Len(Trimmed(c, at)) < Limit(c)

\* The windows after a call of each of the limiters asked, in any outcome: a
\* rejected call is not added.
Charge(callers, at) ==
  /\ windows' = [c \in Callers |->
       IF c \notin callers THEN windows[c]
       ELSE IF IsAllowed(c, at) THEN Append(Trimmed(c, at), at) ELSE Trimmed(c, at)]
  /\ allowed' = [c \in Callers |->
       IF c \in callers /\ IsAllowed(c, at) THEN Append(allowed[c], now) ELSE allowed[c]]
  /\ refused' = IF \E c \in callers : ~ IsAllowed(c, at)
                THEN CHOOSE c \in callers : ~ IsAllowed(c, at) ELSE None
-----------------------------------------------------------------------------
(* POST /checkpoints. *)

\* The request's content type chooses the parser.
Parse(e) ==
  IF e.header = "json" THEN ParseJson(allowlist, e) ELSE ParseCose(allowlist, e)

\* witness_checkpoint under "warn": a digest on the log is answered again; a
\* new one is refused when its proof does not extend the tip.
Refused(cp) ==
  /\ Digest(cp) \notin registered
  /\ cp.proof /\ tip[cp.log_id] # None
  /\ <<cp.prev_size, cp.prev_root>> # <<tip[cp.log_id].size, tip[cp.log_id].root>>

MovesTip(cp) ==
  /\ Digest(cp) \notin registered
  /\ tip[cp.log_id] = None \/ cp.proof

\* A refusal is a 409.
Witness(e, cp) ==
  IF Refused(cp)
  THEN UNCHANGED <<registered, tip>>
  ELSE /\ registered' = registered \cup {Digest(cp)}
       /\ tip' = IF MovesTip(cp)
                 THEN [tip EXCEPT ![cp.log_id] =
                         [size |-> cp.size, root |-> cp.root, signer |-> e.signer]]
                 ELSE tip

\* An empty body is a 400, an overlong one a 413; no window is asked.
Turned(e) == e.body # "bytes"

TurnAway(e) ==
  /\ Turned(e)
  /\ refused' = None
  /\ UNCHANGED <<now, allowlist, windows, registered, tip, deploys, allowed>>

\* A call over the common budget.
Overrun(e, at) ==
  /\ ~ Turned(e) /\ ~ IsAllowed("global", at)
  /\ Charge({"global"}, at)
  /\ UNCHANGED <<now, allowlist, registered, tip, deploys>>

\* A checkpoint that does not parse (400), or is signed by another key (401),
\* has cost a call of the common budget.
Reject(e, at) ==
  /\ ~ Turned(e) /\ IsAllowed("global", at)
  /\ Parse(e).status # 200
  /\ Charge({"global"}, at)
  /\ UNCHANGED <<now, allowlist, registered, tip, deploys>>

\* An enrolled submitter's own window comes after its signature.
OverrunOwn(e, at) ==
  /\ ~ Turned(e) /\ IsAllowed("global", at)
  /\ Parse(e).status = 200 /\ Parse(e).grade # None
  /\ ~ IsAllowed(e.log_id, at)
  /\ Charge({"global", e.log_id}, at)
  /\ UNCHANGED <<now, allowlist, registered, tip, deploys>>

Checkpoints(e, at) ==
  LET cp == Parse(e) IN
  /\ ~ Turned(e) /\ IsAllowed("global", at)
  /\ cp.status = 200
  /\ cp.grade # None => IsAllowed(e.log_id, at)
  /\ Charge({"global"} \cup IF cp.grade = None THEN {} ELSE {cp.log_id}, at)
  /\ Witness(e, cp)
  /\ UNCHANGED <<now, allowlist, deploys>>

\* POST /register, /v1/digest: anyone may put the digest of a submission on the
\* log, whether /checkpoints would take it or not.
RegisterDigest(e, at) ==
  /\ Parse(e).status = 200
  /\ Charge({"global"}, at)
  /\ registered' = IF IsAllowed("global", at)
                   THEN registered \cup {Digest(Parse(e))} ELSE registered
  /\ UNCHANGED <<now, allowlist, tip, deploys>>
-----------------------------------------------------------------------------
Recent(t) == t + Window + MaxLag > now

\* allowed is in the order of the time: its recent calls are its last.
Tick ==
  /\ now < MaxTime
  /\ now' = now + 1
  /\ allowed' = [c \in Callers |->
       Suffix(allowed[c], Cardinality({k \in 1 .. Len(allowed[c]) : Recent(allowed[c][k])}))]
  /\ refused' = None
  /\ UNCHANGED <<allowlist, windows, registered, tip, deploys>>

\* configure_submitters in a new process: a file that is not valid ends its
\* start, and the old process goes on; the limiters begin anew.
Deploy(items) ==
  /\ deploys < MaxDeploys
  /\ ValidConfig(items)
  /\ deploys' = deploys + 1
  /\ allowlist' = Allowlist(items)
  /\ windows' = NoCalls
  /\ allowed' = NoCalls
  /\ refused' = None
  /\ UNCHANGED <<now, registered, tip>>

Next ==
  \/ Tick
  \/ \E items \in Configs : Deploy(items)
  \/ \E e \in Submissions : TurnAway(e)
  \/ \E e \in Submissions, at \in Clock :
       \/ Overrun(e, at)
       \/ Reject(e, at)
       \/ OverrunOwn(e, at)
       \/ Checkpoints(e, at)
  \/ \E e \in Registrable, at \in Clock : RegisterDigest(e, at)

Spec == Init /\ [][Next]_vars
-----------------------------------------------------------------------------
(* Properties. *)

\* A deque never holds more calls than its limit, and none of the future; there
\* is one per enrolled submitter and one for all (router.py:144-156, 239).
TypeOK ==
  /\ now \in 0 .. MaxTime /\ deploys \in 0 .. MaxDeploys
  /\ DOMAIN allowlist \subseteq Logs
  /\ \A c \in Callers :
       /\ windows[c] # <<>> =>
            c \in {"global"} \cup DOMAIN allowlist /\ Len(windows[c]) <= Limit(c)
       /\ \A k \in 1 .. Len(windows[c]) : windows[c][k] \in 0 .. now
  /\ \A l \in Logs : tip[l] # None => tip[l].size > 0 /\ tip[l].signer \in Keys
  /\ refused \in Callers \cup {None}

\* Calls allowed in the last "span" units of time, both ends included.
Calls(c, span) == Cardinality({k \in DOMAIN allowed[c] : allowed[c][k] + span >= now})

\* A limiter is exact up to the wait between its clock and its lock: no stretch
\* of time shorter than a window by that wait holds more allowed calls than the
\* limit, and a call is refused only at the end of a stretch, longer than a
\* window by that wait, that holds as many.  The times in a deque may be out of
\* order then, and old calls behind a newer one go on counting
\* (router.py:147-156).
BudgetKept ==
  /\ \A c \in Callers : allowed[c] # <<>> => Calls(c, Window - MaxLag) <= Limit(c)
  /\ refused # None => Calls(refused, Window + MaxLag) >= Limit(refused)

\* While a log is enrolled, its tip is moved by nobody but the holder of its
\* pinned key, whichever form the checkpoint has, whatever key it brings along
\* and whoever moved it before the enrolment (checkpoint_cose.py:255,
\* checkpoint_json.py:189).
EnrolledIdentity ==
  [][\A l \in DOMAIN allowlist :
       tip'[l] # tip[l] => tip'[l].signer = allowlist[l].pubkey]_vars
=============================================================================
