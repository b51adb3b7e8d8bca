------------------------------ MODULE Checkpoint ------------------------------
(***************************************************************************)
(* The checkpoint witness of AnchorerService (anchoring/service.py): the   *)
(* continuity gate of POST /checkpoints and of mmr-checkpoint statements,  *)
(* for one log_id, over the tables of PostgresLogStore (store.py).         *)
(*                                                                         *)
(* Threads serve requests.  A thread holds its instance's lock from the    *)
(* dedup lookup to the update of the chain tip, gives it up, and takes it  *)
(* again to record the checkpoint on the read surface.  POST /checkpoints  *)
(* is a coroutine that never yields, so an instance serves one of these at *)
(* a time; statements are served by a pool of threads beside it.           *)
(* Instances share the tables and no lock; every store call is a           *)
(* transaction of its own.                                                 *)
(* TransparencyLog models the calls inside the append; here the log is its *)
(* size and the two calls, read and insert, that decide who appends.       *)
(*                                                                         *)
(* Hashes are ideal: the MMR root of the submitter's log is represented by *)
(* the history of leaf hashes under it, its size by that history's length. *)
(***************************************************************************)
EXTENDS Integers, Sequences, FiniteSets

CONSTANTS
  Instances,    \* service instances
  Threads,      \* request threads
  InstanceOf,   \* [Threads -> Instances]
  Checkpoints,  \* signed checkpoints of one log_id, its forks included
  Policy,       \* CAPSULE_ANCHOR_REQUIRE_CONSISTENCY_PROOF: off, warn or enforce
  Retention,    \* TRUE iff CAPSULE_ANCHOR_ENTRY_RETENTION is set
  MaxLog,       \* bound: log entries ever appended
  MaxFaults,    \* bound: store errors and crashes
  None          \* Python's None

\* A checkpoint claims a root and the prior root it extends.  A native one is
\* a COSE checkpoint of a CLL log; a foreign one is in the JSON wire form or of
\* an enrolled foreign accumulator; a legacy one is an mmr-checkpoint statement,
\* which carries the size of its prior root only, and no proof.
IsCheckpoint(cp) ==
  /\ DOMAIN cp = {"form", "prev", "root", "proof"}
  /\ cp.form \in {"native", "foreign", "legacy"} /\ cp.proof \in BOOLEAN
  /\ cp.form = "legacy" => ~cp.proof
  /\ {cp.prev, cp.root} \subseteq Seq(STRING) /\ Len(cp.prev) < Len(cp.root)

FirstSeen  == "first-seen"
Registered == "registered"
Witnessed  == "continuity-witnessed"
Chained    == "witnessed"           \* the legacy path's status
Grades     == {FirstSeen, Registered, Witnessed, Chained}

ASSUME ConstantsOK ==
  /\ InstanceOf \in [Threads -> Instances]
  /\ \A cp \in Checkpoints : IsCheckpoint(cp)
  /\ Policy \in {"off", "warn", "enforce"}
  /\ Retention \in BOOLEAN
  /\ MaxLog \in Nat /\ MaxFaults \in Nat
  /\ IsFiniteSet(Threads)
  /\ None \notin Grades \cup Threads
  /\ \A cp \in Checkpoints : None \notin {cp, cp.root}

VARIABLES
  logSize,        \* rows of log_entries
  statements,     \* table submitted_statements: digests with a cached receipt
  tip,            \* table checkpoint_witnesses: the last accepted root, or None
  records,        \* table checkpoint_records: mmr_size -> first record
  equivocations,  \* table checkpoint_equivocations
  lock,           \* per instance, the thread that holds self._lock, or None
  thread,         \* per thread, its request
  cosigned,       \* history: checkpoints appended to the log and signed
  answered,       \* history: answers to submitters
  faults          \* history: faults so far

tables == <<logSize, statements, tip, records, equivocations>>
vars == <<tables, lock, thread, cosigned, answered, faults>>

-----------------------------------------------------------------------------

\* What the dedup lookup is keyed by: _checkpoint_digest covers the claims, but
\* neither the proof nor the wire form; a legacy statement has its entry hash.
Digest(cp) == IF cp.form = "legacy" THEN cp ELSE [prev |-> cp.prev, root |-> cp.root]

IsPrefix(s, r) == Len(s) <= Len(r) /\ SubSeq(r, 1, Len(s)) = s

VerifyConsistency_SizeOnly(prev, root) == Len(prev) < Len(root)

\* cll.checkpoint.core.verify_consistency: the proof bridges the two roots.
VerifyConsistency(prev, root) == IsPrefix(prev, root)

NoRequest == [pc |-> "idle", cp |-> None, grade |-> None, idx |-> 0]

Idle(t) == thread[t].pc = "idle"
Running(t, step) == thread[t].pc = step
Advance(t, step, r) == thread' = [thread EXCEPT ![t] = [r EXCEPT !.pc = step]]
Finish(t) == thread' = [thread EXCEPT ![t] = NoRequest]

\* The event loop of t's instance is not serving a POST /checkpoints.
LoopFree(t) ==
  \A u \in Threads :
    InstanceOf[u] = InstanceOf[t] /\ ~Idle(u) => thread[u].cp.form = "legacy"

\* The request may reach the service: a statement on any thread, a posted
\* checkpoint when the event loop is free.
Admitted(t, cp) == cp.form = "legacy" \/ LoopFree(t)

Free(t) == lock[InstanceOf[t]] = None
Acquire(t) == lock' = [lock EXCEPT ![InstanceOf[t]] = t]
Release(t) == lock' = [lock EXCEPT ![InstanceOf[t]] = None]

Appending == {"tip", "size", "insert"}
Room == logSize + Cardinality({t \in Threads : thread[t].pc \in Appending}) < MaxLog

Graded(cp, grade) == [cp |-> cp, grade |-> grade]

-----------------------------------------------------------------------------
(* register_signed_statement_full, called by witness_checkpoint or with a   *)
(* legacy statement.                                                        *)

\* The lock is taken and the dedup lookup misses.
SubmitNew(t, cp) ==
  /\ Idle(t) /\ Free(t) /\ Admitted(t, cp) /\ Room
  /\ Digest(cp) \notin statements
  /\ Acquire(t)
  /\ Advance(t, "tip", [NoRequest EXCEPT !.cp = cp])
  /\ UNCHANGED <<tables, cosigned, answered, faults>>

\* The dedup lookup hits.
SubmitCached(t, cp) ==
  /\ Idle(t) /\ Free(t) /\ Admitted(t, cp)
  /\ Digest(cp) \in statements
  /\ \/ /\ cp.form = "legacy"
        /\ answered' = answered \cup {Graded(cp, None)}
        /\ UNCHANGED <<lock, thread>>
     \/ /\ cp.form # "legacy"
        /\ Acquire(t)
        /\ Advance(t, "cached_grade", [NoRequest EXCEPT !.cp = cp])
        /\ UNCHANGED answered
  /\ UNCHANGED <<tables, cosigned, faults>>

\* The grade of a cached checkpoint is read back from its slot on the record.
ReadCachedGrade(t) ==
  LET r == thread[t]
      n == Len(r.cp.root) IN
  /\ Running(t, "cached_grade")
  /\ Advance(t, "record",
             [r EXCEPT !.grade = IF n \in DOMAIN records THEN records[n].grade ELSE None])
  /\ Release(t)
  /\ UNCHANGED <<tables, cosigned, answered, faults>>

\* _apply_consistency_proof_policy and its legacy twin: enforce refuses a
\* proof-less checkpoint of a known log_id, unless it is a foreign one.
ProofRequired(cp) == Policy = "enforce" /\ cp.form # "foreign"

MatchesTip_Unchecked(cp, last) == TRUE

\* Check (a): the claimed prior root is the last accepted one.
MatchesTip(cp, last) == cp.prev = last

\* _check_checkpoint_consistency and _check_checkpoint_continuity.
Grade(cp, last) ==
  CASE last = None -> FirstSeen
    [] last # None /\ cp.form = "legacy" ->
         IF ~ProofRequired(cp) /\ Len(cp.prev) = Len(last) /\ Len(cp.root) > Len(last)
         THEN Chained ELSE None
    [] last # None /\ cp.form # "legacy" /\ ~cp.proof ->
         IF ProofRequired(cp) THEN None ELSE Registered
    [] OTHER ->
         IF MatchesTip(cp, last) /\ VerifyConsistency(last, cp.root) THEN Witnessed ELSE None

\* get_checkpoint_witness, and the gate: None refuses with a 409.
CheckTip(t) ==
  LET r == thread[t]
      grade == Grade(r.cp, tip) IN
  /\ Running(t, "tip")
  /\ \/ /\ grade = None
        /\ Finish(t)
        /\ Release(t)
     \/ /\ grade # None
        /\ Advance(t, "size", [r EXCEPT !.grade = grade])
        /\ UNCHANGED lock
  /\ UNCHANGED <<tables, cosigned, answered, faults>>

\* _append_log reads the next index.
ReadSize(t) ==
  /\ Running(t, "size")
  /\ Advance(t, "insert", [thread[t] EXCEPT !.idx = logSize])
  /\ UNCHANGED <<tables, lock, cosigned, answered, faults>>

\* append_entry, and the receipt that is signed over the new row.
InsertEntry(t) ==
  LET r == thread[t] IN
  /\ Running(t, "insert")
  /\ r.idx = logSize
  /\ logSize' = logSize + 1
  /\ cosigned' = cosigned \cup {Graded(r.cp, r.grade)}
  /\ Advance(t, "put_statement", r)
  /\ UNCHANGED <<statements, tip, records, equivocations, lock, answered, faults>>

InsertConflict_LockKept(t) ==
  /\ Running(t, "insert")
  /\ thread[t].idx # logSize
  /\ Finish(t)
  /\ UNCHANGED <<tables, lock, cosigned, answered, faults>>

\* append_entry: the index is taken, and the request ends in an error.
InsertConflict(t) ==
  /\ Running(t, "insert")
  /\ thread[t].idx # logSize
  /\ Finish(t)
  /\ Release(t)
  /\ UNCHANGED <<tables, cosigned, answered, faults>>

MovesTip_Always(grade) == TRUE

\* The tip moves on a baseline or a verified extension, never on a bare
\* registration.
MovesTip(grade) == grade # Registered

\* put_statement; a registered checkpoint leaves the lock here.
PutStatement(t) ==
  LET r == thread[t] IN
  /\ Running(t, "put_statement")
  /\ statements' = statements \cup {Digest(r.cp)}
  /\ \/ /\ MovesTip(r.grade)
        /\ Advance(t, "put_tip", r)
        /\ UNCHANGED lock
     \/ /\ ~MovesTip(r.grade)
        /\ Advance(t, "record", r)
        /\ Release(t)
  /\ UNCHANGED <<logSize, tip, records, equivocations, cosigned, answered, faults>>

\* put_checkpoint_witness: an upsert.  A legacy statement is answered here.
PutTip(t) ==
  LET r == thread[t] IN
  /\ Running(t, "put_tip")
  /\ tip' = r.cp.root
  /\ Release(t)
  /\ \/ /\ r.cp.form = "legacy"
        /\ answered' = answered \cup {Graded(r.cp, r.grade)}
        /\ Finish(t)
     \/ /\ r.cp.form # "legacy"
        /\ Advance(t, "record", r)
        /\ UNCHANGED answered
  /\ UNCHANGED <<logSize, statements, records, equivocations, cosigned, faults>>

-----------------------------------------------------------------------------
(* The read surface: _record_checkpoint_read_surface, put_checkpoint_record.*)

Row(r) == [root |-> r.cp.root, digest |-> Digest(r.cp), grade |-> r.grade]

RecordRow_Upsert(n, row) ==
  /\ records' = [m \in DOMAIN records \cup {n} |-> IF m = n THEN row ELSE records[m]]
  /\ UNCHANGED equivocations

\* One transaction: the first root takes the slot, another one is flagged.
RecordRow(n, row) ==
  \/ /\ n \notin DOMAIN records
     /\ records' = [m \in DOMAIN records \cup {n} |-> IF m = n THEN row ELSE records[m]]
     /\ UNCHANGED equivocations
  \/ /\ n \in DOMAIN records
     /\ equivocations' =
          IF records[n].root = row.root THEN equivocations
          ELSE equivocations \cup {[size |-> n, first |-> records[n].root, conflicting |-> row.root]}
     /\ UNCHANGED records

Record(t) ==
  LET r == thread[t] IN
  /\ Running(t, "record") /\ Free(t)
  /\ RecordRow(Len(r.cp.root), Row(r))
  /\ answered' = answered \cup {Graded(r.cp, r.grade)}
  /\ Finish(t)
  /\ UNCHANGED <<logSize, statements, tip, lock, cosigned, faults>>

-----------------------------------------------------------------------------
(* Retention and faults.                                                    *)

\* prune_expired_statements.  Instances' clocks date the rows, so any of them
\* may be the expired ones.
Prune(t) ==
  /\ Retention
  /\ Idle(t) /\ Free(t)
  /\ \E kept \in SUBSET statements : statements' = kept
  /\ UNCHANGED <<logSize, tip, records, equivocations, lock, thread, cosigned, answered, faults>>

\* A store call raises or the thread's instance dies: the request ends where
\* it stands and the lock, if the thread holds it, is free again.
Fail(t) ==
  /\ ~Idle(t)
  /\ faults < MaxFaults
  /\ faults' = faults + 1
  /\ Finish(t)
  /\ IF lock[InstanceOf[t]] = t THEN Release(t) ELSE UNCHANGED lock
  /\ UNCHANGED <<tables, cosigned, answered>>

-----------------------------------------------------------------------------

Init ==
  /\ logSize = 0
  /\ statements = {}
  /\ tip = None
  /\ records = [n \in {} |-> None]
  /\ equivocations = {}
  /\ lock = [i \in Instances |-> None]
  /\ thread = [t \in Threads |-> NoRequest]
  /\ cosigned = {}
  /\ answered = {}
  /\ faults = 0

Step(t) ==
  \/ ReadCachedGrade(t)
  \/ CheckTip(t) \/ ReadSize(t) \/ InsertEntry(t) \/ InsertConflict(t)
  \/ PutStatement(t) \/ PutTip(t)
  \/ Record(t)

Next ==
  \E t \in Threads :
    \/ \E cp \in Checkpoints : SubmitNew(t, cp) \/ SubmitCached(t, cp)
    \/ Step(t)
    \/ Prune(t)
    \/ Fail(t)

Spec == Init /\ [][Next]_vars

-----------------------------------------------------------------------------
(* Properties.                                                             *)

Pcs == {"idle", "tip", "size", "insert", "put_statement", "put_tip", "cached_grade", "record"}

Root == {cp.root : cp \in Checkpoints}
Dig  == {Digest(cp) : cp \in Checkpoints}
Size == {Len(root) : root \in Root}

\* Every table holds rows of its schema, and an instance's lock is held by the
\* one thread of it that stands between the dedup lookup and the tip's update.
TypeOK ==
  /\ logSize \in 0 .. MaxLog
  /\ statements \subseteq Dig
  /\ tip \in Root \cup {None}
  /\ DOMAIN records \subseteq Size
  /\ \A n \in DOMAIN records :
       records[n] \in [root : Root, digest : Dig, grade : Grades \cup {None}]
  /\ equivocations \subseteq [size : Size, first : Root, conflicting : Root]
  /\ lock \in [Instances -> Threads \cup {None}]
  /\ thread \in [Threads -> [pc : Pcs, cp : Checkpoints \cup {None}, grade : Grades \cup {None},
                             idx : 0 .. MaxLog]]
  /\ \A t \in Threads : thread[t].pc \notin {"idle", "record"} <=> lock[InstanceOf[t]] = t
  /\ cosigned \subseteq [cp : Checkpoints, grade : Grades]
  /\ answered \subseteq [cp : Checkpoints, grade : Grades \cup {None}]

\* The checkpoints this witness vouches for as a log's history.
Accepted == {c \in cosigned : c.grade # Registered}

\* "never on a bare registered (unproven) acceptance": the chain tip is a root
\* that was co-signed as a baseline or as an extension, whichever instance
\* wrote it last; a proof-less checkpoint cannot plant it.
TipAccepted == tip # None => \E c \in Accepted : c.cp.root = tip

\* The continuity assertion signed into a receipt bridges from the very root
\* it names, and this witness accepted that root before, whatever other
\* instances, crashes and retention do to the tip in between.
AssertionsBridge ==
  \A c \in cosigned :
    c.grade = Witnessed =>
      /\ IsPrefix(c.cp.prev, c.cp.root)
      /\ \E d \in Accepted : d.cp.root = c.cp.prev

\* _record_checkpoint_read_surface: a watcher of GET /checkpoints sees every
\* root this service ever answered for, as the record of its position or as an
\* equivocation against it; two answered roots at one position are never silent.
EquivocationsFlagged ==
  \A x \in answered : x.cp.form # "legacy" =>
    LET n == Len(x.cp.root) IN
    /\ n \in DOMAIN records
    /\ \/ records[n].root = x.cp.root
       \/ [size |-> n, first |-> records[n].root, conflicting |-> x.cp.root] \in equivocations

\* "the first-seen record is preserved as evidence": no record is rewritten and
\* no equivocation withdrawn, retention included.
EvidenceKept ==
  [][/\ equivocations \subseteq equivocations'
     /\ \A n \in DOMAIN records : n \in DOMAIN records' /\ records'[n] = records[n]]_vars

\* "never co-sign a rollback or fork": the checkpoints accepted for a log_id
\* are points of one history.
NoForkAccepted ==
  \A c, d \in Accepted : IsPrefix(c.cp.root, d.cp.root) \/ IsPrefix(d.cp.root, c.cp.root)

\* The chain tip only moves forward along the history it stands for.
TipExtends == [][tip # None => IsPrefix(tip, tip')]_vars

\* The grade continuity-witnessed means that the proof was verified against
\* this witness's own tip.  An answer that bears it, a resubmission's included,
\* is about a checkpoint that earned it.
WitnessedAnswersVerified ==
  \A x \in answered :
    x.grade = Witnessed => \E c \in cosigned : Digest(c.cp) = Digest(x.cp) /\ c.grade = Witnessed

\* checkpoint_records "carries the continuity_grade this witness assigned when
\* it was accepted".
RecordedGradeEarned ==
  \A n \in DOMAIN records :
    \E c \in cosigned : Digest(c.cp) = records[n].digest /\ c.grade = records[n].grade
=============================================================================
