--------------------------- MODULE TransparencyLog ---------------------------
(***************************************************************************)
(* The CT log of AnchorerService (anchoring/service.py) over one shared    *)
(* PostgresLogStore (anchoring/store.py).                                  *)
(*                                                                         *)
(* N service instances serve one database.  Within an instance every       *)
(* operation below holds self._lock, so an instance runs one request at a  *)
(* time; instances do not exclude each other, and every store call is a    *)
(* transaction of its own.  A request is therefore cut at its store calls: *)
(* req[p].pc names the next one.                                           *)
(*                                                                         *)
(* Hashes and signatures are ideal.  A hash is represented by what it is   *)
(* taken over: the hash-chain head by the sequence of (log_index,          *)
(* payload_hash) pairs it folds in, a CT root by the sequence of leaves    *)
(* under it.  Two of them are equal exactly when their preimages are.      *)
(***************************************************************************)
EXTENDS Integers, Sequences, FiniteSets

CONSTANTS
  Instances,     \* service instances (Cloud Run containers)
  Submissions,   \* statement envelopes clients submit, as bytes
  EntryHash,     \* [Submissions -> hash]: compute_entry_hash
  LegacyHash,    \* [Submissions -> hash]: SHA-256 of the whole envelope
  WithSubject,   \* the submissions that carry a CWT subject claim
  PreMigration,  \* envelopes logged under LegacyHash before the migration
  Anchors,       \* payloads clients hand to POST /anchor/anchor
  WithCapsule,   \* the anchors bound to a capsule_id
  Time,          \* clock readings; instances' clocks are not synchronised
  Retention,     \* TRUE iff CAPSULE_ANCHOR_ENTRY_RETENTION is set
  MaxLog,        \* bound: log entries ever appended
  MaxFaults,     \* bound: store errors and instance crashes
  None           \* Python's None

Hashes == {EntryHash[s] : s \in Submissions} \cup {LegacyHash[s] : s \in Submissions}
Payloads == Hashes \cup Anchors

ASSUME ConstantsOK ==
  /\ Submissions # {} => EntryHash \in [Submissions -> Hashes] /\ LegacyHash \in [Submissions -> Hashes]
  /\ WithSubject \subseteq Submissions
  /\ WithCapsule \subseteq Anchors
  /\ PreMigration \in Seq(Submissions)
  /\ \A i, j \in 1 .. Len(PreMigration) :
       i # j => LegacyHash[PreMigration[i]] # LegacyHash[PreMigration[j]]
  /\ Time \subseteq Nat /\ Time # {}
  /\ Retention \in BOOLEAN
  /\ MaxLog \in Nat /\ MaxFaults \in Nat
  /\ None \notin Hashes \cup Anchors \cup Submissions
  /\ Anchors \cap (Hashes \cup Submissions) = {}

VARIABLES
  logEntries,    \* table log_entries: log_index -> row
  statements,    \* table submitted_statements: entry_hash -> receipt
  subjectIndex,  \* table subject_index: the entry_hashes it lists
  roots,         \* table countersigned_roots: anchored payloads
  capsules,      \* table log_capsule_bindings: log_index -> the anchor bound to it
  latestSth,     \* table signed_tree_heads, one row or none
  sthHistory,    \* table signed_tree_head_history: tree_size -> STH
  req,           \* per instance, the request that holds its lock
  issued,        \* history: registrations answered to clients
  faults         \* history: faults so far

tables == <<logEntries, statements, subjectIndex, roots, capsules, latestSth, sthHistory>>
vars == <<tables, req, issued, faults>>

-----------------------------------------------------------------------------
(* Rows, receipts, tree heads.                                             *)

Scitt == "scitt_statement"
Root  == "countersigned_root"

Chain   == Seq(Nat \X Payloads)                 \* hash-chain heads; <<>> is None
Entry   == [kind : {Scitt}, payload_hash : Hashes, prev_log_hash : Chain, logged_at : Time]
           \cup [kind : {Root}, payload_hash : Anchors, prev_log_hash : Chain, logged_at : Time]
CtLeaf  == {<<h>> : h \in Hashes} \cup (Nat \X Anchors \X Chain \X Time)
Receipt == [leaf_index : Nat, tree_size : Nat, root : Seq(CtLeaf)]
Sth     == [tree_size : Nat, root : Seq(CtLeaf), timestamp : Time]

Operations == {"register", "anchor", "get_sth", "refresh"}

\* Python's None is no tree head and no operation's name.
ASSUME NoneDistinct == None \notin Sth \cup Operations

\* The tree head of the row e at index i folds it into the prior head.
HeadHash(i, e) == Append(e.prev_log_hash, <<i, e.payload_hash>>)

\* SELECT COUNT(*) FROM log_entries
Size == Cardinality(DOMAIN logEntries)

\* The index of the k-th row in ORDER BY log_index.
KthIndex(k) ==
  CHOOSE i \in DOMAIN logEntries : Cardinality({j \in DOMAIN logEntries : j < i}) = k - 1

\* A statement's leaf commits to its hash alone, an anchor's to the whole row.
LeafOf(i) ==
  LET e == logEntries[i] IN
    IF e.kind = Scitt THEN <<e.payload_hash>>
    ELSE <<i, e.payload_hash, e.prev_log_hash, e.logged_at>>

Leaves == [k \in 1 .. Size |-> LeafOf(KthIndex(k))]

\* The Merkle root of the first n leaves.
CtRoot(n) == SubSeq(Leaves, 1, n)

Put(table, key, row) == [k \in DOMAIN table \cup {key} |-> IF k = key THEN row ELSE table[k]]

PutIfAbsent_Upsert(table, key, row) == Put(table, key, row)

\* INSERT ... ON CONFLICT DO NOTHING
PutIfAbsent(table, key, row) == IF key \in DOMAIN table THEN table ELSE Put(table, key, row)

-----------------------------------------------------------------------------
(* Requests.                                                               *)

NoRequest ==
  [pc |-> "idle", op |-> None, arg |-> None, at |-> None, idx |-> 0, prev |-> <<>>,
   receipt |-> None, head |-> None, from |-> 0]

Idle(p) == req[p].pc = "idle"
Running(p, step) == req[p].pc = step
Begin(p, r) == req' = [req EXCEPT ![p] = r]
Advance(p, step, r) == req' = [req EXCEPT ![p] = [r EXCEPT !.pc = step]]
Finish(p) == req' = [req EXCEPT ![p] = NoRequest]

\* Requests that may still append: each appends at most one row.
Appending == {"lookup_legacy", "size", "head", "insert"}
Room == Size + Cardinality({p \in Instances : req[p].pc \in Appending}) < MaxLog

Answer(s, h, r) == [submission |-> s, entry_hash |-> h, receipt |-> r]

-----------------------------------------------------------------------------
(* register_signed_statement_full.                                         *)

Registered_BareDigestsOnly(s) ==
  EntryHash[s] = LegacyHash[s] /\ EntryHash[s] \in DOMAIN statements

\* get_statement(entry_hash) finds the signing act.
Registered(s) == EntryHash[s] \in DOMAIN statements

\* The dedup lookup finds the entry hash: the cached receipt is the answer.
RegisterCached(p, s) ==
  /\ Idle(p)
  /\ Registered(s)
  /\ issued' = issued \cup {Answer(s, EntryHash[s], statements[EntryHash[s]])}
  /\ UNCHANGED <<tables, req, faults>>

\* The dedup lookup misses; logged_at was read before the lock was taken.
RegisterMiss(p, s) ==
  /\ Idle(p)
  /\ Room
  /\ ~Registered(s)
  /\ \E t \in Time :
       Begin(p, [NoRequest EXCEPT
                   !.pc = IF EntryHash[s] = LegacyHash[s] THEN "size" ELSE "lookup_legacy",
                   !.op = "register", !.arg = s, !.at = t])
  /\ UNCHANGED <<tables, issued, faults>>

\* The dual-lookup window: the envelope may be cached under its legacy hash.
LookupLegacy(p) ==
  LET s == req[p].arg
      h == LegacyHash[s] IN
  /\ Running(p, "lookup_legacy")
  /\ \/ /\ h \in DOMAIN statements
        /\ issued' = issued \cup {Answer(s, h, statements[h])}
        /\ Finish(p)
     \/ /\ h \notin DOMAIN statements
        /\ Advance(p, "size", req[p])
        /\ UNCHANGED issued
  /\ UNCHANGED <<tables, faults>>

\* _append_log: the new row's index is the number of rows.
ReadSize(p) ==
  /\ Running(p, "size")
  /\ Advance(p, IF Size > 0 THEN "head" ELSE "insert", [req[p] EXCEPT !.idx = Size])
  /\ UNCHANGED <<tables, issued, faults>>

\* _append_log: the head of the last row, read by a query of its own.
ReadHead(p) ==
  /\ Running(p, "head")
  /\ LET last == KthIndex(Size) IN
       Advance(p, "insert", [req[p] EXCEPT !.prev = HeadHash(last, logEntries[last])])
  /\ UNCHANGED <<tables, issued, faults>>

NewEntry_Undated(r) ==
  [kind |-> Scitt, payload_hash |-> EntryHash[r.arg], prev_log_hash |-> r.prev, logged_at |-> None]

\* The row a request appends.
NewEntry(r) ==
  [kind |-> IF r.op = "register" THEN Scitt ELSE Root,
   payload_hash |-> IF r.op = "register" THEN EntryHash[r.arg] ELSE r.arg,
   prev_log_hash |-> r.prev,
   logged_at |-> r.at]

KeyFree_NoPrimaryKey(i) == TRUE

\* log_index BIGINT PRIMARY KEY
KeyFree(i) == i \notin DOMAIN logEntries

InsertEntry_AtNextIndex(p) ==
  /\ Running(p, "insert")
  /\ logEntries' = Put(logEntries, Size, NewEntry(req[p]))
  /\ Advance(p, IF req[p].op = "register" THEN "receipt" ELSE "put_root", [req[p] EXCEPT !.idx = Size])
  /\ UNCHANGED <<statements, subjectIndex, roots, capsules, latestSth, sthHistory,
                 issued, faults>>

\* append_entry: the primary key admits the row only at a free index.
InsertEntry(p) ==
  /\ Running(p, "insert")
  /\ KeyFree(req[p].idx)
  /\ logEntries' = Put(logEntries, req[p].idx, NewEntry(req[p]))
  /\ Advance(p, IF req[p].op = "register" THEN "receipt" ELSE "put_root", req[p])
  /\ UNCHANGED <<statements, subjectIndex, roots, capsules, latestSth, sthHistory,
                 issued, faults>>

\* append_entry: a taken index raises, and the request ends in an error.
InsertConflict(p) ==
  /\ Running(p, "insert")
  /\ ~KeyFree(req[p].idx)
  /\ Finish(p)
  /\ UNCHANGED <<tables, issued, faults>>

ReceiptFor_LastLeaf(i) == [leaf_index |-> Size - 1, tree_size |-> Size, root |-> CtRoot(Size)]

\* The receipt is signed over the log as it is now, other instances' rows included.
ReceiptFor(i) == [leaf_index |-> i, tree_size |-> Size, root |-> CtRoot(Size)]

BuildReceipt(p) ==
  /\ Running(p, "receipt")
  /\ Advance(p, "put_statement", [req[p] EXCEPT !.receipt = ReceiptFor(req[p].idx)])
  /\ UNCHANGED <<tables, issued, faults>>

AfterStatement_Unindexed(s) == "sth_size"

\* A statement that claims a subject is indexed by it before the head advances.
AfterStatement(s) == IF s \in WithSubject THEN "put_subject" ELSE "sth_size"

\* put_statement: INSERT ... ON CONFLICT (entry_hash) DO NOTHING.
PutStatement(p) ==
  /\ Running(p, "put_statement")
  /\ statements' = PutIfAbsent(statements, EntryHash[req[p].arg], req[p].receipt)
  /\ Advance(p, AfterStatement(req[p].arg), req[p])
  /\ UNCHANGED <<logEntries, subjectIndex, roots, capsules, latestSth, sthHistory,
                 issued, faults>>

PutSubject(p) ==
  /\ Running(p, "put_subject")
  /\ subjectIndex' = subjectIndex \cup {EntryHash[req[p].arg]}
  /\ Advance(p, "sth_size", req[p])
  /\ UNCHANGED <<logEntries, statements, roots, capsules, latestSth, sthHistory,
                 issued, faults>>

-----------------------------------------------------------------------------
(* anchor.                                                                 *)

Anchor(p, a) ==
  /\ Idle(p)
  /\ Room
  /\ \E t \in Time : Begin(p, [NoRequest EXCEPT !.pc = "size", !.op = "anchor", !.arg = a, !.at = t])
  /\ UNCHANGED <<tables, issued, faults>>

PutRoot(p) ==
  /\ Running(p, "put_root")
  /\ roots' = roots \cup {req[p].arg}
  /\ IF req[p].arg \in WithCapsule THEN Advance(p, "put_capsule", req[p]) ELSE Finish(p)
  /\ UNCHANGED <<logEntries, statements, subjectIndex, capsules, latestSth, sthHistory,
                 issued, faults>>

PutCapsule(p) ==
  /\ Running(p, "put_capsule")
  /\ capsules' = Put(capsules, req[p].idx, req[p].arg)
  /\ Finish(p)
  /\ UNCHANGED <<logEntries, statements, subjectIndex, roots, latestSth, sthHistory,
                 issued, faults>>

-----------------------------------------------------------------------------
(* Signed tree heads: get_sth, refresh_sth, _sign_and_persist_sth.         *)

\* get_sth reads the persisted head first.
GetSth(p) ==
  /\ Idle(p)
  /\ Begin(p, [NoRequest EXCEPT !.pc = "sth_compare", !.op = "get_sth",
                                !.head = latestSth, !.from = Size])
  /\ UNCHANGED <<tables, issued, faults>>

Current_IfAny(stored) == stored # None

\* The persisted head covers the whole log.
Current(stored) == stored # None /\ stored.tree_size >= Size

\* get_sth serves the head it read unless the log has outgrown it.
CompareSth(p) ==
  LET stored == req[p].head IN
  /\ Running(p, "sth_compare")
  /\ \/ /\ Current(stored)
        /\ Finish(p)
     \/ /\ ~Current(stored)
        /\ Advance(p, "sth_size", req[p])
  /\ UNCHANGED <<tables, issued, faults>>

RefreshSth_OnlyIfSigned(p) ==
  /\ Idle(p)
  /\ latestSth # None
  /\ Begin(p, [NoRequest EXCEPT !.pc = "sth_size", !.op = "refresh"])
  /\ UNCHANGED <<tables, issued, faults>>

\* The daemon thread: if size() > 0, refresh_sth().
RefreshSth(p) ==
  /\ Idle(p)
  /\ Size > 0
  /\ Begin(p, [NoRequest EXCEPT !.pc = "sth_size", !.op = "refresh"])
  /\ UNCHANGED <<tables, issued, faults>>

ReadSthSize_OwnIndex(p) ==
  /\ Running(p, "sth_size")
  /\ Advance(p, "sth_sign", req[p])
  /\ UNCHANGED <<tables, issued, faults>>

\* _sign_and_persist_sth: the size to sign at.
ReadSthSize(p) ==
  /\ Running(p, "sth_size")
  /\ Advance(p, "sth_sign", [req[p] EXCEPT !.idx = Size])
  /\ UNCHANGED <<tables, issued, faults>>

HeadAt_Uncut(n, t) == [tree_size |-> n, root |-> CtRoot(Size), timestamp |-> t]

\* The leaves are read again and cut to the size read before.
HeadAt(n, t) == [tree_size |-> n, root |-> CtRoot(n), timestamp |-> t]

SignSth(p) ==
  /\ Running(p, "sth_sign")
  /\ \E t \in Time : Advance(p, "sth_put", [req[p] EXCEPT !.head = HeadAt(req[p].idx, t)])
  /\ UNCHANGED <<tables, issued, faults>>

Supersedes_LastWriter(new, old) == TRUE

\* put_sth's WHERE clause: strictly greater (tree_size, timestamp).
Supersedes(new, old) ==
  \/ old = None
  \/ new.tree_size > old.tree_size
  \/ new.tree_size = old.tree_size /\ new.timestamp > old.timestamp

\* put_sth: compare-and-swap of the latest row, first writer wins in the history.
PutSth(p) ==
  LET r == req[p] IN
  /\ Running(p, "sth_put")
  /\ latestSth' = IF Supersedes(r.head, latestSth) THEN r.head ELSE latestSth
  /\ sthHistory' = PutIfAbsent(sthHistory, r.head.tree_size, r.head)
  /\ issued' = IF r.op = "register"
               THEN issued \cup {Answer(r.arg, EntryHash[r.arg], r.receipt)} ELSE issued
  /\ Finish(p)
  /\ UNCHANGED <<logEntries, statements, subjectIndex, roots, capsules, faults>>

-----------------------------------------------------------------------------
(* Retention and faults.                                                   *)

\* prune_expired_statements: one DELETE over the receipt cache alone.
Prune(p) ==
  /\ Retention
  /\ Idle(p)
  /\ \E cutoff \in Time :
       LET kept == {h \in DOMAIN statements :
                      logEntries[statements[h].leaf_index].logged_at >= cutoff} IN
         statements' = [h \in kept |-> statements[h]]
  /\ UNCHANGED <<logEntries, subjectIndex, roots, capsules, latestSth, sthHistory,
                 req, issued, faults>>

\* A store call raises or the instance dies: the request ends where it stands
\* and its lock is released.  A commit whose acknowledgement is lost is the
\* write followed by this step: the retry in _transact meets the row again.
Fail(p) ==
  /\ ~Idle(p)
  /\ faults < MaxFaults
  /\ faults' = faults + 1
  /\ Finish(p)
  /\ UNCHANGED <<tables, issued>>

-----------------------------------------------------------------------------

\* Row i of the log as the migration to Sig_structure hashes found it.
Migrated(i) ==
  [kind |-> Scitt,
   payload_hash |-> LegacyHash[PreMigration[i + 1]],
   prev_log_hash |-> [j \in 1 .. i |-> <<j - 1, LegacyHash[PreMigration[j]]>>],
   logged_at |-> CHOOSE t \in Time : TRUE]

MigratedLeaves(n) == [j \in 1 .. n |-> <<LegacyHash[PreMigration[j]]>>]

Init ==
  /\ logEntries = [i \in 0 .. Len(PreMigration) - 1 |-> Migrated(i)]
  /\ statements = [h \in {LegacyHash[PreMigration[k]] : k \in 1 .. Len(PreMigration)} |->
                     LET k == CHOOSE k \in 1 .. Len(PreMigration) : h = LegacyHash[PreMigration[k]]
                     IN [leaf_index |-> k - 1, tree_size |-> k, root |-> MigratedLeaves(k)]]
  /\ subjectIndex = {}
  /\ roots = {}
  /\ capsules = [i \in {} |-> None]
  /\ latestSth = None
  /\ sthHistory = [n \in {} |-> None]
  /\ req = [p \in Instances |-> NoRequest]
  /\ issued = {}
  /\ faults = 0

\* The steps of a request that holds the lock.
Step(p) ==
  \/ LookupLegacy(p) \/ ReadSize(p) \/ ReadHead(p) \/ InsertEntry(p) \/ InsertConflict(p)
  \/ BuildReceipt(p) \/ PutStatement(p) \/ PutSubject(p)
  \/ PutRoot(p) \/ PutCapsule(p)
  \/ CompareSth(p) \/ ReadSthSize(p) \/ SignSth(p) \/ PutSth(p)

Next ==
  \E p \in Instances :
    \/ \E s \in Submissions : RegisterCached(p, s) \/ RegisterMiss(p, s)
    \/ \E a \in Anchors : Anchor(p, a)
    \/ GetSth(p) \/ RefreshSth(p) \/ Prune(p)
    \/ Step(p)
    \/ Fail(p)

Spec == Init /\ [][Next]_vars

\* A thread that holds the lock runs on; the refresh daemon, asleep between
\* its rounds, gets the lock in its turn however often clients take it.
FairSpec ==
  /\ Spec
  /\ \A p \in Instances : WF_vars(Step(p)) /\ SF_vars(RefreshSth(p))

-----------------------------------------------------------------------------
(* Properties.                                                             *)

Pcs == {"idle", "lookup_legacy", "size", "head", "insert", "receipt", "put_statement",
        "put_subject", "put_root", "put_capsule", "sth_compare", "sth_size", "sth_sign", "sth_put"}

Request ==
  [pc : Pcs, op : Operations \cup {None},
   arg : Submissions \cup Anchors \cup {None}, at : Time \cup {None}, idx : Nat,
   prev : Chain, receipt : Receipt \cup {None}, head : Sth \cup {None}, from : Nat]

\* A table is a function from the keys of its rows, kept in a given set.
IsTable(t, keys, rows) ==
  /\ t = [k \in DOMAIN t |-> t[k]]
  /\ DOMAIN t \subseteq keys
  /\ \A k \in DOMAIN t : t[k] \in rows

\* Every table holds rows of its schema, every request is between two store calls.
TypeOK ==
  /\ IsTable(logEntries, Nat, Entry) /\ IsFiniteSet(DOMAIN logEntries)
  /\ IsTable(statements, Hashes, Receipt)
  /\ subjectIndex \subseteq Hashes
  /\ roots \subseteq Anchors
  /\ IsTable(capsules, Nat, Anchors)
  /\ latestSth \in Sth \cup {None}
  /\ IsTable(sthHistory, Nat, Sth)
  /\ req \in [Instances -> Request]
  /\ issued \subseteq [submission : Submissions, entry_hash : Hashes, receipt : Receipt]
  /\ faults \in 0 .. MaxFaults

\* verify_log accepts the log at every moment: indices are contiguous from 0
\* and every row's prev_log_hash is the head of the row before it, although
\* _append_log reads the size and the last row in two queries and other
\* instances append, and die, in between.
VerifyLog ==
  /\ DOMAIN logEntries = 0 .. Size - 1
  /\ \A i \in DOMAIN logEntries :
       logEntries[i].prev_log_hash =
         IF i = 0 THEN <<>> ELSE HeadHash(i - 1, logEntries[i - 1])

ReceiptTruthful(h, r) ==
  /\ r.leaf_index < r.tree_size /\ r.tree_size <= Size
  /\ logEntries[r.leaf_index].kind = Scitt /\ logEntries[r.leaf_index].payload_hash = h
  /\ r.root = CtRoot(r.tree_size)

\* Every receipt a client holds, and every receipt the cache would re-issue,
\* names a row that is the statement's and a root of the log as it stands:
\* the inclusion proof of register_signed_statement_full never goes stale.
ReceiptsTruthful ==
  /\ \A h \in DOMAIN statements : ReceiptTruthful(h, statements[h])
  /\ \A a \in issued : ReceiptTruthful(a.entry_hash, a.receipt)

HeadTruthful(sth) == sth.tree_size <= Size /\ sth.root = CtRoot(sth.tree_size)

\* Every tree head persisted by put_sth commits to a prefix of the log,
\* whichever instance signed it and whenever it was written: a monitor finds
\* any two of them consistent.
HeadsTruthful ==
  /\ latestSth # None => HeadTruthful(latestSth)
  /\ \A n \in DOMAIN sthHistory : sthHistory[n].tree_size = n /\ HeadTruthful(sthHistory[n])

ServesSth(p) == req[p].op = "get_sth" /\ req'[p] = NoRequest /\ faults' = faults

\* get_sth "ALWAYS reflects the full log on read": the head it answers with
\* commits to a prefix of the log that covers every row present when the call
\* began, so it covers every head served before, by any instance.
GetSthFresh ==
  [][\A p \in Instances :
       ServesSth(p) =>
         /\ req[p].head # None
         /\ HeadTruthful(req[p].head)
         /\ req[p].head.tree_size >= req[p].from]_vars

\* put_sth: the persisted head never moves backwards in (tree_size, timestamp).
SthNeverRegresses ==
  [][latestSth # None =>
       /\ latestSth' # None
       /\ \/ latestSth'.tree_size > latestSth.tree_size
          \/ /\ latestSth'.tree_size = latestSth.tree_size
             /\ latestSth'.timestamp >= latestSth.timestamp]_vars

\* put_sth: a root once in signed_tree_head_history is there for good, whatever
\* is signed at that size later and whatever retention deletes.
HistoryImmutable ==
  [][\A n \in DOMAIN sthHistory :
       n \in DOMAIN sthHistory' /\ sthHistory'[n] = sthHistory[n]]_vars

\* anchor: a countersigned root is in the log before it can be looked up, and
\* a capsule is bound to the row of its own anchor.
AnchorsLogged ==
  /\ \A a \in roots : \E i \in DOMAIN logEntries :
       logEntries[i].kind = Root /\ logEntries[i].payload_hash = a
  /\ \A i \in DOMAIN capsules :
       i \in DOMAIN logEntries /\ logEntries[i].kind = Root /\ logEntries[i].payload_hash = capsules[i]

\* The implementation of the promise to monitors.  The roots made public are
\* those in clients' receipts and those in the tree head history.
Promise ==
  INSTANCE AppendOnlyLog WITH
    log <- Leaves,
    heads <- {a.receipt.root : a \in issued} \cup {sthHistory[n].root : n \in DOMAIN sthHistory}

\* The log over N instances, faults and retention implements AppendOnlyLog.
ImplementsAppendOnlyLog == Promise!Spec

\* "registration exactly-once per entry_hash" (the comment on the lock in
\* register_signed_statement_full): no signing act occupies two leaves, one
\* logged under its legacy hash before the migration included.
OneLeafPerAct ==
  \A s \in Submissions : \A i, j \in DOMAIN logEntries :
    /\ {logEntries[i].payload_hash, logEntries[j].payload_hash} \subseteq {EntryHash[s], LegacyHash[s]}
    => i = j

\* Idempotence: every submission of one signing act, a signature-malleated twin
\* included, is answered with the same, original receipt.
OneReceipt ==
  \A a, b \in issued :
    EntryHash[a.submission] = EntryHash[b.submission] => a.receipt = b.receipt

\* get_sth_at's use: the holder of a receipt finds the head signed at the
\* receipt's tree size in the history (receipts older than the table excepted).
ReceiptHeadOnRecord ==
  \A a \in issued :
    a.receipt.leaf_index >= Len(PreMigration) => a.receipt.tree_size \in DOMAIN sthHistory

\* get_statements_by_subject: "index and statement store are written together".
\* A registered statement that claims a subject can be found by it, once the
\* request that stores it is over.
SubjectListed ==
  \A s \in WithSubject :
    \/ ~Registered(s)
    \/ EntryHash[s] \in subjectIndex
    \/ \E p \in Instances : req[p].pc = "put_subject" /\ EntryHash[req[p].arg] = EntryHash[s]

\* _start_sth_refresh_thread: every entry, an anchored root that signs no head
\* of its own included, is eventually under a persisted tree head.
EntriesCovered ==
  \A n \in 1 .. MaxLog : Size = n ~> (latestSth # None /\ latestSth.tree_size >= n)
=============================================================================
