----------------------------- MODULE PublicLog -----------------------------
(***************************************************************************)
(* The external public log rail (public_log/scheduler.py, rekor.py) and    *)
(* the life of the processes that run it (app.py): each instance starts    *)
(* from an environment, serves, publishes the current tree head on a timer *)
(* and once more while it shuts down, and may crash at any moment.         *)
(*                                                                         *)
(* publish_if_new is cut at its store and network calls; pc[i][t] names    *)
(* the next one of thread t of instance i.  The timer and the shutdown     *)
(* handler call it on one publisher without excluding each other.          *)
(*                                                                         *)
(* A tree head is [log, size]: within one log the root is a function of    *)
(* the size (see TransparencyLog).  get_sth is one step here.              *)
(***************************************************************************)
EXTENDS Startup

CONSTANTS
  Instances,      \* service instances
  Sizes,          \* the log sizes at which some publisher looks
  Offered,        \* the environments instances are started from
  DegradedAfter,  \* consecutive failures after which /health says degraded
  MaxStarts,      \* bound: process starts that succeed
  MaxFaults,      \* bound: store and network errors, and crashes
  MaxGrowths,     \* bound: times the requests let a log grow
  None

Threads == {"timer", "shutdown"}
Logs == {Db} \cup 1 .. MaxStarts
Keys == {Stable} \cup 1 .. MaxStarts

ASSUME PublicLogConstants ==
  /\ Sizes \subseteq Nat \ {0}
  /\ Offered \subseteq Environments
  /\ DegradedAfter \in Nat \ {0}
  /\ MaxStarts \in Nat /\ MaxFaults \in Nat /\ MaxGrowths \in Nat
  /\ Db \notin 1 .. MaxStarts /\ Stable \notin 1 .. MaxStarts
  /\ None \notin Nat

VARIABLES
  proc,      \* per instance, its process
  pc,        \* per instance and thread, the next call of publish_if_new
  head,      \* per instance and thread, the size of the head it holds
  size,      \* per log, its number of leaves
  entries,   \* the public log: the entries it holds
  receipts,  \* table public_log_receipts, per store
  starts,    \* history: processes started
  faults,    \* history: faults so far
  growths,   \* history: growths so far
  issued     \* history: the identities strict processes answered under

vars == <<proc, pc, head, size, entries, receipts, starts, faults, growths, issued>>

\* What Rekor is sent: a head, signed under its process's key.  The entry also
\* stands for the uuid it is answered with; the heads two instances send of one
\* size differ in their time stamps.
Entries == [log : Logs, size : Sizes, key : Keys, by : Instances]
Rows == [size : Sizes, uuid : Entries]

\* Python's None is no row of a table.
ASSUME NoneDistinct == None \notin Rows

\* No call of publish_if_new is under way.
Idle == [t \in Threads |-> "idle"]
NoHead == [t \in Threads |-> 0]

Up(i) == proc[i].status = "up"

Init ==
  /\ proc = [i \in Instances |-> Down]
  /\ pc = [i \in Instances |-> Idle]
  /\ head = [i \in Instances |-> NoHead]
  /\ size = [l \in Logs |-> 0]
  /\ entries = {}
  /\ receipts = [l \in Logs |-> {}]
  /\ starts = 0
  /\ faults = 0
  /\ growths = 0
  /\ issued = {}
-----------------------------------------------------------------------------
(* The life of a process. *)

\* create_app: a process serves, or refuses and the instance stays down.
Start(i) ==
  /\ proc[i].status = "down"
  /\ starts < MaxStarts
  /\ starts' = starts + 1
  /\ \E env \in {e \in Offered : Starts(e)} :
       proc' = [proc EXCEPT ![i] = Process(env, starts + 1)]
  /\ UNCHANGED <<pc, head, size, entries, receipts, faults, growths, issued>>

\* What an ended process takes with it: its threads and, without a database,
\* its log and the tables beside it.
Gone(i) ==
  LET l == proc[i].log
      kept(f, lost) == IF l = Db THEN f ELSE [f EXCEPT ![l] = lost]
  IN /\ proc' = [proc EXCEPT ![i] = Down]
     /\ pc' = [pc EXCEPT ![i] = Idle]
     /\ head' = [head EXCEPT ![i] = NoHead]
     /\ size' = kept(size, 0)
     /\ receipts' = kept(receipts, {})

\* SIGTERM: the shutdown handler publishes once more, if the rail is on.
Shutdown(i) ==
  /\ Up(i)
  /\ proc' = [proc EXCEPT ![i].status = "stopping"]
  /\ pc' = [pc EXCEPT ![i]["shutdown"] = IF proc[i].publisher = "none" THEN "exit" ELSE "head"]
  /\ UNCHANGED <<head, size, entries, receipts, starts, faults, growths, issued>>

\* The handler has returned or raised; the process ends.
Exit(i) ==
  /\ pc[i]["shutdown"] = "exit"
  /\ Gone(i)
  /\ UNCHANGED <<entries, starts, faults, growths, issued>>

\* The container is killed.
Crash(i) ==
  /\ proc[i].status # "down"
  /\ faults < MaxFaults
  /\ faults' = faults + 1
  /\ Gone(i)
  /\ UNCHANGED <<entries, starts, growths, issued>>

\* Requests append leaves between two looks of a publisher.
Grow(i) ==
  /\ Up(i)
  /\ growths < MaxGrowths
  /\ growths' = growths + 1
  /\ \E s \in Sizes : s > size[proc[i].log] /\ size' = [size EXCEPT ![proc[i].log] = s]
  /\ issued' = IF proc[i].strict
               THEN issued \cup {[key |-> proc[i].key, log |-> proc[i].log]} ELSE issued
  /\ UNCHANGED <<proc, pc, head, entries, receipts, starts, faults>>
-----------------------------------------------------------------------------
(* PublicLogPublisher.publish_if_new. *)

\* The timer sleeps until its next tick; the shutdown handler ends the process.
Return(i, t) ==
  /\ pc' = [pc EXCEPT ![i][t] = IF t = "timer" THEN "idle" ELSE "exit"]
  /\ head' = [head EXCEPT ![i][t] = 0]

\* The timer fires (start_publisher_thread), or the shutdown handler runs.
Called(i, t) ==
  IF t = "timer" THEN proc[i].publisher = "running" /\ pc[i][t] = "idle" ELSE pc[i][t] = "head"

\* Mutant: the head of an empty log is published, too.
Empty_Never(l) == FALSE

Empty(l) == size[l] = 0

\* size() and get_sth(): an empty log publishes nothing.
ReadHead(i, t) ==
  /\ Called(i, t)
  /\ IF Empty(proc[i].log)
     THEN Return(i, t)
     ELSE /\ pc' = [pc EXCEPT ![i][t] = "lookup"]
          /\ head' = [head EXCEPT ![i][t] = size[proc[i].log]]
  /\ UNCHANGED <<proc, size, entries, receipts, starts, faults, growths, issued>>

\* Mutant: any earlier publication counts as this head's.
Published_AnyHead(l, s) == receipts[l] # {}

\* get_public_log_receipt, by (backend, tree_size, root_hash).
Published(l, s) == \E row \in receipts[l] : row.size = s

Lookup(i, t) ==
  /\ pc[i][t] = "lookup"
  /\ IF Published(proc[i].log, head[i][t])
     THEN Return(i, t)
     ELSE pc' = [pc EXCEPT ![i][t] = "submit"] /\ UNCHANGED head
  /\ UNCHANGED <<proc, size, entries, receipts, starts, faults, growths, issued>>

Entry(i, t) ==
  [log |-> proc[i].log, size |-> head[i][t], key |-> proc[i].key, by |-> i]

\* RekorPublicLog.submit, answered 201.
Submit(i, t) ==
  /\ pc[i][t] = "submit"
  /\ entries' = entries \cup {Entry(i, t)}
  /\ pc' = [pc EXCEPT ![i][t] = "put"]
  /\ UNCHANGED <<proc, head, size, receipts, starts, faults, growths, issued>>

\* Only the database raises; the in-process store does not.
StoreMayRaise(i) == proc[i].log = Db

\* _record_failure: the count goes up.  The failure's row goes to a table that
\* nothing reads, and is lost when the store raises once more.
RecordFailure(i, t) ==
  /\ proc' = [proc EXCEPT ![i].failures = @ + 1]
  /\ Return(i, t)

\* A call inside the try raises: the store's, or Rekor's, which refused the
\* entry, or took it and its answer was lost.
Fails(i, t) ==
  /\ \/ (Called(i, t) \/ pc[i][t] = "lookup") /\ StoreMayRaise(i) /\ UNCHANGED entries
     \/ pc[i][t] = "submit" /\ entries' \in {entries, entries \cup {Entry(i, t)}}
  /\ faults < MaxFaults
  /\ faults' = faults + 1
  /\ RecordFailure(i, t)
  /\ UNCHANGED <<size, receipts, starts, growths, issued>>

\* Mutant: the row is written for the head of the moment.
Row_CurrentHead(i, t) == [size |-> size[proc[i].log], uuid |-> Entry(i, t)]

Row(i, t) == [size |-> head[i][t], uuid |-> Entry(i, t)]

\* Mutant: the last publisher of a head keeps its row.
PutRow_Upsert(rows, row) == {r \in rows : r.size # row.size} \cup {row}

\* put_public_log_receipt: ON CONFLICT DO NOTHING.
PutRow(rows, row) ==
  IF \E r \in rows : r.size = row.size THEN rows ELSE rows \cup {row}

Put(i, t) == [receipts EXCEPT ![proc[i].log] = PutRow(@, Row(i, t))]

PutReceipt(i, t) ==
  /\ pc[i][t] = "put"
  /\ receipts' = Put(i, t)
  /\ proc' = [proc EXCEPT ![i].failures = 0]
  /\ Return(i, t)
  /\ UNCHANGED <<size, entries, starts, faults, growths, issued>>

\* put_public_log_receipt raises outside the try, before or after its commit:
\* the exception leaves publish_if_new and ends the timer thread, or the
\* shutdown handler.
PutReceiptRaises(i, t) ==
  /\ pc[i][t] = "put"
  /\ StoreMayRaise(i)
  /\ faults < MaxFaults
  /\ faults' = faults + 1
  /\ receipts' \in {receipts, Put(i, t)}
  /\ proc' = IF t = "timer" THEN [proc EXCEPT ![i].publisher = "dead"] ELSE proc
  /\ Return(i, t)
  /\ UNCHANGED <<size, entries, starts, growths, issued>>
-----------------------------------------------------------------------------
(* What the service shows of the rail. *)

\* Mutant: the largest head published before the stamp's leaf.
Covers_Before(row, n) == row.size <= n

Covers(row, n) == row.size >= n

\* get_public_log_receipt_covering: the smallest published head that covers
\* a tree of n leaves, or None.
Covering(l, n) ==
  LET covering == {row \in receipts[l] : Covers(row, n)}
  IN IF covering = {} THEN None
     ELSE CHOOSE row \in covering : \A other \in covering : row.size <= other.size

\* get_latest_public_log_receipt.
Latest(l) ==
  IF receipts[l] = {} THEN None
  ELSE CHOOSE row \in receipts[l] : \A other \in receipts[l] : row.size >= other.size

\* get_public_log_receipts_since.
Since(l, n) == {row \in receipts[l] : row.size > n}

\* A stamp for a tree of n leaves: the evidence is put beside a copy of the
\* receipt, in its unprotected header.
Stamp(i, n) ==
  [tree_size |-> n,
   public_log |-> IF proc[i].publisher = "none" THEN None ELSE Covering(proc[i].log, n)]

\* GET /anchor/public-log/entries, empty when the rail is off.
PublicLogEntries(i, n) ==
  IF proc[i].publisher = "none" THEN {} ELSE Since(proc[i].log, n)

\* /health.
Degraded(i) == proc[i].failures >= DegradedAfter
-----------------------------------------------------------------------------
Next == \E i \in Instances :
  \/ Start(i)
  \/ Shutdown(i)
  \/ Exit(i)
  \/ Crash(i)
  \/ Grow(i)
  \/ \E t \in Threads :
       \/ ReadHead(i, t)
       \/ Lookup(i, t)
       \/ Submit(i, t)
       \/ PutReceipt(i, t)
       \/ Fails(i, t)
       \/ PutReceiptRaises(i, t)

Spec == Init /\ [][Next]_vars

\* The timer fires again and again, and a thread under way takes its next
\* step; nothing obliges a process to start, requests to come, or faults.
PublisherFairness ==
  \A i \in Instances, t \in Threads :
    WF_vars(ReadHead(i, t) \/ Lookup(i, t) \/ Submit(i, t) \/ PutReceipt(i, t))
-----------------------------------------------------------------------------
(* Properties. *)

\* Every table holds rows of its schema and every thread the locals its next
\* call needs (store.py:1235, scheduler.py:53).
TypeOK ==
  /\ \A i \in Instances :
       /\ proc[i].status \in {"up", "stopping", "down"}
       /\ proc[i].key \in Keys /\ proc[i].log \in Logs
       /\ proc[i].publisher \in {"running", "dead", "none"}
       /\ proc[i].failures \in 0 .. MaxFaults
       /\ \A t \in Threads :
            /\ pc[i][t] \in {"idle", "head", "lookup", "submit", "put", "exit"}
            /\ pc[i][t] \in {"lookup", "submit", "put"} => head[i][t] \in Sizes
       /\ proc[i].status = "down" => pc[i] = Idle
  /\ size \in [Logs -> Sizes \cup {0}]
  /\ entries \subseteq Entries
  /\ \A l \in Logs : receipts[l] \subseteq Rows
  /\ starts \in 0 .. MaxStarts /\ faults \in 0 .. MaxFaults

\* A persisted publication names an entry the public log holds, for that very
\* head: the size, the log and the entry belong together although the head was
\* read two calls before and the log has grown since (scheduler.py:63-86).
PublishedTruthful ==
  \A l \in Logs : \A row \in receipts[l] :
    row.uuid \in entries /\ row.uuid.log = l /\ row.uuid.size = row.size

\* The evidence put on a stamp names an entry of the public log whose tree
\* contains the stamp's leaf, and no evidence is withheld that exists
\* (router.py:942-955).
EvidenceCovers ==
  \A i \in Instances : \A n \in Sizes :
    (Up(i) /\ n <= size[proc[i].log]) =>
      LET evidence == Stamp(i, n).public_log
      IN IF evidence = None
         THEN PublicLogEntries(i, n - 1) = {}
         ELSE evidence.uuid.log = proc[i].log /\ evidence.uuid.size >= n

\* Nothing is published under two identities: an ephemeral key never reaches
\* the public log, whatever restarts there were (app.py:260-273).
OneIdentityPublished ==
  \A e, f \in entries : e.key = f.key

\* What a process with no development opt-in answered survives every restart:
\* its log still holds leaves, and every strict process signs with its key
\* (app.py:115-125, 150-167: "an ephemeral key invalidates all previously
\* issued receipts on restart").
ReceiptsOutliveRestarts ==
  \A p \in issued :
    /\ size[p.log] > 0
    /\ \A i \in Instances : (Up(i) /\ proc[i].strict) => proc[i].key = p.key

\* A publication once on record in the database stays as it is: two
\* publishers of one head do not replace each other's row (store.py:1692).
PublicationsKept == [][receipts[Db] \subseteq receipts'[Db]]_vars

\* While an instance is up and its publisher thread alive, every head is
\* eventually covered by a publication on record, faults and a second
\* publisher notwithstanding (scheduler.py:142-144).
HeadsPublished ==
  \A i \in Instances : \A n \in Sizes :
    LET Publishing == Up(i) /\ proc[i].publisher = "running"
        Covered == \E row \in receipts[proc[i].log] : row.size >= n
    IN (Publishing /\ size[proc[i].log] >= n) ~> (~ Publishing \/ Covered)
=============================================================================
