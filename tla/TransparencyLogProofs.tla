------------------------ MODULE TransparencyLogProofs ------------------------
(***************************************************************************)
(* Theorems about TransparencyLog, for any set of instances, submissions   *)
(* and anchors, any bound on the log and any number of faults.             *)
(*                                                                         *)
(* The invariant below is inductive.  Beside the types and the integrity   *)
(* of the chain it keeps, for every request between two store calls, what  *)
(* the request's locals still say of the log although other instances may  *)
(* have appended since they were read: the index a request carries never   *)
(* exceeds the size of the log, and if that index is still free when the   *)
(* row is inserted, then nothing was appended and the head the request     *)
(* carries is the head of the last row.                                    *)
(***************************************************************************)
EXTENDS TransparencyLog, FiniteSetTheorems, SequenceTheorems, TLAPS

Registers(r) == r.op = "register" /\ r.arg \in Submissions
Countersigns(r) == r.op = "anchor" /\ r.arg \in Anchors

\* The locals a request has set when it reaches each of its store calls.
WellFormed(r) ==
  /\ r.pc \in {"lookup_legacy", "receipt", "put_statement", "put_subject"} => Registers(r)
  /\ r.pc \in {"put_root", "put_capsule"} => Countersigns(r)
  /\ r.pc \in {"size", "head", "insert"} => Registers(r) \/ Countersigns(r)
  /\ r.pc \in {"lookup_legacy", "size", "head", "insert"} => r.at \in Time
  /\ r.pc \in {"put_statement", "put_subject"} => r.receipt \in Receipt
  /\ r.pc = "sth_compare" => r.op # "register"
  /\ r.pc \in {"sth_size", "sth_sign", "sth_put"} /\ r.op = "register" =>
       r.arg \in Submissions /\ r.receipt \in Receipt
  /\ r.pc = "sth_put" => r.head \in Sth

\* The head a new row at index i must carry.
HeadBefore(i) == IF i = 0 THEN <<>> ELSE HeadHash(i - 1, logEntries[i - 1])

\* What a request's index and head still say of the log.
Placed(r) ==
  /\ r.pc \in {"head", "insert", "sth_sign"} => r.idx <= Size
  /\ r.pc \in {"lookup_legacy", "size"} => r.prev = <<>>
  /\ r.pc = "head" => r.idx > 0
  /\ r.pc = "insert" /\ KeyFree(r.idx) => r.prev = HeadBefore(r.idx)

Requests == \A p \in Instances : WellFormed(req[p]) /\ Placed(req[p])

IInv == TypeOK /\ VerifyLog /\ Requests

-----------------------------------------------------------------------------
(* Lemmas about the tables.                                                *)

\* 0 .. n - 1 has n elements: SELECT COUNT(*) is the next free log_index.
LEMMA IntervalSize ==
  ASSUME NEW n \in Nat
  PROVE  IsFiniteSet(0 .. n - 1) /\ Cardinality(0 .. n - 1) = n
BY FS_Interval, n - 1 \in Int, 0 \in Int

\* Writing one row keeps a table a table.
LEMMA PutType ==
  ASSUME NEW t, NEW keys, NEW rows, IsTable(t, keys, rows), NEW k \in keys, NEW r \in rows
  PROVE  IsTable(Put(t, k, r), keys, rows) /\ IsTable(PutIfAbsent(t, k, r), keys, rows)
BY DEF IsTable, Put, PutIfAbsent

\* Both hashes of a submission are hashes.
LEMMA HashTypes ==
  ASSUME NEW s \in Submissions
  PROVE  EntryHash[s] \in Hashes /\ LegacyHash[s] \in Hashes
BY DEF Hashes

\* A sequence is its first part followed by its last element.
LEMMA SnocFunction ==
  ASSUME NEW S, NEW n \in Nat, NEW f \in [1 .. n + 1 -> S]
  PROVE  Append([j \in 1 .. n |-> f[j]], f[n + 1]) = f
<1> DEFINE g == [j \in 1 .. n |-> f[j]]
<1>1. g \in Seq(S) /\ Len(g) = n /\ f \in Seq(S) /\ Len(f) = n + 1 /\ f[n + 1] \in S
  OBVIOUS
<1>2. /\ Append(g, f[n + 1]) \in Seq(S) /\ Len(Append(g, f[n + 1])) = n + 1
      /\ \A j \in 1 .. n : Append(g, f[n + 1])[j] = g[j]
      /\ Append(g, f[n + 1])[n + 1] = f[n + 1]
  BY <1>1, AppendProperties
<1>3. \A j \in 1 .. n + 1 : Append(g, f[n + 1])[j] = f[j]
  BY <1>2
<1> QED
  BY <1>1, <1>2, <1>3, SeqEqual

\* COUNT(*) over the log is a natural number.
LEMMA SizeType ==
  ASSUME TypeOK
  PROVE  Size \in Nat
BY FS_CardinalityType DEF TypeOK, Size

\* In a contiguous log the k-th row in index order has index k - 1.
LEMMA KthRow ==
  ASSUME NEW n \in Nat, DOMAIN logEntries = 0 .. n - 1, NEW k \in 1 .. n
  PROVE  KthIndex(k) = k - 1
<1> DEFINE below(i) == {j \in DOMAIN logEntries : j < i}
<1>1. ASSUME NEW i \in DOMAIN logEntries
      PROVE  Cardinality(below(i)) = i
  <2>1. i \in Nat /\ below(i) = 0 .. i - 1
    BY <1>1
  <2> QED
    BY <2>1, IntervalSize
<1>2. k - 1 \in DOMAIN logEntries
  OBVIOUS
<1>3. \A i \in DOMAIN logEntries : Cardinality(below(i)) = k - 1 <=> i = k - 1
  BY <1>1
<1> QED
  BY <1>2, <1>3 DEF KthIndex

\* The root of any prefix of a contiguous log is a sequence of leaves.
LEMMA RootType ==
  ASSUME TypeOK, VerifyLog, NEW n \in 0 .. Size
  PROVE  CtRoot(n) \in Seq(CtLeaf)
<1>1. Size \in Nat
  BY SizeType
<1>2. DOMAIN logEntries = 0 .. Size - 1
  BY DEF VerifyLog
<1>3. ASSUME NEW k \in 1 .. n
      PROVE  Leaves[k] \in CtLeaf
  <2>1. k \in 1 .. Size /\ KthIndex(k) = k - 1
    BY <1>1, <1>2, KthRow
  <2>2. Leaves[k] = LeafOf(k - 1)
    BY <2>1 DEF Leaves
  <2>3. k - 1 \in Nat /\ logEntries[k - 1] \in Entry
    BY <1>1, <1>2, <2>1 DEF TypeOK, IsTable
  <2> DEFINE e == logEntries[k - 1]
  <2>4. CASE e \in [kind : {Scitt}, payload_hash : Hashes, prev_log_hash : Chain, logged_at : Time]
    BY <2>2, <2>4 DEF LeafOf, CtLeaf
  <2>5. CASE e \in [kind : {Root}, payload_hash : Anchors, prev_log_hash : Chain, logged_at : Time]
    BY <2>2, <2>3, <2>5 DEF LeafOf, CtLeaf, Scitt, Root
  <2> QED
    BY <2>3, <2>4, <2>5 DEF Entry
<1> QED
  BY <1>1, <1>3, SubSeqProperties DEF CtRoot

-----------------------------------------------------------------------------
(* The invariant holds initially.                                          *)

\* The rows and leaves the migration to Sig_structure hashes left behind have the
\* schema every later read of log_entries expects.
LEMMA MigratedType ==
  ASSUME NEW k \in 1 .. Len(PreMigration)
  PROVE  /\ PreMigration[k] \in Submissions /\ LegacyHash[PreMigration[k]] \in Hashes
         /\ Migrated(k - 1) \in Entry
         /\ MigratedLeaves(k) \in Seq(CtLeaf)
<1>1. PreMigration \in Seq(Submissions) /\ Len(PreMigration) \in Nat
  BY ConstantsOK
<1>2. \A j \in 1 .. Len(PreMigration) :
        PreMigration[j] \in Submissions /\ LegacyHash[PreMigration[j]] \in Hashes
  BY <1>1, HashTypes
<1>3. (CHOOSE t \in Time : TRUE) \in Time
  BY ConstantsOK
<1> DEFINE head == [j \in 1 .. k - 1 |-> <<j - 1, LegacyHash[PreMigration[j]]>>]
<1>4. head \in Seq(Nat \X Payloads)
  <2>1. k - 1 \in Nat /\ \A j \in 1 .. k - 1 : j \in 1 .. Len(PreMigration) /\ j - 1 \in Nat
    BY <1>1
  <2>2. \A j \in 1 .. k - 1 : <<j - 1, LegacyHash[PreMigration[j]]>> \in Nat \X Payloads
    BY <1>2, <2>1 DEF Payloads
  <2> QED
    BY <2>1, <2>2
<1>5. Migrated(k - 1) \in Entry
  BY <1>1, <1>2, <1>3, <1>4 DEF Migrated, Entry, Chain
<1>6. MigratedLeaves(k) \in Seq(CtLeaf)
  <2>1. k \in Nat /\ \A j \in 1 .. k : <<LegacyHash[PreMigration[j]]>> \in CtLeaf
    BY <1>1, <1>2 DEF CtLeaf
  <2> QED
    BY <2>1 DEF MigratedLeaves
<1> QED
  BY <1>2, <1>5, <1>6

\* verify_log accepts the log as the migration found it.
LEMMA InitVerifies ==
  ASSUME Init
  PROVE  Size = Len(PreMigration) /\ VerifyLog
<1> DEFINE N == Len(PreMigration)
<1>1. N \in Nat
  BY ConstantsOK
<1>2. DOMAIN logEntries = 0 .. N - 1 /\ \A i \in 0 .. N - 1 : logEntries[i] = Migrated(i)
  BY <1>1 DEF Init
<1>3. Size = N
  BY <1>1, <1>2, IntervalSize DEF Size
<1>4. ASSUME NEW i \in DOMAIN logEntries
      PROVE  logEntries[i].prev_log_hash =
               IF i = 0 THEN <<>> ELSE HeadHash(i - 1, logEntries[i - 1])
  <2>1. CASE i = 0
    BY <1>2, <2>1 DEF Migrated
  <2>2. CASE i # 0
    <3> DEFINE fold(n) == [j \in 1 .. n |-> <<j - 1, LegacyHash[PreMigration[j]]>>]
    <3>1. i \in Nat /\ i - 1 \in Nat /\ i - 1 \in 0 .. N - 1 /\ i - 1 + 1 = i
      BY <1>1, <1>2, <2>2
    <3>2. logEntries[i].prev_log_hash = fold(i)
      <4>1. logEntries[i] = Migrated(i)
        BY <1>2
      <4> QED
        BY <4>1 DEF Migrated
    <3>3. logEntries[i - 1].prev_log_hash = fold(i - 1)
          /\ logEntries[i - 1].payload_hash = LegacyHash[PreMigration[i]]
      <4>1. logEntries[i - 1] = Migrated(i - 1)
        BY <1>2, <3>1
      <4> QED
        BY <3>1, <4>1 DEF Migrated
    <3>4. Append(fold(i - 1), <<i - 1, LegacyHash[PreMigration[i]]>>) = fold(i)
      <4> DEFINE S == {<<j - 1, LegacyHash[PreMigration[j]]>> : j \in 1 .. i}
                 f == fold(i)
      <4>1. f \in [1 .. i - 1 + 1 -> S]
        BY <3>1
      <4>2. Append([j \in 1 .. i - 1 |-> f[j]], f[i - 1 + 1]) = f
        BY <3>1, <4>1, SnocFunction
      <4>3. [j \in 1 .. i - 1 |-> f[j]] = fold(i - 1) /\ f[i] = <<i - 1, LegacyHash[PreMigration[i]]>>
        BY <3>1
      <4> QED
        BY <3>1, <4>2, <4>3
    <3> QED
      BY <2>2, <3>2, <3>3, <3>4 DEF HeadHash
  <2> QED
    BY <2>1, <2>2
<1> QED
  BY <1>2, <1>3, <1>4 DEF VerifyLog

\* The invariant holds when the first instance starts.
LEMMA InitInvariant == Init => IInv
<1> SUFFICES ASSUME Init PROVE IInv
  OBVIOUS
<1> DEFINE N == Len(PreMigration)
<1>1. N \in Nat
  BY ConstantsOK
<1>2. Size = N /\ VerifyLog
  BY InitVerifies
<1>3. IsTable(logEntries, Nat, Entry) /\ IsFiniteSet(DOMAIN logEntries)
  <2>1. \A i \in 0 .. N - 1 : i \in Nat /\ i + 1 \in 1 .. N /\ i + 1 - 1 = i
    BY <1>1
  <2>2. \A k \in 1 .. N : Migrated(k - 1) \in Entry
    BY MigratedType
  <2>3. \A i \in 0 .. N - 1 : Migrated(i + 1 - 1) \in Entry
    BY <2>1, <2>2
  <2>4. \A i \in 0 .. N - 1 : Migrated(i) \in Entry
    BY <2>1, <2>3
  <2>5. IsFiniteSet(0 .. N - 1)
    BY <1>1, IntervalSize
  <2>6. logEntries = [i \in 0 .. N - 1 |-> Migrated(i)]
    BY DEF Init
  <2> QED
    BY <2>1, <2>4, <2>5, <2>6 DEF IsTable
<1>4. IsTable(statements, Hashes, Receipt)
  <2> DEFINE hashes == {LegacyHash[PreMigration[k]] : k \in 1 .. N}
             row(h) == CHOOSE k \in 1 .. N : h = LegacyHash[PreMigration[k]]
  <2>1. \A h \in hashes : row(h) \in 1 .. N
    OBVIOUS
  <2>2. \A h \in hashes :
          [leaf_index |-> row(h) - 1, tree_size |-> row(h), root |-> MigratedLeaves(row(h))] \in Receipt
    <3>1. \A k \in 1 .. N : k - 1 \in Nat /\ k \in Nat /\ MigratedLeaves(k) \in Seq(CtLeaf)
      BY <1>1, MigratedType
    <3>2. \A k \in 1 .. N :
            [leaf_index |-> k - 1, tree_size |-> k, root |-> MigratedLeaves(k)] \in Receipt
      BY <3>1 DEF Receipt
    <3> QED
      BY <2>1, <3>2
  <2>3. hashes \subseteq Hashes
    BY MigratedType
  <2>4. statements = [h \in hashes |->
          [leaf_index |-> row(h) - 1, tree_size |-> row(h), root |-> MigratedLeaves(row(h))]]
    BY DEF Init
  <2> QED
    BY <2>2, <2>3, <2>4 DEF IsTable
<1>5. NoRequest \in Request
  BY DEF NoRequest, Request, Pcs, Chain
<1>6. IsTable(capsules, Nat, Anchors) /\ IsTable(sthHistory, Nat, Sth)
  BY DEF Init, IsTable
<1>7. req \in [Instances -> Request]
  BY <1>5 DEF Init
<1>8. faults \in 0 .. MaxFaults
  BY ConstantsOK DEF Init
<1>9. TypeOK
  BY <1>3, <1>4, <1>6, <1>7, <1>8 DEF TypeOK, Init
<1>10. Requests
  BY DEF Init, Requests, NoRequest, WellFormed, Placed
<1> QED
  BY <1>2, <1>9, <1>10 DEF IInv

-----------------------------------------------------------------------------
(* The invariant is preserved.  All steps but InsertEntry leave the log    *)
(* alone and move one request, so what the other requests' locals say of   *)
(* the log still holds.                                                    *)

OtherTables ==
  /\ IsTable(statements, Hashes, Receipt)
  /\ subjectIndex \subseteq Hashes
  /\ roots \subseteq Anchors
  /\ IsTable(capsules, Nat, Anchors)
  /\ latestSth \in Sth \cup {None}
  /\ IsTable(sthHistory, Nat, Sth)
  /\ issued \subseteq [submission : Submissions, entry_hash : Hashes, receipt : Receipt]
  /\ faults \in 0 .. MaxFaults

\* A store call that leaves log_entries alone and moves one request to a
\* well-formed state keeps the invariant: what the other requests hold of the log
\* is still so.
LEMMA LogUnchanged ==
  ASSUME IInv, UNCHANGED logEntries, OtherTables',
         NEW p \in Instances, NEW r \in Request, WellFormed(r), Placed(r),
         req' = [req EXCEPT ![p] = r]
  PROVE  IInv'
<1>1. /\ IsTable(logEntries', Nat, Entry) /\ IsFiniteSet(DOMAIN logEntries')
      /\ req \in [Instances -> Request]
  BY DEF IInv, TypeOK
<1>2. req' \in [Instances -> Request]
  BY <1>1
<1>3. TypeOK'
  BY <1>1, <1>2 DEF TypeOK, OtherTables
<1>4. VerifyLog'
  BY DEF IInv, VerifyLog, Size, HeadHash
<1>5. ASSUME NEW q \in Instances
      PROVE  WellFormed(req'[q]) /\ Placed(req[q])'
  <2>1. req'[q] = IF q = p THEN r ELSE req[q]
    BY <1>1
  <2>2. WellFormed(req[q]) /\ Placed(req[q])
    BY DEF IInv, Requests
  <2>3. WellFormed(req'[q])
    BY <2>1, <2>2
  <2>4. CASE q = p
    BY <2>1, <2>4 DEF Placed, KeyFree, HeadBefore, HeadHash, Size
  <2>5. CASE q # p
    BY <2>1, <2>2, <2>5 DEF Placed, KeyFree, HeadBefore, HeadHash, Size
  <2> QED
    BY <2>3, <2>4, <2>5
<1> QED
  BY <1>3, <1>4, <1>5 DEF IInv, Requests, WellFormed, Registers, Countersigns

\* An answered, failed or crashed request leaves its instance idle.
LEMMA IdleRequest ==
  /\ NoRequest \in Request
  /\ WellFormed(NoRequest)
  /\ Placed(NoRequest)
BY DEF NoRequest, Request, Pcs, Chain, WellFormed, Placed

\* A request that advances keeps its record's type.
LEMMA AdvanceType ==
  ASSUME NEW r \in Request, NEW step \in Pcs
  PROVE  /\ [r EXCEPT !.pc = step] \in Request
         /\ [r EXCEPT !.pc = step].pc = step
         /\ [r EXCEPT !.pc = step].op = r.op
         /\ [r EXCEPT !.pc = step].arg = r.arg
         /\ [r EXCEPT !.pc = step].at = r.at
         /\ [r EXCEPT !.pc = step].idx = r.idx
         /\ [r EXCEPT !.pc = step].prev = r.prev
         /\ [r EXCEPT !.pc = step].receipt = r.receipt
         /\ [r EXCEPT !.pc = step].head = r.head
BY DEF Request

\* A request that takes a head hash, a receipt or a tree head keeps its other locals.
LEMMA PrevType ==
  ASSUME NEW r \in Request, NEW h \in Chain, NEW u, u = [r EXCEPT !.prev = h]
  PROVE  /\ u \in Request /\ u.prev = h /\ u.idx = r.idx /\ u.op = r.op /\ u.arg = r.arg
         /\ u.at = r.at
BY DEF Request

\* Storing a receipt in a request changes nothing else of it.
LEMMA ReceiptType ==
  ASSUME NEW r \in Request, NEW h \in Receipt, NEW u, u = [r EXCEPT !.receipt = h]
  PROVE  u \in Request /\ u.receipt = h /\ u.op = r.op /\ u.arg = r.arg
BY DEF Request

\* Nor does storing a head.
LEMMA HeadType ==
  ASSUME NEW r \in Request, NEW h \in Sth, NEW u, u = [r EXCEPT !.head = h]
  PROVE  u \in Request /\ u.head = h /\ u.op = r.op /\ u.arg = r.arg /\ u.receipt = r.receipt
BY DEF Request

\* A request that appends starts with its operation, argument and clock reading.
LEMMA BeginType ==
  ASSUME NEW pc \in {"lookup_legacy", "size"}, NEW op \in {"register", "anchor"},
         NEW arg \in Submissions \cup Anchors, NEW t \in Time,
         op = "register" => arg \in Submissions, op = "anchor" => arg \in Anchors,
         pc = "lookup_legacy" => op = "register",
         NEW r, r = [NoRequest EXCEPT !.pc = pc, !.op = op, !.arg = arg, !.at = t]
  PROVE  r \in Request /\ WellFormed(r) /\ Placed(r)
<1>1. r = [pc |-> pc, op |-> op, arg |-> arg, at |-> t, idx |-> 0, prev |-> <<>>,
           receipt |-> None, head |-> None, from |-> 0]
  BY DEF NoRequest
<1>2. r \in Request
  <2>1. <<>> \in Chain /\ pc \in Pcs
    BY DEF Chain, Pcs
  <2> QED
    BY <1>1, <2>1 DEF Request, Operations
<1>3. r.pc = pc /\ r.op = op /\ r.arg = arg /\ r.at = t /\ r.prev = <<>>
  BY ONLY <1>1
<1>4. WellFormed(r)
  BY <1>3 DEF WellFormed, Registers, Countersigns
<1>5. Placed(r)
  BY <1>3 DEF Placed
<1> QED
  BY <1>2, <1>4, <1>5

\* register_signed_statement_full's dedup lookup, hit or miss, keeps the invariant.
LEMMA RegisterKeeps ==
  ASSUME IInv, NEW p \in Instances, NEW s \in Submissions,
         RegisterCached(p, s) \/ RegisterMiss(p, s)
  PROVE  IInv'
<1> USE HashTypes
<1>1. TypeOK /\ WellFormed(req[p]) /\ Placed(req[p]) /\ req[p] \in Request
  BY DEF IInv, Requests, TypeOK
<1>2. CASE RegisterCached(p, s)
  <2>1. statements[EntryHash[s]] \in Receipt
    BY <1>1, <1>2 DEF RegisterCached, Registered, TypeOK, IsTable
  <2>2. OtherTables'
    BY <1>1, <1>2, <2>1 DEF RegisterCached, Answer, OtherTables, TypeOK, tables
  <2>3. req' = [req EXCEPT ![p] = req[p]]
    BY <1>1, <1>2 DEF RegisterCached, TypeOK
  <2> QED
    BY <1>1, <1>2, <2>2, <2>3, LogUnchanged DEF RegisterCached, tables
<1>3. CASE RegisterMiss(p, s)
  <2>1. PICK t \in Time :
          Begin(p, [NoRequest EXCEPT
                      !.pc = IF EntryHash[s] = LegacyHash[s] THEN "size" ELSE "lookup_legacy",
                      !.op = "register", !.arg = s, !.at = t])
    BY <1>3 DEF RegisterMiss
  <2> DEFINE r == [NoRequest EXCEPT
                     !.pc = IF EntryHash[s] = LegacyHash[s] THEN "size" ELSE "lookup_legacy",
                     !.op = "register", !.arg = s, !.at = t]
  <2>2. r \in Request /\ WellFormed(r) /\ Placed(r)
    <3> DEFINE pc == IF EntryHash[s] = LegacyHash[s] THEN "size" ELSE "lookup_legacy"
    <3>1. pc \in {"lookup_legacy", "size"}
      OBVIOUS
    <3> HIDE DEF pc
    <3> QED
      BY <3>1, BeginType
  <2>3. OtherTables'
    BY <1>1, <1>3 DEF RegisterMiss, OtherTables, TypeOK, tables
  <2> QED
    BY <1>3, <2>1, <2>2, <2>3, LogUnchanged DEF RegisterMiss, Begin, tables
<1> QED
  BY <1>2, <1>3

\* The lookup under the legacy hash keeps the invariant.
LEMMA LookupLegacyKeeps ==
  ASSUME IInv, NEW p \in Instances, LookupLegacy(p)
  PROVE  IInv'
<1> DEFINE s == req[p].arg
<1>1. TypeOK /\ WellFormed(req[p]) /\ Placed(req[p]) /\ req[p] \in Request
  BY DEF IInv, Requests, TypeOK
<1>2. req[p].pc = "lookup_legacy" /\ Registers(req[p]) /\ req[p].at \in Time
  BY <1>1 DEF LookupLegacy, Running, WellFormed
<1>3. LegacyHash[s] \in Hashes
  BY <1>2, HashTypes DEF Registers
<1>4. CASE LegacyHash[s] \in DOMAIN statements
  <2>1. statements[LegacyHash[s]] \in Receipt
    BY <1>1, <1>4 DEF TypeOK, IsTable
  <2>2. OtherTables'
    <3>1. /\ UNCHANGED <<tables, faults>>
          /\ issued' = issued \cup {Answer(s, LegacyHash[s], statements[LegacyHash[s]])}
      BY <1>4 DEF LookupLegacy
    <3>2. Answer(s, LegacyHash[s], statements[LegacyHash[s]])
            \in [submission : Submissions, entry_hash : Hashes, receipt : Receipt]
      BY <1>2, <1>3, <2>1 DEF Answer, Registers
    <3>3. issued' \subseteq [submission : Submissions, entry_hash : Hashes, receipt : Receipt]
      BY <1>1, <3>1, <3>2 DEF TypeOK
    <3> QED
      BY <1>1, <3>1, <3>3 DEF OtherTables, TypeOK, tables
  <2> QED
    BY <1>4, <2>2, LogUnchanged, IdleRequest DEF LookupLegacy, Finish, tables
<1>5. CASE LegacyHash[s] \notin DOMAIN statements
  <2> DEFINE r == [req[p] EXCEPT !.pc = "size"]
  <2>1. /\ r \in Request /\ r.pc = "size" /\ r.op = req[p].op /\ r.arg = req[p].arg
        /\ r.at = req[p].at /\ r.prev = req[p].prev
    <3>1. "size" \in Pcs
      BY DEF Pcs
    <3> QED
      BY <1>1, <3>1, AdvanceType
  <2>2. WellFormed(r)
    BY <1>2, <2>1 DEF WellFormed, Registers
  <2>3. Placed(r)
    BY <1>1, <1>2, <2>1 DEF Placed
  <2>4. OtherTables'
    BY <1>1, <1>5 DEF LookupLegacy, OtherTables, TypeOK, tables
  <2> QED
    BY <1>5, <2>1, <2>2, <2>3, <2>4, LogUnchanged DEF LookupLegacy, Advance, tables
<1> QED
  BY <1>4, <1>5

\* _append_log's size query keeps the invariant: the index read is at most the size.
LEMMA ReadSizeKeeps ==
  ASSUME IInv, NEW p \in Instances, ReadSize(p)
  PROVE  IInv'
<1>1. TypeOK /\ WellFormed(req[p]) /\ Placed(req[p]) /\ req[p] \in Request
  BY DEF IInv, Requests, TypeOK
<1>2. req[p].pc = "size" /\ (Registers(req[p]) \/ Countersigns(req[p])) /\ req[p].at \in Time
  BY <1>1 DEF ReadSize, Running, WellFormed
<1>3. Size \in Nat
  BY <1>1, SizeType
<1> DEFINE step == IF Size > 0 THEN "head" ELSE "insert"
           r0 == [req[p] EXCEPT !.idx = Size]
           r == [r0 EXCEPT !.pc = step]
<1>4. r0 \in Request /\ r0.idx = Size /\ r0.op = req[p].op /\ r0.arg = req[p].arg
      /\ r0.at = req[p].at /\ r0.prev = req[p].prev
  BY <1>1, <1>3 DEF Request
<1>5. step \in Pcs /\ step \in {"head", "insert"}
  BY DEF Pcs
<1>6. /\ r \in Request /\ r.pc = step /\ r.idx = Size /\ r.op = req[p].op
      /\ r.arg = req[p].arg /\ r.at = req[p].at /\ r.prev = req[p].prev
  BY <1>4, <1>5, AdvanceType
<1>7. WellFormed(r)
  BY <1>2, <1>5, <1>6 DEF WellFormed, Registers, Countersigns
<1>8. Placed(r)
  <2>1. CASE Size > 0
    BY <1>3, <1>6, <2>1 DEF Placed
  <2>2. CASE ~(Size > 0)
    BY <1>1, <1>2, <1>3, <1>6, <2>2 DEF Placed, HeadBefore
  <2> QED
    BY <2>1, <2>2
<1>9. OtherTables'
  BY <1>1 DEF ReadSize, OtherTables, TypeOK, tables
<1> QED
  BY <1>6, <1>7, <1>8, <1>9, LogUnchanged DEF ReadSize, Advance, tables

\* _append_log's head query keeps the invariant: if the index is still free, no
\* row came between the two queries, and the last row is the one before it.
LEMMA ReadHeadKeeps ==
  ASSUME IInv, NEW p \in Instances, ReadHead(p)
  PROVE  IInv'
<1>1. TypeOK /\ VerifyLog /\ WellFormed(req[p]) /\ Placed(req[p]) /\ req[p] \in Request
  BY DEF IInv, Requests, TypeOK
<1>2. /\ req[p].pc = "head" /\ (Registers(req[p]) \/ Countersigns(req[p])) /\ req[p].at \in Time
      /\ req[p].idx \in Nat /\ 0 < req[p].idx /\ req[p].idx <= Size
  <2>1. req[p].pc = "head"
    BY DEF ReadHead, Running
  <2>2. req[p].idx \in Nat
    BY <1>1 DEF Request
  <2> QED
    BY <1>1, <2>1, <2>2 DEF WellFormed, Placed
<1>3. Size \in Nat /\ DOMAIN logEntries = 0 .. Size - 1
  BY <1>1, SizeType DEF VerifyLog
<1>4. Size - 1 \in DOMAIN logEntries /\ Size \in 1 .. Size
  BY <1>2, <1>3
<1>5. KthIndex(Size) = Size - 1
  BY <1>3, <1>4, KthRow
<1> DEFINE head == HeadHash(Size - 1, logEntries[Size - 1])
<1>6. head \in Chain
  <2>1. Size - 1 \in Nat /\ logEntries[Size - 1] \in Entry
    BY <1>1, <1>3, <1>4 DEF TypeOK, IsTable
  <2>2. logEntries[Size - 1].payload_hash \in Payloads /\ logEntries[Size - 1].prev_log_hash \in Chain
    BY <2>1 DEF Entry, Payloads
  <2> QED
    BY <2>1, <2>2, AppendProperties DEF HeadHash, Chain
<1> DEFINE r0 == [req[p] EXCEPT !.prev = head]
           r == [r0 EXCEPT !.pc = "insert"]
<1>7. req' = [req EXCEPT ![p] = r]
  BY <1>5 DEF ReadHead, Advance
<1> HIDE DEF head
<1>8. /\ r0 \in Request /\ r0.idx = req[p].idx /\ r0.op = req[p].op /\ r0.arg = req[p].arg
      /\ r0.at = req[p].at /\ r0.prev = head
  BY <1>1, <1>6, PrevType
<1>9. /\ r \in Request /\ r.pc = "insert" /\ r.idx = req[p].idx /\ r.op = req[p].op
      /\ r.arg = req[p].arg /\ r.at = req[p].at /\ r.prev = head
  <2>1. "insert" \in Pcs
    BY DEF Pcs
  <2> HIDE DEF r0
  <2> QED
    BY <1>8, <2>1, AdvanceType
<1>10. WellFormed(r)
  BY <1>2, <1>9 DEF WellFormed, Registers, Countersigns
<1>11. Placed(r)
  <2>1. KeyFree(r.idx) => r.idx = Size
    BY <1>2, <1>3, <1>9 DEF KeyFree
  <2>2. r.idx = Size => HeadBefore(r.idx) = head
    BY <1>2, <1>9 DEF HeadBefore, head
  <2> QED
    BY <1>2, <1>9, <2>1, <2>2 DEF Placed
<1>12. OtherTables'
  BY <1>1 DEF ReadHead, OtherTables, TypeOK, tables
<1> QED
  BY <1>7, <1>9, <1>10, <1>11, <1>12, LogUnchanged DEF ReadHead, tables

\* The row a request appends has the schema of log_entries.
LEMMA NewEntryType ==
  ASSUME NEW r \in Request, Registers(r) \/ Countersigns(r), r.at \in Time
  PROVE  NewEntry(r) \in Entry /\ NewEntry(r).prev_log_hash = r.prev
<1>1. r.prev \in Chain
  BY DEF Request
<1>2. CASE Registers(r)
  BY <1>1, <1>2, HashTypes DEF Registers, NewEntry, Entry
<1>3. CASE Countersigns(r)
  BY <1>1, <1>3 DEF Countersigns, NewEntry, Entry
<1> QED
  BY <1>2, <1>3

\* The only step that writes the log.  The primary key admits the row only
\* at the next index, so the head the request read is still the last one.
LEMMA InsertEntryKeeps ==
  ASSUME IInv, NEW p \in Instances, InsertEntry(p)
  PROVE  IInv'
<1>1. TypeOK /\ VerifyLog /\ WellFormed(req[p]) /\ Placed(req[p]) /\ req[p] \in Request
  BY DEF IInv, Requests, TypeOK
<1> DEFINE n == Size
           i == req[p].idx
           e == NewEntry(req[p])
<1>2. n \in Nat /\ DOMAIN logEntries = 0 .. n - 1
  BY <1>1, SizeType DEF VerifyLog
<1>3. /\ req[p].pc = "insert" /\ (Registers(req[p]) \/ Countersigns(req[p])) /\ req[p].at \in Time
      /\ i \in Nat /\ i <= n /\ KeyFree(i) /\ req[p].prev = HeadBefore(i)
  <2>1. req[p].pc = "insert" /\ KeyFree(i)
    BY DEF InsertEntry, Running
  <2>2. i \in Nat
    BY <1>1 DEF Request
  <2> QED
    BY <1>1, <2>1, <2>2 DEF WellFormed, Placed
<1>4. i = n
  BY <1>2, <1>3 DEF KeyFree
<1>5. e \in Entry /\ e.prev_log_hash = HeadBefore(n)
  BY <1>1, <1>3, <1>4, NewEntryType
<1>6. logEntries' = Put(logEntries, n, e)
  BY <1>4 DEF InsertEntry
<1> HIDE DEF e
<1>7. /\ DOMAIN logEntries' = 0 .. n
      /\ logEntries'[n] = e
      /\ \A j \in 0 .. n - 1 : logEntries'[j] = logEntries[j]
  BY <1>2, <1>6 DEF Put
<1>8. Size' = n + 1 /\ IsFiniteSet(DOMAIN logEntries')
  <2>1. PICK m \in Nat : m = n + 1
    BY <1>2
  <2>2. IsFiniteSet(0 .. m - 1) /\ Cardinality(0 .. m - 1) = m
    BY ONLY IntervalSize
  <2>3. 0 .. n = 0 .. m - 1
    BY <1>2, <2>1
  <2> QED
    BY <1>7, <2>1, <2>2, <2>3 DEF Size
<1>9. VerifyLog'
  <2>1. DOMAIN logEntries' = 0 .. Size' - 1
    BY <1>2, <1>7, <1>8
  <2>2. ASSUME NEW j \in 0 .. n
        PROVE  logEntries'[j].prev_log_hash =
                 IF j = 0 THEN <<>> ELSE HeadHash(j - 1, logEntries'[j - 1])
    <3>1. j # 0 => j - 1 \in 0 .. n - 1 /\ logEntries'[j - 1] = logEntries[j - 1]
      BY <1>2, <1>7
    <3>2. CASE j = n
      BY <1>5, <1>7, <3>1, <3>2 DEF HeadBefore
    <3>3. CASE j # n
      <4>1. j \in DOMAIN logEntries /\ logEntries'[j] = logEntries[j]
        BY <1>2, <1>7, <3>3
      <4> QED
        BY <1>1, <3>1, <4>1 DEF VerifyLog
    <3> QED
      BY <3>2, <3>3
  <2> QED
    BY <1>7, <2>1, <2>2 DEF VerifyLog, HeadHash
<1> DEFINE step == IF req[p].op = "register" THEN "receipt" ELSE "put_root"
           r == [req[p] EXCEPT !.pc = step]
<1>10. step \in Pcs /\ step \in {"receipt", "put_root"}
  BY DEF Pcs
<1>11. r \in Request /\ r.pc = step /\ r.op = req[p].op /\ r.arg = req[p].arg
  BY <1>1, <1>10, AdvanceType
<1>12. WellFormed(r)
  BY <1>3, <1>11 DEF WellFormed, Registers, Countersigns
<1>13. req' = [req EXCEPT ![p] = r]
  BY DEF InsertEntry, Advance
<1> HIDE DEF r
<1>14. TypeOK'
  <2>1. IsTable(logEntries', Nat, Entry)
    BY <1>1, <1>2, <1>5, <1>6, PutType DEF TypeOK
  <2>2. req' \in [Instances -> Request]
    BY <1>1, <1>11, <1>13 DEF TypeOK
  <2> QED
    BY <1>1, <1>8, <2>1, <2>2 DEF InsertEntry, TypeOK
<1>15. ASSUME NEW q \in Instances
       PROVE  WellFormed(req[q])' /\ Placed(req[q])'
  <2>1. WellFormed(req[q]) /\ Placed(req[q]) /\ req[q] \in Request
    BY <1>1 DEF IInv, Requests, TypeOK
  <2>2. CASE q = p
    <3>1. req'[q] = r
      BY <1>1, <1>13, <2>2 DEF TypeOK
    <3>2. WellFormed(req[q])'
      BY <1>12, <3>1 DEF WellFormed, Registers, Countersigns
    <3>3. Placed(req[q])'
      BY <1>10, <1>11, <3>1 DEF Placed
    <3> QED
      BY <3>2, <3>3
  <2>3. CASE q # p
    <3>1. req'[q] = req[q]
      BY <1>1, <1>13, <2>3 DEF TypeOK
    <3>2. WellFormed(req[q])'
      BY <2>1, <3>1 DEF WellFormed, Registers, Countersigns
    <3>3. req[q].idx \in Nat /\ (req[q].idx <= n => req[q].idx \in DOMAIN logEntries')
      BY <1>2, <1>7, <2>1 DEF Request
    <3>4. Placed(req[q])'
      BY <1>2, <1>8, <2>1, <3>1, <3>3 DEF Placed, KeyFree
    <3> QED
      BY <3>2, <3>4
  <2> QED
    BY <2>2, <2>3
<1> QED
  BY <1>9, <1>14, <1>15 DEF IInv, Requests

\* A primary key violation in append_entry keeps the invariant.
LEMMA InsertConflictKeeps ==
  ASSUME IInv, NEW p \in Instances, InsertConflict(p)
  PROVE  IInv'
<1>1. OtherTables'
  BY DEF IInv, InsertConflict, OtherTables, TypeOK, tables
<1> QED
  BY <1>1, IdleRequest, LogUnchanged DEF InsertConflict, Finish, tables

\* Signing the receipt keeps the invariant.
LEMMA BuildReceiptKeeps ==
  ASSUME IInv, NEW p \in Instances, BuildReceipt(p)
  PROVE  IInv'
<1>1. TypeOK /\ VerifyLog /\ WellFormed(req[p]) /\ req[p] \in Request
  BY DEF IInv, Requests, TypeOK
<1>2. req[p].pc = "receipt" /\ Registers(req[p])
  BY <1>1 DEF BuildReceipt, Running, WellFormed
<1> DEFINE receipt == ReceiptFor(req[p].idx)
           r0 == [req[p] EXCEPT !.receipt = receipt]
           r == [r0 EXCEPT !.pc = "put_statement"]
<1>3. receipt \in Receipt
  <2>1. Size \in Nat /\ req[p].idx \in Nat
    BY <1>1, SizeType DEF Request
  <2>2. CtRoot(Size) \in Seq(CtLeaf)
    BY <1>1, <2>1, RootType
  <2> QED
    BY <2>1, <2>2 DEF ReceiptFor, Receipt
<1>4. req' = [req EXCEPT ![p] = r]
  BY DEF BuildReceipt, Advance
<1> HIDE DEF receipt
<1>5. r0 \in Request /\ r0.receipt = receipt /\ r0.op = req[p].op /\ r0.arg = req[p].arg
  BY <1>1, <1>3, ReceiptType
<1>6. /\ r \in Request /\ r.pc = "put_statement" /\ r.receipt = receipt /\ r.op = req[p].op
      /\ r.arg = req[p].arg
  <2>1. "put_statement" \in Pcs
    BY DEF Pcs
  <2> HIDE DEF r0
  <2> QED
    BY <1>5, <2>1, AdvanceType
<1>7. WellFormed(r)
  BY <1>2, <1>3, <1>6 DEF WellFormed, Registers
<1>8. Placed(r)
  BY <1>6 DEF Placed
<1>9. OtherTables'
  BY <1>1 DEF BuildReceipt, OtherTables, TypeOK, tables
<1> QED
  BY <1>4, <1>6, <1>7, <1>8, <1>9, LogUnchanged DEF BuildReceipt, tables

\* put_statement keeps the invariant.
LEMMA PutStatementKeeps ==
  ASSUME IInv, NEW p \in Instances, PutStatement(p)
  PROVE  IInv'
<1>1. TypeOK /\ WellFormed(req[p]) /\ req[p] \in Request
  BY DEF IInv, Requests, TypeOK
<1>2. req[p].pc = "put_statement" /\ Registers(req[p]) /\ req[p].receipt \in Receipt
  BY <1>1 DEF PutStatement, Running, WellFormed
<1> DEFINE step == AfterStatement(req[p].arg)
           r == [req[p] EXCEPT !.pc = step]
<1>3. step \in Pcs /\ step \in {"put_subject", "sth_size"}
  BY DEF AfterStatement, Pcs
<1>4. req' = [req EXCEPT ![p] = r]
  BY DEF PutStatement, Advance
<1> HIDE DEF step
<1>5. /\ r \in Request /\ r.pc = step /\ r.op = req[p].op /\ r.arg = req[p].arg
      /\ r.receipt = req[p].receipt
  BY <1>1, <1>3, AdvanceType
<1>6. WellFormed(r)
  BY <1>2, <1>3, <1>5 DEF WellFormed, Registers
<1>7. Placed(r)
  BY <1>3, <1>5 DEF Placed
<1>8. IsTable(statements', Hashes, Receipt)
  BY <1>1, <1>2, HashTypes, PutType DEF PutStatement, Registers, TypeOK
<1>9. OtherTables'
  BY <1>1, <1>8 DEF PutStatement, OtherTables, TypeOK
<1> QED
  BY <1>4, <1>5, <1>6, <1>7, <1>9, LogUnchanged DEF PutStatement

\* put_subject_index keeps the invariant.
LEMMA PutSubjectKeeps ==
  ASSUME IInv, NEW p \in Instances, PutSubject(p)
  PROVE  IInv'
<1>1. TypeOK /\ WellFormed(req[p]) /\ req[p] \in Request
  BY DEF IInv, Requests, TypeOK
<1>2. req[p].pc = "put_subject" /\ Registers(req[p]) /\ req[p].receipt \in Receipt
  BY <1>1 DEF PutSubject, Running, WellFormed
<1> DEFINE r == [req[p] EXCEPT !.pc = "sth_size"]
<1>3. /\ r \in Request /\ r.pc = "sth_size" /\ r.op = req[p].op /\ r.arg = req[p].arg
      /\ r.receipt = req[p].receipt
  BY <1>1, AdvanceType DEF Pcs
<1>4. WellFormed(r)
  BY <1>2, <1>3 DEF WellFormed, Registers
<1>5. Placed(r)
  BY <1>3 DEF Placed
<1>6. OtherTables'
  BY <1>1, <1>2, HashTypes DEF PutSubject, Registers, OtherTables, TypeOK
<1> QED
  BY <1>3, <1>4, <1>5, <1>6, LogUnchanged DEF PutSubject, Advance

\* The start of anchor keeps the invariant.
LEMMA AnchorKeeps ==
  ASSUME IInv, NEW p \in Instances, NEW a \in Anchors, Anchor(p, a)
  PROVE  IInv'
<1>1. PICK t \in Time :
        Begin(p, [NoRequest EXCEPT !.pc = "size", !.op = "anchor", !.arg = a, !.at = t])
  BY DEF Anchor
<1> DEFINE r == [NoRequest EXCEPT !.pc = "size", !.op = "anchor", !.arg = a, !.at = t]
<1>2. r \in Request /\ WellFormed(r) /\ Placed(r)
  BY BeginType
<1>3. OtherTables'
  BY DEF IInv, Anchor, OtherTables, TypeOK, tables
<1> QED
  BY <1>1, <1>2, <1>3, LogUnchanged DEF Anchor, Begin, tables

\* put_root keeps the invariant.
LEMMA PutRootKeeps ==
  ASSUME IInv, NEW p \in Instances, PutRoot(p)
  PROVE  IInv'
<1>1. TypeOK /\ WellFormed(req[p]) /\ req[p] \in Request
  BY DEF IInv, Requests, TypeOK
<1>2. req[p].pc = "put_root" /\ Countersigns(req[p])
  BY <1>1 DEF PutRoot, Running, WellFormed
<1>3. OtherTables'
  BY <1>1, <1>2 DEF PutRoot, Countersigns, OtherTables, TypeOK
<1>4. CASE req[p].arg \in WithCapsule
  <2> DEFINE r == [req[p] EXCEPT !.pc = "put_capsule"]
  <2>1. r \in Request /\ r.pc = "put_capsule" /\ r.op = req[p].op /\ r.arg = req[p].arg
    BY <1>1, AdvanceType DEF Pcs
  <2>2. WellFormed(r)
    BY <1>2, <2>1 DEF WellFormed, Countersigns
  <2>3. Placed(r)
    BY <2>1 DEF Placed
  <2> QED
    BY <1>3, <1>4, <2>1, <2>2, <2>3, LogUnchanged DEF PutRoot, Advance
<1>5. CASE req[p].arg \notin WithCapsule
  BY <1>3, <1>5, IdleRequest, LogUnchanged DEF PutRoot, Finish
<1> QED
  BY <1>4, <1>5

\* put_capsule_id keeps the invariant.
LEMMA PutCapsuleKeeps ==
  ASSUME IInv, NEW p \in Instances, PutCapsule(p)
  PROVE  IInv'
<1>1. TypeOK /\ WellFormed(req[p]) /\ req[p] \in Request
  BY DEF IInv, Requests, TypeOK
<1>2. req[p].arg \in Anchors /\ req[p].idx \in Nat
  BY <1>1 DEF PutCapsule, Running, WellFormed, Countersigns, Request
<1>3. IsTable(capsules', Nat, Anchors)
  BY <1>1, <1>2, PutType DEF PutCapsule, TypeOK
<1>4. OtherTables'
  BY <1>1, <1>3 DEF PutCapsule, OtherTables, TypeOK
<1> QED
  BY <1>4, IdleRequest, LogUnchanged DEF PutCapsule, Finish

\* A get_sth starts with the head it read.
LEMMA GetSthType ==
  ASSUME NEW h \in Sth \cup {None}, NEW n \in Nat,
         NEW r, r = [NoRequest EXCEPT !.pc = "sth_compare", !.op = "get_sth", !.head = h, !.from = n]
  PROVE  r \in Request /\ r.pc = "sth_compare" /\ r.op = "get_sth"
<1>1. r = [pc |-> "sth_compare", op |-> "get_sth", arg |-> None, at |-> None, idx |-> 0,
           prev |-> <<>>, receipt |-> None, head |-> h, from |-> n]
  BY DEF NoRequest
<1>2. <<>> \in Chain /\ "sth_compare" \in Pcs
  BY DEF Chain, Pcs
<1>3. r \in Request
  BY <1>1, <1>2 DEF Request, Operations
<1>4. r.pc = "sth_compare" /\ r.op = "get_sth"
  BY ONLY <1>1
<1> QED
  BY <1>3, <1>4

\* The refresh daemon starts at the size to sign.
LEMMA RefreshType ==
  ASSUME NEW r, r = [NoRequest EXCEPT !.pc = "sth_size", !.op = "refresh"]
  PROVE  r \in Request /\ r.pc = "sth_size" /\ r.op = "refresh"
<1>1. r = [pc |-> "sth_size", op |-> "refresh", arg |-> None, at |-> None, idx |-> 0,
           prev |-> <<>>, receipt |-> None, head |-> None, from |-> 0]
  BY DEF NoRequest
<1>2. <<>> \in Chain /\ "sth_size" \in Pcs
  BY DEF Chain, Pcs
<1>3. r \in Request
  BY <1>1, <1>2 DEF Request, Operations
<1>4. r.pc = "sth_size" /\ r.op = "refresh"
  BY ONLY <1>1
<1> QED
  BY <1>3, <1>4

\* get_sth's first reads keep the invariant.
LEMMA GetSthKeeps ==
  ASSUME IInv, NEW p \in Instances, GetSth(p)
  PROVE  IInv'
<1> DEFINE r == [NoRequest EXCEPT !.pc = "sth_compare", !.op = "get_sth",
                                  !.head = latestSth, !.from = Size]
<1>1. TypeOK /\ Size \in Nat /\ latestSth \in Sth \cup {None}
  BY SizeType DEF IInv, TypeOK
<1>2. req' = [req EXCEPT ![p] = r]
  BY DEF GetSth, Begin
<1>3. r \in Request /\ r.pc = "sth_compare" /\ r.op = "get_sth"
  BY <1>1, GetSthType
<1> HIDE DEF r
<1>4. WellFormed(r) /\ Placed(r)
  BY <1>3 DEF WellFormed, Placed
<1>5. OtherTables'
  BY <1>1 DEF GetSth, OtherTables, TypeOK, tables
<1> QED
  BY <1>2, <1>3, <1>4, <1>5, LogUnchanged DEF GetSth, tables

\* The refresh daemon's start of refresh_sth keeps the invariant.
LEMMA RefreshSthKeeps ==
  ASSUME IInv, NEW p \in Instances, RefreshSth(p)
  PROVE  IInv'
<1> DEFINE r == [NoRequest EXCEPT !.pc = "sth_size", !.op = "refresh"]
<1>1. req' = [req EXCEPT ![p] = r]
  BY DEF RefreshSth, Begin
<1>2. r \in Request /\ r.pc = "sth_size" /\ r.op = "refresh"
  BY RefreshType
<1> HIDE DEF r
<1>3. WellFormed(r) /\ Placed(r)
  BY <1>2 DEF WellFormed, Placed
<1>4. OtherTables'
  BY DEF IInv, RefreshSth, OtherTables, TypeOK, tables
<1> QED
  BY <1>1, <1>2, <1>3, <1>4, LogUnchanged DEF RefreshSth, tables

\* get_sth's choice between the persisted head and a new one keeps the invariant.
LEMMA CompareSthKeeps ==
  ASSUME IInv, NEW p \in Instances, CompareSth(p)
  PROVE  IInv'
<1>1. TypeOK /\ WellFormed(req[p]) /\ req[p] \in Request
  BY DEF IInv, Requests, TypeOK
<1>2. req[p].op # "register"
  BY <1>1 DEF CompareSth, Running, WellFormed
<1>3. OtherTables'
  BY <1>1 DEF CompareSth, OtherTables, TypeOK, tables
<1>4. CASE Finish(p)
  BY <1>3, <1>4, IdleRequest, LogUnchanged DEF CompareSth, Finish, tables
<1>5. CASE Advance(p, "sth_size", req[p])
  <2> DEFINE r == [req[p] EXCEPT !.pc = "sth_size"]
  <2>1. r \in Request /\ r.pc = "sth_size" /\ r.op = req[p].op
    BY <1>1, AdvanceType DEF Pcs
  <2>2. WellFormed(r) /\ Placed(r)
    BY <1>2, <2>1 DEF WellFormed, Placed
  <2> QED
    BY <1>3, <1>5, <2>1, <2>2, LogUnchanged DEF CompareSth, Advance, tables
<1> QED
  BY <1>4, <1>5 DEF CompareSth

\* _sign_and_persist_sth's size query keeps the invariant.
LEMMA ReadSthSizeKeeps ==
  ASSUME IInv, NEW p \in Instances, ReadSthSize(p)
  PROVE  IInv'
<1>1. TypeOK /\ WellFormed(req[p]) /\ req[p] \in Request /\ Size \in Nat
  BY SizeType DEF IInv, Requests, TypeOK
<1>2. req[p].op = "register" => req[p].arg \in Submissions /\ req[p].receipt \in Receipt
  BY <1>1 DEF ReadSthSize, Running, WellFormed
<1> DEFINE r0 == [req[p] EXCEPT !.idx = Size]
           r == [r0 EXCEPT !.pc = "sth_sign"]
<1>3. /\ r0 \in Request /\ r0.idx = Size /\ r0.op = req[p].op /\ r0.arg = req[p].arg
      /\ r0.receipt = req[p].receipt
  BY <1>1 DEF Request
<1>4. /\ r \in Request /\ r.pc = "sth_sign" /\ r.idx = Size /\ r.op = req[p].op
      /\ r.arg = req[p].arg /\ r.receipt = req[p].receipt
  <2>1. "sth_sign" \in Pcs
    BY DEF Pcs
  <2> HIDE DEF r0
  <2> QED
    BY <1>3, <2>1, AdvanceType
<1>5. WellFormed(r)
  BY <1>2, <1>4 DEF WellFormed
<1>6. Placed(r)
  BY <1>1, <1>4 DEF Placed
<1>7. OtherTables'
  BY <1>1 DEF ReadSthSize, OtherTables, TypeOK, tables
<1> QED
  BY <1>4, <1>5, <1>6, <1>7, LogUnchanged DEF ReadSthSize, Advance, tables

\* Signing a tree head at a size read before keeps the invariant: the log still
\* has that many leaves.
LEMMA SignSthKeeps ==
  ASSUME IInv, NEW p \in Instances, SignSth(p)
  PROVE  IInv'
<1>1. TypeOK /\ VerifyLog /\ WellFormed(req[p]) /\ Placed(req[p]) /\ req[p] \in Request
      /\ Size \in Nat
  BY SizeType DEF IInv, Requests, TypeOK
<1>2. req[p].op = "register" => req[p].arg \in Submissions /\ req[p].receipt \in Receipt
  BY <1>1 DEF SignSth, Running, WellFormed
<1>3. req[p].idx \in 0 .. Size
  <2>1. req[p].idx \in Nat
    BY <1>1 DEF Request
  <2> QED
    BY <1>1, <2>1 DEF SignSth, Running, Placed
<1>4. PICK t \in Time : Advance(p, "sth_put", [req[p] EXCEPT !.head = HeadAt(req[p].idx, t)])
  BY DEF SignSth
<1> DEFINE h == HeadAt(req[p].idx, t)
           r0 == [req[p] EXCEPT !.head = h]
           r == [r0 EXCEPT !.pc = "sth_put"]
<1>5. h \in Sth
  <2>1. CtRoot(req[p].idx) \in Seq(CtLeaf) /\ req[p].idx \in Nat
    BY <1>1, <1>3, RootType
  <2> QED
    BY <2>1 DEF HeadAt, Sth
<1>6. req' = [req EXCEPT ![p] = r]
  BY <1>4 DEF Advance
<1> HIDE DEF h
<1>7. /\ r0 \in Request /\ r0.head = h /\ r0.op = req[p].op /\ r0.arg = req[p].arg
      /\ r0.receipt = req[p].receipt
  BY <1>1, <1>5, HeadType
<1>8. /\ r \in Request /\ r.pc = "sth_put" /\ r.head = h /\ r.op = req[p].op
      /\ r.arg = req[p].arg /\ r.receipt = req[p].receipt
  <2>1. "sth_put" \in Pcs
    BY DEF Pcs
  <2> HIDE DEF r0
  <2> QED
    BY <1>7, <2>1, AdvanceType
<1>9. WellFormed(r)
  BY <1>2, <1>5, <1>8 DEF WellFormed
<1>10. Placed(r)
  BY <1>8 DEF Placed
<1>11. OtherTables'
  BY <1>1 DEF SignSth, OtherTables, TypeOK, tables
<1> QED
  BY <1>6, <1>8, <1>9, <1>10, <1>11, LogUnchanged DEF SignSth, tables

\* put_sth keeps the invariant.
LEMMA PutSthKeeps ==
  ASSUME IInv, NEW p \in Instances, PutSth(p)
  PROVE  IInv'
<1>1. TypeOK /\ WellFormed(req[p])
  BY DEF IInv, Requests, TypeOK
<1>2. /\ req[p].head \in Sth
      /\ req[p].op = "register" => req[p].arg \in Submissions /\ req[p].receipt \in Receipt
  BY <1>1 DEF PutSth, Running, WellFormed
<1>3. latestSth' \in Sth \cup {None}
  BY <1>1, <1>2 DEF PutSth, TypeOK
<1>4. IsTable(sthHistory', Nat, Sth)
  <2>1. req[p].head.tree_size \in Nat
    BY <1>2 DEF Sth
  <2> QED
    BY <1>1, <1>2, <2>1, PutType DEF PutSth, TypeOK
<1>5. issued' \subseteq [submission : Submissions, entry_hash : Hashes, receipt : Receipt]
  BY <1>1, <1>2, HashTypes DEF PutSth, Answer, TypeOK
<1>6. OtherTables'
  BY <1>1, <1>3, <1>4, <1>5 DEF PutSth, OtherTables, TypeOK
<1> QED
  BY <1>6, IdleRequest, LogUnchanged DEF PutSth, Finish

\* prune_expired_statements keeps the invariant.
LEMMA PruneKeeps ==
  ASSUME IInv, NEW p \in Instances, Prune(p)
  PROVE  IInv'
<1>1. TypeOK /\ WellFormed(req[p]) /\ Placed(req[p]) /\ req[p] \in Request
  BY DEF IInv, Requests, TypeOK
<1>2. IsTable(statements', Hashes, Receipt)
  BY <1>1 DEF Prune, TypeOK, IsTable
<1>3. OtherTables'
  BY <1>1, <1>2 DEF Prune, OtherTables, TypeOK
<1>4. req' = [req EXCEPT ![p] = req[p]]
  BY <1>1 DEF Prune, TypeOK
<1> QED
  BY <1>1, <1>3, <1>4, LogUnchanged DEF Prune

\* A store error or a crash between any two store calls keeps the invariant.
LEMMA FailKeeps ==
  ASSUME IInv, NEW p \in Instances, Fail(p)
  PROVE  IInv'
<1>1. faults' \in 0 .. MaxFaults
  BY ConstantsOK DEF IInv, TypeOK, Fail
<1>2. OtherTables'
  BY <1>1 DEF IInv, Fail, OtherTables, TypeOK, tables
<1> QED
  BY <1>2, IdleRequest, LogUnchanged DEF Fail, Finish, tables

\* A step of nothing keeps the invariant.
LEMMA StutterKeeps ==
  ASSUME IInv, UNCHANGED vars
  PROVE  IInv'
BY DEF IInv, TypeOK, VerifyLog, Requests, WellFormed, Registers, Countersigns, Placed,
       KeyFree, HeadBefore, HeadHash, Size, vars, tables

-----------------------------------------------------------------------------

\* Every store call of every operation keeps the invariant, whatever the other
\* instances' requests are in the middle of.
THEOREM Inductive == IInv /\ [Next]_vars => IInv'
<1> SUFFICES ASSUME IInv, [Next]_vars PROVE IInv'
  OBVIOUS
<1>1. CASE UNCHANGED vars
  BY <1>1, StutterKeeps
<1>2. ASSUME NEW p \in Instances, NEW s \in Submissions, RegisterCached(p, s) \/ RegisterMiss(p, s)
      PROVE  IInv'
  BY <1>2, RegisterKeeps
<1>3. ASSUME NEW p \in Instances, NEW a \in Anchors, Anchor(p, a)
      PROVE  IInv'
  BY <1>3, AnchorKeeps
<1>4. ASSUME NEW p \in Instances, GetSth(p) \/ RefreshSth(p) \/ Prune(p) \/ Fail(p)
      PROVE  IInv'
  BY <1>4, GetSthKeeps, RefreshSthKeeps, PruneKeeps, FailKeeps
<1>5. ASSUME NEW p \in Instances, Step(p)
      PROVE  IInv'
  BY <1>5, LookupLegacyKeeps, ReadSizeKeeps, ReadHeadKeeps, InsertEntryKeeps, InsertConflictKeeps,
     BuildReceiptKeeps, PutStatementKeeps, PutSubjectKeeps, PutRootKeeps, PutCapsuleKeeps,
     CompareSthKeeps, ReadSthSizeKeeps, SignSthKeeps, PutSthKeeps DEF Step
<1> QED
  BY <1>1, <1>2, <1>3, <1>4, <1>5 DEF Next

\* The invariant holds in every state N instances over one database reach,
\* whatever they interleave and wherever they fail.
THEOREM Invariance == Spec => []IInv
BY InitInvariant, Inductive, PTL DEF Spec

\* Whatever N instances do, and wherever they fail, every table holds rows of
\* its schema and every request the locals its next store call needs.
THEOREM TypeCorrect == Spec => []TypeOK
<1>1. IInv => TypeOK
  BY DEF IInv
<1> QED
  BY <1>1, Invariance, PTL

\* verify_log accepts the log at every moment, for any number of instances
\* appending through _append_log's two reads and one keyed insert.
THEOREM LogVerifies == Spec => []VerifyLog
<1>1. IInv => VerifyLog
  BY DEF IInv
<1> QED
  BY <1>1, Invariance, PTL
\* put_sth's ON CONFLICT DO NOTHING is the only way into the history, so the
\* root first signed at a size stays the one get_sth_at returns.
THEOREM HistoryIsImmutable == Spec => HistoryImmutable
<1> DEFINE Kept == \A n \in DOMAIN sthHistory :
                     n \in DOMAIN sthHistory' /\ sthHistory'[n] = sthHistory[n]
<1>1. [Next]_vars => [Kept]_vars
  <2> SUFFICES ASSUME [Next]_vars PROVE Kept
    OBVIOUS
  <2>1. CASE UNCHANGED sthHistory
    BY <2>1
  <2>2. ASSUME NEW p \in Instances, PutSth(p)
        PROVE  Kept
    BY <2>2 DEF PutSth, PutIfAbsent, Put
  <2>3. UNCHANGED sthHistory \/ \E p \in Instances : PutSth(p)
    BY DEF Next, Step, vars, tables, RegisterCached, RegisterMiss, Anchor, GetSth, RefreshSth,
       Prune, Fail, LookupLegacy, ReadSize, ReadHead, InsertEntry, InsertConflict, BuildReceipt,
       PutStatement, PutSubject, PutRoot, PutCapsule, CompareSth, ReadSthSize, SignSth
  <2> QED
    BY <2>1, <2>2, <2>3
<1> QED
  BY <1>1, PTL DEF Spec, HistoryImmutable
=============================================================================
