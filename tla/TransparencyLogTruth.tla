------------------------- MODULE TransparencyLogTruth -------------------------
(***************************************************************************)
(* What a receipt, a tree head and a countersigned root say of the log is  *)
(* true, and stays true: theorems about TransparencyLog for any number of  *)
(* instances, any bound on the log, retention and faults anywhere.         *)
(*                                                                         *)
(* A root is a commitment to a prefix of the leaves, and the log keeps     *)
(* every prefix it ever had (LogGrows).  The invariant adds to IInv what   *)
(* a request carries from one store call to the next: the row it appended, *)
(* the receipt it signed, the head it read or signed.                      *)
(***************************************************************************)
EXTENDS TransparencyLogProofs

\* Row i of log_entries has kind k and payload hash h.
Logged(i, k, h) == i < Size /\ logEntries[i].kind = k /\ logEntries[i].payload_hash = h

\* What a request carries, between two store calls, that it will publish.
Carries(r) ==
  /\ r.pc = "receipt" => Logged(r.idx, Scitt, EntryHash[r.arg])
  /\ \/ r.pc \in {"put_statement", "put_subject"}
     \/ r.pc \in {"sth_size", "sth_sign", "sth_put"} /\ r.op = "register"
     => ReceiptTruthful(EntryHash[r.arg], r.receipt)
  /\ r.pc \in {"put_root", "put_capsule"} => Logged(r.idx, Root, r.arg)
  /\ r.pc \in {"sth_compare", "sth_put"} /\ r.head # None => HeadTruthful(r.head)

\* A get_sth began when the log had r.from rows, and the head it will answer
\* with covers them.
Covers(r) ==
  r.op = "get_sth" =>
    /\ r.pc \in {"sth_compare", "sth_size", "sth_sign", "sth_put"}
    /\ r.pc \in {"sth_compare", "sth_size"} => r.from <= Size
    /\ r.pc = "sth_sign" => r.from <= r.idx
    /\ r.pc = "sth_put" => r.from <= r.head.tree_size

Published == ReceiptsTruthful /\ HeadsTruthful /\ AnchorsLogged

Carried == \A p \in Instances : Carries(req[p]) /\ Covers(req[p])

Truth == Published /\ Carried

TInv == IInv /\ Truth

-----------------------------------------------------------------------------
(* The log keeps every prefix it ever had.                                 *)

Shape ==
  /\ Size \in Nat
  /\ DOMAIN logEntries = 0 .. Size - 1
  /\ Leaves = [k \in 1 .. Size |-> LeafOf(k - 1)]
  /\ Leaves \in Seq(CtLeaf) /\ Len(Leaves) = Size

\* In a log that verify_log accepts, leaf k is that of the row at index k - 1.
LEMMA LogShape == IInv => Shape
<1> SUFFICES ASSUME IInv PROVE Shape
  OBVIOUS
<1>1. Size \in Nat /\ DOMAIN logEntries = 0 .. Size - 1
  BY SizeType DEF IInv, VerifyLog
<1>2. \A k \in 1 .. Size : KthIndex(k) = k - 1
  BY <1>1, KthRow
<1>3. Leaves = [k \in 1 .. Size |-> LeafOf(k - 1)]
  BY <1>2 DEF Leaves
<1>4. Size \in 0 .. Size /\ CtRoot(Size) \in Seq(CtLeaf)
  BY <1>1, RootType DEF IInv
<1>5. CtRoot(Size) = Leaves
  BY <1>1, <1>3 DEF CtRoot
<1> QED
  BY <1>1, <1>3, <1>4, <1>5 DEF Shape

\* Store calls that leave log_entries alone leave every root alone.
LEMMA LogQuiet ==
  ASSUME UNCHANGED logEntries
  PROVE  Size' = Size /\ Leaves' = Leaves
BY DEF Size, Leaves, LeafOf, KthIndex

\* append_entry adds one row at the end: every row and every root of the log as
\* it was is a row and a root of the log as it is.
LEMMA LogGrows ==
  ASSUME IInv, IInv', NEW p \in Instances, InsertEntry(p)
  PROVE  /\ Size \in Nat /\ Size' = Size + 1
         /\ \A i \in 0 .. Size - 1 : logEntries'[i] = logEntries[i]
         /\ req[p].idx = Size /\ logEntries'[Size] = NewEntry(req[p])
         /\ Leaves \in Seq(CtLeaf) /\ Leaves' \in Seq(CtLeaf)
         /\ Len(Leaves) = Size /\ Len(Leaves') = Size'
         /\ \A n \in 0 .. Size : SubSeq(Leaves', 1, n) = SubSeq(Leaves, 1, n)
<1>1. Shape /\ Shape'
  <2>1. IInv' => Shape'
    BY LogShape, PTL
  <2> QED
    BY <2>1, LogShape
<1> DEFINE n == Size
           i == req[p].idx
<1>2. n \in Nat /\ DOMAIN logEntries = 0 .. n - 1
  BY <1>1 DEF Shape
<1>3. i = n
  <2>1. Placed(req[p]) /\ req[p] \in Request
    BY DEF IInv, Requests, TypeOK
  <2>2. req[p].pc = "insert" /\ i \notin DOMAIN logEntries
    BY DEF InsertEntry, Running, KeyFree
  <2>3. i \in Nat
    BY <2>1 DEF Request
  <2>4. i <= n
    BY <2>1, <2>2 DEF Placed
  <2> QED
    BY <1>2, <2>2, <2>3, <2>4
<1>4. logEntries' = Put(logEntries, n, NewEntry(req[p]))
  BY <1>3 DEF InsertEntry
<1>5. /\ DOMAIN logEntries' = 0 .. n
      /\ logEntries'[n] = NewEntry(req[p])
      /\ \A j \in 0 .. n - 1 : logEntries'[j] = logEntries[j]
  BY <1>2, <1>4 DEF Put
<1>6. Size' = n + 1
  <2>1. Size' \in Nat /\ DOMAIN logEntries' = 0 .. Size' - 1
    BY <1>1 DEF Shape
  <2>2. 0 .. Size' - 1 = 0 .. n
    BY <1>5, <2>1
  <2>3. \A a, b \in Nat : 0 .. b - 1 = 0 .. a => b = a + 1
    <3> SUFFICES ASSUME NEW a \in Nat, NEW b \in Nat, 0 .. b - 1 = 0 .. a
                 PROVE  b = a + 1
      OBVIOUS
    <3>1. a \in 0 .. b - 1 /\ a + 1 \notin 0 .. b - 1
      OBVIOUS
    <3> QED
      BY ONLY <3>1, a \in Nat, b \in Nat
  <2> QED
    BY <1>2, <2>1, <2>2, <2>3
<1>7. /\ Leaves \in Seq(CtLeaf) /\ Leaves' \in Seq(CtLeaf)
      /\ Len(Leaves) = Size /\ Len(Leaves') = Size'
  BY <1>1 DEF Shape
<1>8. \A k \in 1 .. n : Leaves'[k] = Leaves[k]
  <2>1. Leaves = [k \in 1 .. Size |-> LeafOf(k - 1)]
    BY <1>1 DEF Shape
  <2>2. Leaves' = [k \in 1 .. Size' |-> LeafOf(k - 1)']
    BY <1>1 DEF Shape
  <2>3. ASSUME NEW k \in 1 .. n
        PROVE  Leaves'[k] = Leaves[k]
    <3>1. k \in 1 .. Size' /\ k - 1 \in 0 .. n - 1
      BY <1>2, <1>6
    <3>2. Leaves'[k] = LeafOf(k - 1)' /\ Leaves[k] = LeafOf(k - 1)
      BY <2>1, <2>2, <3>1
    <3>3. logEntries'[k - 1] = logEntries[k - 1]
      BY <1>5, <3>1
    <3> QED
      BY <3>2, <3>3 DEF LeafOf
  <2> QED
    BY <2>3
<1>9. ASSUME NEW m \in 0 .. n
      PROVE  SubSeq(Leaves', 1, m) = SubSeq(Leaves, 1, m)
  <2>1. \A k \in 1 .. m : k \in 1 .. n
    BY <1>2
  <2>2. /\ SubSeq(Leaves, 1, m) = [k \in 1 .. m |-> Leaves[k]]
        /\ SubSeq(Leaves', 1, m) = [k \in 1 .. m |-> Leaves'[k]]
    BY <1>2, <1>6, <1>7
  <2> QED
    BY <1>8, <2>1, <2>2
<1> QED
  BY <1>2, <1>3, <1>5, <1>6, <1>7, <1>9

-----------------------------------------------------------------------------
(* Steps that leave the log alone.                                         *)

\* What a request carries is about the log alone.
LEMMA StillCarries ==
  ASSUME UNCHANGED logEntries, NEW q, NEW u, req'[q] = u, Carries(u), Covers(u)
  PROVE  Carries(req[q])' /\ Covers(req[q])'
<1>1. Size' = Size /\ \A n : CtRoot(n)' = CtRoot(n)
  BY LogQuiet DEF CtRoot
<1>2. \A i, k, h : Logged(i, k, h)' <=> Logged(i, k, h)
  BY <1>1 DEF Logged
<1>3. \A h, r : ReceiptTruthful(h, r)' <=> ReceiptTruthful(h, r)
  BY <1>1 DEF ReceiptTruthful
<1>4. \A h : HeadTruthful(h)' <=> HeadTruthful(h)
  BY <1>1 DEF HeadTruthful
<1>5. Carries(u)'
  BY <1>2, <1>3, <1>4 DEF Carries
<1>6. Covers(u)'
  BY <1>1 DEF Covers
<1> QED
  BY <1>5, <1>6 DEF Carries, Covers

\* A store call that leaves the log alone and moves one request keeps Truth if
\* what it published, and what the request now carries, is true of the log.
LEMMA QuietKeeps ==
  ASSUME IInv, Truth, UNCHANGED logEntries, Published',
         NEW p \in Instances, NEW u, Carries(u), Covers(u), req' = [req EXCEPT ![p] = u]
  PROVE  Truth'
<1>1. req \in [Instances -> Request]
  BY DEF IInv, TypeOK
<1>2. ASSUME NEW q \in Instances
      PROVE  Carries(req[q])' /\ Covers(req[q])'
  <2>1. CASE q = p
    BY <1>1, <2>1, StillCarries
  <2>2. CASE q # p
    <3>1. req'[q] = req[q] /\ Carries(req[q]) /\ Covers(req[q])
      BY <1>1, <2>2 DEF Truth, Carried
    <3> QED
      BY <3>1, StillCarries
  <2> QED
    BY <2>1, <2>2
<1> QED
  BY <1>2 DEF Truth, Carried

\* Receipts that are true of the log are true of a log that stays as it is.
LEMMA ReceiptsWritten ==
  ASSUME UNCHANGED logEntries,
         \A h \in DOMAIN statements' : ReceiptTruthful(h, statements'[h]),
         \A a \in issued' : ReceiptTruthful(a.entry_hash, a.receipt)
  PROVE  ReceiptsTruthful'
<1>1. Size' = Size /\ \A n : CtRoot(n)' = CtRoot(n)
  BY LogQuiet DEF CtRoot
<1>2. \A h \in DOMAIN statements' : ReceiptTruthful(h, statements[h])'
  BY <1>1 DEF ReceiptTruthful
<1>3. \A a \in issued' : ReceiptTruthful(a.entry_hash, a.receipt)'
  BY <1>1 DEF ReceiptTruthful
<1> QED
  BY <1>2, <1>3 DEF ReceiptsTruthful

\* And so are heads.
LEMMA HeadsWritten ==
  ASSUME UNCHANGED logEntries,
         latestSth' # None => HeadTruthful(latestSth'),
         \A n \in DOMAIN sthHistory' :
            sthHistory'[n].tree_size = n /\ HeadTruthful(sthHistory'[n])
  PROVE  HeadsTruthful'
<1>1. Size' = Size /\ \A n : CtRoot(n)' = CtRoot(n)
  BY LogQuiet DEF CtRoot
<1>2. latestSth' # None => HeadTruthful(latestSth)'
  BY <1>1 DEF HeadTruthful
<1>3. \A n \in DOMAIN sthHistory' : sthHistory'[n].tree_size = n /\ HeadTruthful(sthHistory[n])'
  BY <1>1 DEF HeadTruthful
<1> QED
  BY <1>2, <1>3 DEF HeadsTruthful

\* What a store call does not write stays true, table by table.
LEMMA ReceiptsKept ==
  ASSUME Published, UNCHANGED <<logEntries, statements, issued>>
  PROVE  ReceiptsTruthful'
BY ReceiptsWritten DEF Published, ReceiptsTruthful

\* The heads stay truthful when neither they nor the log change.
LEMMA HeadsKept ==
  ASSUME Published, UNCHANGED <<logEntries, latestSth, sthHistory>>
  PROVE  HeadsTruthful'
BY HeadsWritten DEF Published, HeadsTruthful

\* The anchored roots stay in the log when neither they nor the log change.
LEMMA AnchorsKept ==
  ASSUME Published, UNCHANGED <<logEntries, roots, capsules>>
  PROVE  AnchorsLogged'
BY DEF Published, AnchorsLogged

\* Store calls that read, and write nothing, publish nothing.
LEMMA ReadsPublishNothing ==
  ASSUME Published, UNCHANGED tables, UNCHANGED issued
  PROVE  Published'
BY ReceiptsKept, HeadsKept, AnchorsKept DEF Published, tables

\* A request that ends carries nothing more.
LEMMA FinishKeepsTruth ==
  ASSUME IInv, Truth, UNCHANGED logEntries, Published', NEW p \in Instances, Finish(p)
  PROVE  Truth'
<1>1. Carries(NoRequest) /\ Covers(NoRequest)
  BY NoneDistinct DEF Carries, Covers, NoRequest, Operations
<1> QED
  BY <1>1, QuietKeeps DEF Finish

\* A request that advances and keeps its locals.
LEMMA AdvanceFields ==
  ASSUME NEW r \in Request, NEW step \in Pcs, NEW u, u = [r EXCEPT !.pc = step]
  PROVE  /\ u.pc = step /\ u.op = r.op /\ u.arg = r.arg /\ u.idx = r.idx
         /\ u.receipt = r.receipt /\ u.head = r.head /\ u.from = r.from
BY DEF Request

\* register_signed_statement_full's dedup lookup: the cached receipt is true of the
\* log as it is now, so the answer that repeats it is.
LEMMA RegisterKeepsTruth ==
  ASSUME TInv, NEW p \in Instances, NEW s \in Submissions,
         RegisterCached(p, s) \/ RegisterMiss(p, s)
  PROVE  Truth'
<1>1. IInv /\ Truth /\ Published /\ req[p] \in Request /\ req \in [Instances -> Request]
      /\ Carries(req[p]) /\ Covers(req[p])
  BY DEF TInv, IInv, TypeOK, Truth, Carried
<1>2. CASE RegisterCached(p, s)
  <2>1. Size' = Size /\ Leaves' = Leaves /\ UNCHANGED <<tables, req>>
    BY <1>2, LogQuiet DEF RegisterCached, tables
  <2>2. Published'
    <3>1. ReceiptTruthful(EntryHash[s], statements[EntryHash[s]])
      BY <1>1, <1>2 DEF RegisterCached, Registered, Published, ReceiptsTruthful
    <3>2. \A a \in issued' : ReceiptTruthful(a.entry_hash, a.receipt)
      BY <1>1, <1>2, <3>1 DEF RegisterCached, Answer, Published, ReceiptsTruthful
    <3> QED
      <4>1. \A k \in DOMAIN statements' : ReceiptTruthful(k, statements'[k])
        BY <1>1, <2>1 DEF Published, ReceiptsTruthful, tables
      <4> QED
        BY <1>1, <2>1, <3>2, <4>1, ReceiptsWritten, HeadsKept, AnchorsKept DEF Published, tables
  <2>3. req' = [req EXCEPT ![p] = req[p]]
    BY <1>1, <2>1
  <2> QED
    BY <1>1, <2>1, <2>2, <2>3, QuietKeeps DEF tables
<1>3. CASE RegisterMiss(p, s)
  <2>1. PICK t \in Time :
          Begin(p, [NoRequest EXCEPT
                      !.pc = IF EntryHash[s] = LegacyHash[s] THEN "size" ELSE "lookup_legacy",
                      !.op = "register", !.arg = s, !.at = t])
    BY <1>3 DEF RegisterMiss
  <2> DEFINE u == [NoRequest EXCEPT
                     !.pc = IF EntryHash[s] = LegacyHash[s] THEN "size" ELSE "lookup_legacy",
                     !.op = "register", !.arg = s, !.at = t]
  <2>2. u.pc \in {"size", "lookup_legacy"} /\ u.op = "register"
    BY DEF NoRequest
  <2>3. req' = [req EXCEPT ![p] = u]
    BY <2>1 DEF Begin
  <2> HIDE DEF u
  <2>4. Carries(u) /\ Covers(u)
    BY <2>2 DEF Carries, Covers
  <2>5. Published' /\ UNCHANGED logEntries
    BY <1>1, <1>3, ReadsPublishNothing DEF RegisterMiss, tables
  <2> QED
    BY <1>1, <2>3, <2>4, <2>5, QuietKeeps
<1> QED
  BY <1>2, <1>3

\* The legacy lookup: the receipt cached under the legacy hash is true of it.
LEMMA LookupLegacyKeepsTruth ==
  ASSUME TInv, NEW p \in Instances, LookupLegacy(p)
  PROVE  Truth'
<1> DEFINE s == req[p].arg
<1>1. IInv /\ Truth /\ Published /\ req[p] \in Request /\ Covers(req[p])
  BY DEF TInv, IInv, TypeOK, Truth, Carried
<1>2. req[p].pc = "lookup_legacy" /\ UNCHANGED tables
  BY DEF LookupLegacy, Running
<1>3. Size' = Size /\ Leaves' = Leaves /\ UNCHANGED logEntries
  BY <1>2, LogQuiet DEF tables
<1>4. CASE LegacyHash[s] \in DOMAIN statements
  <2>1. ReceiptTruthful(LegacyHash[s], statements[LegacyHash[s]])
    BY <1>1, <1>4 DEF Published, ReceiptsTruthful
  <2>2. \A a \in issued' : ReceiptTruthful(a.entry_hash, a.receipt)
    BY <1>1, <1>4, <2>1 DEF LookupLegacy, Answer, Published, ReceiptsTruthful
  <2>3. Published'
    <3>1. \A k \in DOMAIN statements' : ReceiptTruthful(k, statements'[k])
      BY <1>1, <1>2 DEF Published, ReceiptsTruthful, tables
    <3> QED
      BY <1>1, <1>2, <2>2, <3>1, ReceiptsWritten, HeadsKept, AnchorsKept DEF Published, tables
  <2> QED
    BY <1>1, <1>3, <1>4, <2>3, FinishKeepsTruth DEF LookupLegacy
<1>5. CASE LegacyHash[s] \notin DOMAIN statements
  <2>1. Published'
    BY <1>1, <1>2, <1>5, ReadsPublishNothing DEF LookupLegacy
  <2> DEFINE u == [req[p] EXCEPT !.pc = "size"]
  <2>2. u.pc = "size" /\ u.op = req[p].op
    BY <1>1, AdvanceFields DEF Pcs
  <2>3. req' = [req EXCEPT ![p] = u]
    BY <1>5 DEF LookupLegacy, Advance
  <2> HIDE DEF u
  <2>4. Carries(u) /\ Covers(u)
    BY <1>1, <1>2, <2>2 DEF Carries, Covers
  <2> QED
    BY <1>1, <1>3, <2>1, <2>3, <2>4, QuietKeeps
<1> QED
  BY <1>4, <1>5

\* _append_log's two queries carry nothing to publish.
LEMMA AppendReadsKeepTruth ==
  ASSUME TInv, NEW p \in Instances, ReadSize(p) \/ ReadHead(p)
  PROVE  Truth'
<1>1. IInv /\ Truth /\ Published /\ req[p] \in Request /\ Covers(req[p])
  BY DEF TInv, IInv, TypeOK, Truth, Carried
<1>2. req[p].pc \in {"size", "head"} /\ UNCHANGED <<tables, issued>>
  BY DEF ReadSize, ReadHead, Running
<1>3. PICK u : req' = [req EXCEPT ![p] = u] /\ u.pc \in {"head", "insert"} /\ u.op = req[p].op
  <2>1. CASE ReadSize(p)
    <3> DEFINE r0 == [req[p] EXCEPT !.idx = Size]
               u == [r0 EXCEPT !.pc = IF Size > 0 THEN "head" ELSE "insert"]
    <3>1. u.pc \in {"head", "insert"} /\ u.op = req[p].op
      BY <1>1 DEF Request
    <3>2. req' = [req EXCEPT ![p] = u]
      BY <2>1 DEF ReadSize, Advance
    <3> QED
      BY <3>1, <3>2
  <2>2. CASE ReadHead(p)
    <3> DEFINE r0 == [req[p] EXCEPT !.prev = HeadHash(KthIndex(Size), logEntries[KthIndex(Size)])]
               u == [r0 EXCEPT !.pc = "insert"]
    <3>1. u.pc \in {"head", "insert"} /\ u.op = req[p].op
      BY <1>1 DEF Request
    <3>2. req' = [req EXCEPT ![p] = u]
      BY <2>2 DEF ReadHead, Advance
    <3> QED
      BY <3>1, <3>2
  <2> QED
    BY <2>1, <2>2
<1>4. Carries(u) /\ Covers(u)
  BY <1>1, <1>2, <1>3 DEF Carries, Covers
<1>5. Published' /\ UNCHANGED logEntries
  BY <1>1, <1>2, ReadsPublishNothing DEF tables
<1> QED
  BY <1>1, <1>3, <1>4, <1>5, QuietKeeps

\* A primary key violation in append_entry publishes nothing.
LEMMA InsertConflictKeepsTruth ==
  ASSUME TInv, NEW p \in Instances, InsertConflict(p)
  PROVE  Truth'
BY ReadsPublishNothing, FinishKeepsTruth DEF TInv, Truth, InsertConflict, tables

\* The receipt is signed over the log that holds the row: it names the row and the
\* root of all leaves.
LEMMA BuildReceiptKeepsTruth ==
  ASSUME TInv, NEW p \in Instances, BuildReceipt(p)
  PROVE  Truth'
<1>1. IInv /\ Truth /\ Published /\ req[p] \in Request /\ Covers(req[p]) /\ Carries(req[p])
  BY DEF TInv, IInv, TypeOK, Truth, Carried
<1>2. req[p].pc = "receipt" /\ UNCHANGED <<tables, issued>>
  BY DEF BuildReceipt, Running
<1> DEFINE receipt == ReceiptFor(req[p].idx)
           r0 == [req[p] EXCEPT !.receipt = receipt]
           u == [r0 EXCEPT !.pc = "put_statement"]
<1>3. req' = [req EXCEPT ![p] = u]
  BY DEF BuildReceipt, Advance
<1>4. ReceiptTruthful(EntryHash[req[p].arg], receipt)
  <2>1. Size \in Nat
    BY <1>1, LogShape DEF Shape
  <2> QED
    BY <1>1, <1>2, <2>1 DEF Carries, Logged, ReceiptFor, ReceiptTruthful
<1> HIDE DEF receipt
<1>5. u.pc = "put_statement" /\ u.op = req[p].op /\ u.arg = req[p].arg /\ u.receipt = receipt
  BY <1>1 DEF Request
<1> HIDE DEF u
<1>6. Carries(u) /\ Covers(u)
  BY <1>1, <1>2, <1>4, <1>5 DEF Carries, Covers
<1>7. Published' /\ UNCHANGED logEntries
  BY <1>1, <1>2, ReadsPublishNothing DEF tables
<1> QED
  BY <1>1, <1>3, <1>6, <1>7, QuietKeeps

\* put_statement caches a receipt that is true of the statement, or keeps the one
\* another instance cached.
LEMMA PutStatementKeepsTruth ==
  ASSUME TInv, NEW p \in Instances, PutStatement(p)
  PROVE  Truth'
<1>1. IInv /\ Truth /\ Published /\ req[p] \in Request /\ Covers(req[p]) /\ Carries(req[p])
  BY DEF TInv, IInv, TypeOK, Truth, Carried
<1> DEFINE h == EntryHash[req[p].arg]
           u == [req[p] EXCEPT !.pc = AfterStatement(req[p].arg)]
<1>2. req[p].pc = "put_statement" /\ ReceiptTruthful(h, req[p].receipt)
  BY <1>1 DEF PutStatement, Running, Carries
<1>3. Size' = Size /\ Leaves' = Leaves /\ UNCHANGED logEntries
  BY LogQuiet DEF PutStatement
<1>4. \A k \in DOMAIN statements' : ReceiptTruthful(k, statements'[k])
  BY <1>1, <1>2 DEF PutStatement, PutIfAbsent, Put, Published, ReceiptsTruthful
<1>5. Published'
  <2>1. UNCHANGED <<roots, capsules, latestSth, sthHistory, issued>>
    BY DEF PutStatement
  <2>2. \A a \in issued' : ReceiptTruthful(a.entry_hash, a.receipt)
    BY <1>1, <2>1 DEF Published, ReceiptsTruthful
  <2> QED
    BY <1>1, <1>3, <1>4, <2>1, <2>2, ReceiptsWritten, HeadsKept, AnchorsKept DEF Published
<1>6. /\ u.pc \in {"put_subject", "sth_size"} /\ u.op = req[p].op /\ u.arg = req[p].arg
      /\ u.receipt = req[p].receipt
  BY <1>1 DEF Request, AfterStatement
<1>7. req' = [req EXCEPT ![p] = u]
  BY DEF PutStatement, Advance
<1> HIDE DEF u
<1>8. Carries(u) /\ Covers(u)
  BY <1>1, <1>2, <1>6 DEF Carries, Covers
<1> QED
  BY <1>1, <1>3, <1>5, <1>7, <1>8, QuietKeeps

\* put_subject_index publishes no receipt, head or root.
LEMMA PutSubjectKeepsTruth ==
  ASSUME TInv, NEW p \in Instances, PutSubject(p)
  PROVE  Truth'
<1>1. IInv /\ Truth /\ Published /\ req[p] \in Request /\ Covers(req[p]) /\ Carries(req[p])
  BY DEF TInv, IInv, TypeOK, Truth, Carried
<1> DEFINE u == [req[p] EXCEPT !.pc = "sth_size"]
<1>2. req[p].pc = "put_subject" /\ ReceiptTruthful(EntryHash[req[p].arg], req[p].receipt)
  BY <1>1 DEF PutSubject, Running, Carries
<1>3. Size' = Size /\ Leaves' = Leaves /\ UNCHANGED logEntries
  BY LogQuiet DEF PutSubject
<1>4. Published'
  BY <1>1, ReceiptsKept, HeadsKept, AnchorsKept DEF PutSubject, Published
<1>5. u.pc = "sth_size" /\ u.op = req[p].op /\ u.arg = req[p].arg /\ u.receipt = req[p].receipt
  BY <1>1, AdvanceFields DEF Pcs
<1>6. req' = [req EXCEPT ![p] = u]
  BY DEF PutSubject, Advance
<1> HIDE DEF u
<1>7. Carries(u) /\ Covers(u)
  BY <1>1, <1>2, <1>5 DEF Carries, Covers
<1> QED
  BY <1>1, <1>3, <1>4, <1>6, <1>7, QuietKeeps

\* put_root: the root is in the log before it can be looked up.
LEMMA PutRootKeepsTruth ==
  ASSUME TInv, NEW p \in Instances, PutRoot(p)
  PROVE  Truth'
<1>1. IInv /\ Truth /\ Published /\ req[p] \in Request /\ Covers(req[p]) /\ Carries(req[p])
  BY DEF TInv, IInv, TypeOK, Truth, Carried
<1>2. req[p].pc = "put_root" /\ Logged(req[p].idx, Root, req[p].arg)
  BY <1>1 DEF PutRoot, Running, Carries
<1>3. Size' = Size /\ Leaves' = Leaves /\ UNCHANGED logEntries
  BY LogQuiet DEF PutRoot
<1>4. req[p].idx \in DOMAIN logEntries
  <2>1. Shape /\ req[p].idx \in Nat
    BY <1>1, LogShape DEF Request
  <2> QED
    BY <1>2, <2>1 DEF Shape, Logged
<1>5. Published'
  <2>1. AnchorsLogged'
    BY <1>1, <1>2, <1>3, <1>4 DEF PutRoot, Published, AnchorsLogged, Logged
  <2> QED
    BY <1>1, <2>1, ReceiptsKept, HeadsKept DEF PutRoot, Published
<1>6. CASE req[p].arg \in WithCapsule
  <2> DEFINE u == [req[p] EXCEPT !.pc = "put_capsule"]
  <2>1. u.pc = "put_capsule" /\ u.op = req[p].op /\ u.arg = req[p].arg /\ u.idx = req[p].idx
    BY <1>1, AdvanceFields DEF Pcs
  <2>2. req' = [req EXCEPT ![p] = u]
    BY <1>6 DEF PutRoot, Advance
  <2> HIDE DEF u
  <2>3. Carries(u) /\ Covers(u)
    BY <1>1, <1>2, <2>1 DEF Carries, Covers
  <2> QED
    BY <1>1, <1>3, <1>5, <2>2, <2>3, QuietKeeps
<1>7. CASE req[p].arg \notin WithCapsule
  BY <1>1, <1>3, <1>5, <1>7, FinishKeepsTruth DEF PutRoot
<1> QED
  BY <1>6, <1>7

\* put_capsule_id: the capsule is bound to the row of its own anchor.
LEMMA PutCapsuleKeepsTruth ==
  ASSUME TInv, NEW p \in Instances, PutCapsule(p)
  PROVE  Truth'
<1>1. IInv /\ Truth /\ Published /\ req[p] \in Request /\ Carries(req[p])
  BY DEF TInv, IInv, TypeOK, Truth, Carried
<1>2. Logged(req[p].idx, Root, req[p].arg)
  BY <1>1 DEF PutCapsule, Running, Carries
<1>3. Size' = Size /\ Leaves' = Leaves /\ UNCHANGED logEntries
  BY LogQuiet DEF PutCapsule
<1>4. req[p].idx \in DOMAIN logEntries
  <2>1. Shape /\ req[p].idx \in Nat
    BY <1>1, LogShape DEF Request
  <2> QED
    BY <1>2, <2>1 DEF Shape, Logged
<1>5. \A i \in DOMAIN capsules' :
        /\ i \in DOMAIN logEntries /\ logEntries[i].kind = Root
        /\ logEntries[i].payload_hash = capsules'[i]
  BY <1>1, <1>2, <1>4 DEF PutCapsule, Put, Published, AnchorsLogged, Logged
<1>6. Published'
  <2>1. AnchorsLogged'
    BY <1>1, <1>3, <1>5 DEF PutCapsule, Published, AnchorsLogged
  <2> QED
    BY <1>1, <2>1, ReceiptsKept, HeadsKept DEF PutCapsule, Published
<1> QED
  BY <1>1, <1>3, <1>6, FinishKeepsTruth DEF PutCapsule

\* get_sth reads a head that is true of the log.
LEMMA GetSthKeepsTruth ==
  ASSUME TInv, NEW p \in Instances, GetSth(p)
  PROVE  Truth'
<1>1. IInv /\ Truth /\ Published /\ Size \in Nat
  BY LogShape DEF TInv, Truth, Shape
<1> DEFINE u == [NoRequest EXCEPT !.pc = "sth_compare", !.op = "get_sth",
                                  !.head = latestSth, !.from = Size]
<1>2. u.pc = "sth_compare" /\ u.op = "get_sth" /\ u.head = latestSth /\ u.from = Size
  BY DEF NoRequest
<1>3. req' = [req EXCEPT ![p] = u]
  BY DEF GetSth, Begin
<1> HIDE DEF u
<1>4. Carries(u) /\ Covers(u)
  BY <1>1, <1>2 DEF Carries, Covers, Published, HeadsTruthful
<1>5. Published' /\ UNCHANGED logEntries
  BY <1>1, ReadsPublishNothing DEF GetSth, tables
<1> QED
  BY <1>1, <1>3, <1>4, <1>5, QuietKeeps

\* The refresh daemon starts with nothing to publish.
LEMMA RefreshSthKeepsTruth ==
  ASSUME TInv, NEW p \in Instances, RefreshSth(p)
  PROVE  Truth'
<1>1. IInv /\ Truth /\ Published
  BY DEF TInv, Truth
<1> DEFINE u == [NoRequest EXCEPT !.pc = "sth_size", !.op = "refresh"]
<1>2. u.pc = "sth_size" /\ u.op = "refresh"
  BY DEF NoRequest
<1>3. req' = [req EXCEPT ![p] = u]
  BY DEF RefreshSth, Begin
<1> HIDE DEF u
<1>4. Carries(u) /\ Covers(u)
  BY <1>2 DEF Carries, Covers
<1>5. Published' /\ UNCHANGED logEntries
  BY <1>1, ReadsPublishNothing DEF RefreshSth, tables
<1> QED
  BY <1>1, <1>3, <1>4, <1>5, QuietKeeps

\* get_sth serves the head it read, or signs a new one for the same call.
LEMMA CompareSthKeepsTruth ==
  ASSUME TInv, NEW p \in Instances, CompareSth(p)
  PROVE  Truth'
<1>1. IInv /\ Truth /\ Published /\ req[p] \in Request /\ Covers(req[p]) /\ WellFormed(req[p])
  BY DEF TInv, IInv, TypeOK, Requests, Truth, Carried
<1>2. req[p].pc = "sth_compare" /\ req[p].op # "register"
  BY <1>1 DEF CompareSth, Running, WellFormed
<1>3. Published' /\ UNCHANGED logEntries
  BY <1>1, ReadsPublishNothing DEF CompareSth, tables
<1>4. CASE Finish(p)
  BY <1>1, <1>3, <1>4, FinishKeepsTruth
<1>5. CASE Advance(p, "sth_size", req[p])
  <2> DEFINE u == [req[p] EXCEPT !.pc = "sth_size"]
  <2>1. u.pc = "sth_size" /\ u.op = req[p].op /\ u.from = req[p].from
    BY <1>1, AdvanceFields DEF Pcs
  <2>2. req' = [req EXCEPT ![p] = u]
    BY <1>5 DEF Advance
  <2> HIDE DEF u
  <2>3. Carries(u) /\ Covers(u)
    BY <1>1, <1>2, <2>1 DEF Carries, Covers
  <2> QED
    BY <1>1, <1>3, <2>2, <2>3, QuietKeeps
<1> QED
  BY <1>4, <1>5 DEF CompareSth

\* The size to sign at covers every row present when the call began.
LEMMA ReadSthSizeKeepsTruth ==
  ASSUME TInv, NEW p \in Instances, ReadSthSize(p)
  PROVE  Truth'
<1>1. IInv /\ Truth /\ Published /\ req[p] \in Request /\ Covers(req[p]) /\ Carries(req[p])
  BY DEF TInv, IInv, TypeOK, Truth, Carried
<1>2. req[p].pc = "sth_size"
  BY DEF ReadSthSize, Running
<1>3. Published' /\ UNCHANGED logEntries
  BY <1>1, ReadsPublishNothing DEF ReadSthSize, tables
<1> DEFINE r0 == [req[p] EXCEPT !.idx = Size]
           u == [r0 EXCEPT !.pc = "sth_sign"]
<1>4. /\ u.pc = "sth_sign" /\ u.op = req[p].op /\ u.arg = req[p].arg /\ u.idx = Size
      /\ u.receipt = req[p].receipt /\ u.from = req[p].from
  BY <1>1 DEF Request
<1>5. req' = [req EXCEPT ![p] = u]
  BY DEF ReadSthSize, Advance
<1> HIDE DEF u
<1>6. Carries(u) /\ Covers(u)
  BY <1>1, <1>2, <1>4 DEF Carries, Covers
<1> QED
  BY <1>1, <1>3, <1>5, <1>6, QuietKeeps

\* The head is signed over the leaves as they are now, cut to the size read before:
\* a prefix of the log.
LEMMA SignSthKeepsTruth ==
  ASSUME TInv, NEW p \in Instances, SignSth(p)
  PROVE  Truth'
<1>1. IInv /\ Truth /\ Published /\ req[p] \in Request /\ Covers(req[p]) /\ Carries(req[p])
      /\ Placed(req[p])
  BY DEF TInv, IInv, TypeOK, Requests, Truth, Carried
<1>2. req[p].pc = "sth_sign" /\ req[p].idx <= Size
  BY <1>1 DEF SignSth, Running, Placed
<1>3. Published' /\ UNCHANGED logEntries
  BY <1>1, ReadsPublishNothing DEF SignSth, tables
<1>4. PICK t \in Time : Advance(p, "sth_put", [req[p] EXCEPT !.head = HeadAt(req[p].idx, t)])
  BY DEF SignSth
<1> DEFINE h == HeadAt(req[p].idx, t)
           r0 == [req[p] EXCEPT !.head = h]
           u == [r0 EXCEPT !.pc = "sth_put"]
<1>5. HeadTruthful(h) /\ h.tree_size = req[p].idx
  BY <1>2 DEF HeadTruthful, HeadAt
<1> HIDE DEF h
<1>6. /\ u.pc = "sth_put" /\ u.op = req[p].op /\ u.arg = req[p].arg /\ u.head = h
      /\ u.receipt = req[p].receipt /\ u.from = req[p].from
  BY <1>1 DEF Request
<1>7. req' = [req EXCEPT ![p] = u]
  BY <1>4 DEF Advance, h
<1> HIDE DEF u
<1>8. Carries(u) /\ Covers(u)
  BY <1>1, <1>2, <1>5, <1>6 DEF Carries, Covers
<1> QED
  BY <1>1, <1>3, <1>7, <1>8, QuietKeeps

\* put_sth persists a head that is true of the log, whatever was persisted since
\* it was signed; the answer to a registration carries a receipt that still is.
LEMMA PutSthKeepsTruth ==
  ASSUME TInv, NEW p \in Instances, PutSth(p)
  PROVE  Truth'
<1>1. IInv /\ Truth /\ Published /\ req[p] \in Request /\ Carries(req[p]) /\ WellFormed(req[p])
  BY DEF TInv, IInv, TypeOK, Requests, Truth, Carried
<1> DEFINE h == req[p].head
<1>2. req[p].pc = "sth_put" /\ h \in Sth /\ h # None
  BY <1>1, NoneDistinct DEF PutSth, Running, WellFormed
<1>3. HeadTruthful(h)
  BY <1>1, <1>2 DEF Carries
<1>4. Size' = Size /\ Leaves' = Leaves /\ UNCHANGED logEntries
  BY LogQuiet DEF PutSth
<1>5. \A n \in DOMAIN sthHistory' : sthHistory'[n].tree_size = n /\ HeadTruthful(sthHistory'[n])
  BY <1>1, <1>3 DEF PutSth, PutIfAbsent, Put, Published, HeadsTruthful
<1>6. latestSth' # None => HeadTruthful(latestSth')
  BY <1>1, <1>3 DEF PutSth, Published, HeadsTruthful
<1>7. \A a \in issued' : ReceiptTruthful(a.entry_hash, a.receipt)
  <2>1. req[p].op = "register" => ReceiptTruthful(EntryHash[req[p].arg], req[p].receipt)
    BY <1>1, <1>2 DEF Carries
  <2> QED
    BY <1>1, <2>1 DEF PutSth, Answer, Published, ReceiptsTruthful
<1>8. Published'
  <2>1. UNCHANGED <<statements, roots, capsules>>
    BY DEF PutSth
  <2>2. \A k \in DOMAIN statements' : ReceiptTruthful(k, statements'[k])
    BY <1>1, <2>1 DEF Published, ReceiptsTruthful
  <2> QED
    BY <1>1, <1>4, <1>5, <1>6, <1>7, <2>1, <2>2, ReceiptsWritten, HeadsWritten, AnchorsKept
       DEF Published
<1> QED
  BY <1>1, <1>4, <1>8, FinishKeepsTruth DEF PutSth

\* prune_expired_statements forgets receipts; those it keeps are as true as before.
LEMMA PruneKeepsTruth ==
  ASSUME TInv, NEW p \in Instances, Prune(p)
  PROVE  Truth'
<1>1. IInv /\ Truth /\ Published /\ Carries(req[p]) /\ Covers(req[p]) /\ req \in [Instances -> Request]
  BY DEF TInv, IInv, TypeOK, Truth, Carried
<1>2. Size' = Size /\ Leaves' = Leaves /\ UNCHANGED logEntries
  BY LogQuiet DEF Prune
<1>3. \A k \in DOMAIN statements' : k \in DOMAIN statements /\ statements'[k] = statements[k]
  BY DEF Prune
<1>4. Published'
  <2>1. UNCHANGED <<roots, capsules, latestSth, sthHistory, issued>>
    BY DEF Prune
  <2>2. \A k \in DOMAIN statements' : ReceiptTruthful(k, statements'[k])
    BY <1>1, <1>3 DEF Published, ReceiptsTruthful
  <2>3. \A a \in issued' : ReceiptTruthful(a.entry_hash, a.receipt)
    BY <1>1, <2>1 DEF Published, ReceiptsTruthful
  <2> QED
    BY <1>1, <1>2, <2>1, <2>2, <2>3, ReceiptsWritten, HeadsKept, AnchorsKept DEF Published
<1>5. req' = [req EXCEPT ![p] = req[p]]
  BY <1>1 DEF Prune
<1> QED
  BY <1>1, <1>2, <1>4, <1>5, QuietKeeps

\* A store error or a crash publishes nothing.
LEMMA FailKeepsTruth ==
  ASSUME TInv, NEW p \in Instances, Fail(p)
  PROVE  Truth'
BY ReadsPublishNothing, FinishKeepsTruth DEF TInv, Truth, Fail, tables

\* The start of anchor carries nothing to publish.
LEMMA AnchorKeepsTruth ==
  ASSUME TInv, NEW p \in Instances, NEW a \in Anchors, Anchor(p, a)
  PROVE  Truth'
<1>1. IInv /\ Truth /\ Published
  BY DEF TInv, Truth
<1>2. PICK t \in Time :
        Begin(p, [NoRequest EXCEPT !.pc = "size", !.op = "anchor", !.arg = a, !.at = t])
  BY DEF Anchor
<1> DEFINE u == [NoRequest EXCEPT !.pc = "size", !.op = "anchor", !.arg = a, !.at = t]
<1>3. u.pc = "size" /\ u.op = "anchor"
  BY DEF NoRequest
<1>4. req' = [req EXCEPT ![p] = u]
  BY <1>2 DEF Begin
<1> HIDE DEF u
<1>5. Carries(u) /\ Covers(u)
  BY <1>3 DEF Carries, Covers
<1>6. Published' /\ UNCHANGED logEntries
  BY <1>1, ReadsPublishNothing DEF Anchor, tables
<1> QED
  BY <1>1, <1>4, <1>5, <1>6, QuietKeeps

-----------------------------------------------------------------------------
(* The step that writes the log.                                           *)

\* append_entry: what every other request carries, and all that was published, is
\* about rows and roots the log keeps, and the new row is the request's own.
LEMMA InsertEntryKeepsTruth ==
  ASSUME TInv, NEW p \in Instances, InsertEntry(p)
  PROVE  Truth'
<1>1. IInv /\ Truth /\ Published /\ req \in [Instances -> Request] /\ TypeOK /\ Shape
  BY LogShape DEF TInv, IInv, TypeOK, Truth
<1>2. IInv'
  BY <1>1, InsertEntryKeeps
<1>3. /\ Size \in Nat /\ Size' = Size + 1
      /\ \A i \in 0 .. Size - 1 : logEntries'[i] = logEntries[i]
      /\ req[p].idx = Size /\ logEntries'[Size] = NewEntry(req[p])
      /\ \A n \in 0 .. Size : SubSeq(Leaves', 1, n) = SubSeq(Leaves, 1, n)
  BY <1>1, <1>2, LogGrows
<1>4. DOMAIN logEntries = 0 .. Size - 1 /\ DOMAIN logEntries' = 0 .. Size
  <2>1. logEntries' = Put(logEntries, Size, NewEntry(req[p]))
    BY <1>3 DEF InsertEntry
  <2> QED
    BY <1>1, <1>3, <2>1 DEF Shape, Put
<1>5. ASSUME NEW h, NEW r \in Receipt, ReceiptTruthful(h, r)
      PROVE  ReceiptTruthful(h, r)'
  <2>1. r.leaf_index \in 0 .. Size - 1 /\ r.tree_size \in 0 .. Size
    BY <1>3, <1>5 DEF ReceiptTruthful, Receipt
  <2> QED
    BY <1>3, <1>5, <2>1 DEF ReceiptTruthful, CtRoot
<1>6. ASSUME NEW h \in Sth, HeadTruthful(h)
      PROVE  HeadTruthful(h)'
  <2>1. h.tree_size \in 0 .. Size
    BY <1>3, <1>6 DEF HeadTruthful, Sth
  <2>2. h.tree_size <= Size'
    BY <1>3, <2>1
  <2>3. SubSeq(Leaves', 1, h.tree_size) = SubSeq(Leaves, 1, h.tree_size)
    BY <1>3, <2>1
  <2>4. h.root = SubSeq(Leaves, 1, h.tree_size)
    BY <1>6 DEF HeadTruthful, CtRoot
  <2> QED
    BY <2>2, <2>3, <2>4 DEF HeadTruthful, CtRoot
<1>7. ASSUME NEW i \in Nat, NEW k, NEW h, Logged(i, k, h)
      PROVE  Logged(i, k, h)'
  BY <1>3, <1>7 DEF Logged
<1>8. UNCHANGED <<statements, roots, capsules, latestSth, sthHistory, issued>>
  BY DEF InsertEntry
<1>9. ReceiptsTruthful'
  <2>1. \A h \in DOMAIN statements : statements[h] \in Receipt /\ ReceiptTruthful(h, statements[h])
    BY <1>1 DEF TypeOK, IsTable, Published, ReceiptsTruthful
  <2>2. \A a \in issued : a.receipt \in Receipt /\ ReceiptTruthful(a.entry_hash, a.receipt)
    BY <1>1 DEF TypeOK, Published, ReceiptsTruthful
  <2>3. \A h \in DOMAIN statements : ReceiptTruthful(h, statements[h])'
    BY <1>5, <1>8, <2>1 DEF ReceiptTruthful
  <2>4. \A a \in issued : ReceiptTruthful(a.entry_hash, a.receipt)'
    BY <1>5, <1>8, <2>2
  <2> QED
    BY <1>8, <2>3, <2>4 DEF ReceiptsTruthful
<1>10. HeadsTruthful'
  <2>1. latestSth # None => latestSth \in Sth /\ HeadTruthful(latestSth)
    BY <1>1 DEF TypeOK, Published, HeadsTruthful
  <2>2. \A n \in DOMAIN sthHistory :
          sthHistory[n] \in Sth /\ sthHistory[n].tree_size = n /\ HeadTruthful(sthHistory[n])
    BY <1>1 DEF TypeOK, IsTable, Published, HeadsTruthful
  <2>3. latestSth # None => HeadTruthful(latestSth)'
    BY <1>6, <1>8, <2>1 DEF HeadTruthful
  <2>4. \A n \in DOMAIN sthHistory : HeadTruthful(sthHistory[n])'
    BY <1>6, <1>8, <2>2 DEF HeadTruthful
  <2> QED
    BY <1>8, <2>2, <2>3, <2>4 DEF HeadsTruthful
<1>11. AnchorsLogged'
  BY <1>1, <1>3, <1>4, <1>8 DEF Published, AnchorsLogged
<1>12. ASSUME NEW q \in Instances
       PROVE  Carries(req[q])' /\ Covers(req[q])'
  <2>1. Carries(req[q]) /\ Covers(req[q]) /\ req[q] \in Request /\ WellFormed(req[q])
    BY <1>1 DEF IInv, Requests, Truth, Carried
  <2>2. CASE q = p
    <3>1. req[p].pc = "insert" /\ (Registers(req[p]) \/ Countersigns(req[p]))
      BY <2>1, <2>2 DEF InsertEntry, Running, WellFormed
    <3> DEFINE u == [req[p] EXCEPT !.pc = IF req[p].op = "register" THEN "receipt" ELSE "put_root"]
    <3>2. req'[p] = u
      BY <1>1 DEF InsertEntry, Advance
    <3>3. /\ u.pc = IF req[p].op = "register" THEN "receipt" ELSE "put_root"
          /\ u.op = req[p].op /\ u.arg = req[p].arg /\ u.idx = req[p].idx
      BY <1>1 DEF Request
    <3> HIDE DEF u
    <3>4. req[p].op # "get_sth"
      BY <3>1 DEF Registers, Countersigns
    <3>5. /\ req'[p].idx < Size'
          /\ logEntries'[req'[p].idx].kind = IF req[p].op = "register" THEN Scitt ELSE Root
          /\ logEntries'[req'[p].idx].payload_hash =
               IF req[p].op = "register" THEN EntryHash[req'[p].arg] ELSE req'[p].arg
      BY <1>3, <3>2, <3>3 DEF NewEntry
    <3> QED
      BY <2>2, <3>2, <3>3, <3>4, <3>5 DEF Carries, Covers, Logged
  <2>3. CASE q # p
    <3>1. req'[q] = req[q]
      BY <1>1, <2>3 DEF InsertEntry, Advance
    <3> DEFINE r == req[q]
    <3>2. r.pc = "receipt" => Logged(r.idx, Scitt, EntryHash[r.arg])'
      BY <1>7, <2>1, <3>1 DEF Carries, Request, Logged
    <3>3. r.pc \in {"put_root", "put_capsule"} => Logged(r.idx, Root, r.arg)'
      BY <1>7, <2>1, <3>1 DEF Carries, Request, Logged
    <3>4. \/ r.pc \in {"put_statement", "put_subject"}
          \/ r.pc \in {"sth_size", "sth_sign", "sth_put"} /\ r.op = "register"
          => ReceiptTruthful(EntryHash[r.arg], r.receipt)'
      BY <1>5, <2>1, <3>1 DEF Carries, WellFormed, ReceiptTruthful
    <3>5. r.pc \in {"sth_compare", "sth_put"} /\ r.head # None => HeadTruthful(r.head)'
      BY <1>6, <2>1, <3>1 DEF Carries, Request, HeadTruthful
    <3>6. Carries(req[q])'
      BY <3>1, <3>2, <3>3, <3>4, <3>5 DEF Carries, Logged, ReceiptTruthful, HeadTruthful
    <3>7. Covers(req[q])'
      <4>1. r.from \in Nat /\ Size <= Size'
        BY <1>3, <2>1 DEF Request
      <4> QED
        BY <1>3, <2>1, <3>1, <4>1 DEF Covers
    <3> QED
      BY <3>6, <3>7
  <2> QED
    BY <2>2, <2>3
<1> QED
  BY <1>9, <1>10, <1>11, <1>12 DEF Truth, Published, Carried

-----------------------------------------------------------------------------
(* Initially, and always.                                                  *)

\* The receipts the migration left in the cache are true of the rows it left.
LEMMA InitTruth == Init => Truth
<1> SUFFICES ASSUME Init PROVE Truth
  OBVIOUS
<1> DEFINE N == Len(PreMigration)
<1>1. N \in Nat
  BY ConstantsOK
<1>2. Size = N /\ IInv /\ Shape
  BY InitVerifies, InitInvariant, LogShape
<1>3. \A i \in 0 .. N - 1 :
        /\ logEntries[i].kind = Scitt
        /\ logEntries[i].payload_hash = LegacyHash[PreMigration[i + 1]]
  BY DEF Init, Migrated
<1>4. ASSUME NEW k \in 1 .. N
      PROVE  ReceiptTruthful(LegacyHash[PreMigration[k]],
                             [leaf_index |-> k - 1, tree_size |-> k, root |-> MigratedLeaves(k)])
  <2>1. k \in Nat /\ k <= N /\ k - 1 < k /\ k - 1 \in 0 .. N - 1 /\ k - 1 + 1 = k
    BY <1>1
  <2>2. Leaves = [j \in 1 .. N |-> <<LegacyHash[PreMigration[j]]>>]
    <3>1. ASSUME NEW j \in 1 .. N
          PROVE  LeafOf(j - 1) = <<LegacyHash[PreMigration[j]]>>
      <4>1. j - 1 \in 0 .. N - 1 /\ j - 1 + 1 = j
        BY <1>1
      <4> QED
        BY <1>3, <4>1 DEF LeafOf
    <3> QED
      BY <1>2, <3>1 DEF Shape
  <2>3. CtRoot(k) = MigratedLeaves(k)
    <3>1. CtRoot(k) = [j \in 1 .. k |-> Leaves[j]]
      BY <1>1, <1>2, <2>1 DEF CtRoot, Shape
    <3>2. \A j \in 1 .. k : j \in 1 .. N
      BY <1>1, <2>1
    <3> QED
      BY <2>2, <3>1, <3>2 DEF MigratedLeaves
  <2> DEFINE r == [leaf_index |-> k - 1, tree_size |-> k, root |-> MigratedLeaves(k)]
  <2>4. r.leaf_index = k - 1 /\ r.tree_size = k /\ r.root = MigratedLeaves(k)
    OBVIOUS
  <2>5. logEntries[k - 1].kind = Scitt /\ logEntries[k - 1].payload_hash = LegacyHash[PreMigration[k]]
    BY <1>3, <2>1
  <2> HIDE DEF r
  <2>6. ReceiptTruthful(LegacyHash[PreMigration[k]], r)
    BY <1>2, <2>1, <2>3, <2>4, <2>5 DEF ReceiptTruthful
  <2> QED
    BY <2>6 DEF r
<1>5. \A h \in DOMAIN statements : ReceiptTruthful(h, statements[h])
  <2> DEFINE hashes == {LegacyHash[PreMigration[k]] : k \in 1 .. N}
             row(h) == CHOOSE k \in 1 .. N : h = LegacyHash[PreMigration[k]]
  <2>1. \A h \in hashes : row(h) \in 1 .. N /\ h = LegacyHash[PreMigration[row(h)]]
    OBVIOUS
  <2>2. statements = [h \in hashes |->
          [leaf_index |-> row(h) - 1, tree_size |-> row(h), root |-> MigratedLeaves(row(h))]]
    BY DEF Init
  <2> HIDE DEF row
  <2>3. ASSUME NEW h \in hashes
        PROVE  ReceiptTruthful(h, statements[h])
    <3>1. PICK k \in 1 .. N : k = row(h) /\ h = LegacyHash[PreMigration[k]]
      BY <2>1
    <3>2. statements[h] = [leaf_index |-> k - 1, tree_size |-> k, root |-> MigratedLeaves(k)]
      BY <2>2, <3>1
    <3> QED
      BY <1>4, <3>1, <3>2
  <2> QED
    BY <2>2, <2>3
<1>6. Published
  BY <1>5 DEF Published, ReceiptsTruthful, HeadsTruthful, AnchorsLogged, Init
<1>7. Carried
  BY NoneDistinct DEF Carried, Carries, Covers, Init, NoRequest, Operations
<1> QED
  BY <1>6, <1>7 DEF Truth

\* A step of nothing.
LEMMA StutterKeepsTruth ==
  ASSUME TInv, UNCHANGED vars
  PROVE  Truth'
<1>1. UNCHANGED <<tables, issued, logEntries, req>>
  BY DEF vars, tables
<1>2. Published'
  BY <1>1, ReadsPublishNothing DEF TInv, Truth
<1>3. \A p \in Instances : Carries(req[p])' /\ Covers(req[p])'
  BY <1>1, StillCarries DEF TInv, Truth, Carried
<1> QED
  BY <1>2, <1>3 DEF Truth, Carried

\* Every store call of every operation keeps what was published true.
THEOREM TruthInductive == TInv /\ [Next]_vars => TInv'
<1> SUFFICES ASSUME TInv, [Next]_vars PROVE TInv'
  OBVIOUS
<1>1. IInv'
  BY Inductive DEF TInv
<1>2. CASE UNCHANGED vars
  BY <1>1, <1>2, StutterKeepsTruth DEF TInv
<1>3. ASSUME NEW p \in Instances, NEW s \in Submissions, RegisterCached(p, s) \/ RegisterMiss(p, s)
      PROVE  Truth'
  BY <1>3, RegisterKeepsTruth
<1>4. ASSUME NEW p \in Instances, NEW a \in Anchors, Anchor(p, a)
      PROVE  Truth'
  BY <1>4, AnchorKeepsTruth
<1>5. ASSUME NEW p \in Instances, GetSth(p) \/ RefreshSth(p) \/ Prune(p) \/ Fail(p)
      PROVE  Truth'
  BY <1>5, GetSthKeepsTruth, RefreshSthKeepsTruth, PruneKeepsTruth, FailKeepsTruth
<1>6. ASSUME NEW p \in Instances, Step(p)
      PROVE  Truth'
  BY <1>6, LookupLegacyKeepsTruth, AppendReadsKeepTruth, InsertEntryKeepsTruth,
     InsertConflictKeepsTruth, BuildReceiptKeepsTruth, PutStatementKeepsTruth,
     PutSubjectKeepsTruth, PutRootKeepsTruth, PutCapsuleKeepsTruth, CompareSthKeepsTruth,
     ReadSthSizeKeepsTruth, SignSthKeepsTruth, PutSthKeepsTruth DEF Step
<1> QED
  BY <1>1, <1>2, <1>3, <1>4, <1>5, <1>6 DEF Next, TInv

\* What was published is true of the log in every state N instances reach.
THEOREM TruthInvariance == Spec => []TInv
<1>1. Init => TInv
  BY InitInvariant, InitTruth DEF TInv
<1> QED
  BY <1>1, TruthInductive, PTL DEF Spec

\* No receipt, cached or in a client's hands, ever goes stale: its row is the
\* statement's and its root the root of the log's first tree_size leaves.
THEOREM ReceiptsAreTruthful == Spec => []ReceiptsTruthful
<1>1. TInv => ReceiptsTruthful
  BY DEF TInv, Truth, Published
<1> QED
  BY <1>1, TruthInvariance, PTL

\* Any two tree heads put_sth ever persisted are consistent: both commit to a
\* prefix of the log as it stands.
THEOREM HeadsAreTruthful == Spec => []HeadsTruthful
<1>1. TInv => HeadsTruthful
  BY DEF TInv, Truth, Published
<1> QED
  BY <1>1, TruthInvariance, PTL

\* A root get_countersigned_root finds is in the log, and a capsule's row holds the
\* anchor it was bound to.
THEOREM AnchorsAreLogged == Spec => []AnchorsLogged
<1>1. TInv => AnchorsLogged
  BY DEF TInv, Truth, Published
<1> QED
  BY <1>1, TruthInvariance, PTL

-----------------------------------------------------------------------------
(* Steps.                                                                  *)

\* The head get_sth answers with is true of the log and covers the rows the call
\* found: it served the head it had read, or signed and persisted a new one.
THEOREM SthIsFresh == Spec => GetSthFresh
<1> DEFINE Fresh(p) == /\ req[p].head # None
                       /\ HeadTruthful(req[p].head)
                       /\ req[p].head.tree_size >= req[p].from
           AllFresh == \A p \in Instances : ServesSth(p) => Fresh(p)
<1>1. TInv /\ [Next]_vars => AllFresh
  <2> SUFFICES ASSUME TInv, [Next]_vars, NEW p \in Instances, ServesSth(p)
               PROVE  Fresh(p)
    OBVIOUS
  <2> DEFINE r == req[p]
  <2>1. /\ r \in Request /\ req \in [Instances -> Request] /\ WellFormed(r)
        /\ Carries(r) /\ Covers(r) /\ Size \in Nat
    BY LogShape DEF TInv, IInv, TypeOK, Requests, Truth, Carried, Shape
  <2>2. r.op = "get_sth" /\ req'[p] = NoRequest /\ faults' = faults
    BY DEF ServesSth
  <2>3. NoRequest.op # "get_sth" /\ NoRequest.pc = "idle"
    BY NoneDistinct DEF NoRequest, Operations
  <2>4. r.pc \in {"sth_compare", "sth_size", "sth_sign", "sth_put"}
    BY <2>1, <2>2 DEF Covers
  <2>5. CompareSth(p) \/ ReadSthSize(p) \/ SignSth(p) \/ PutSth(p)
    <3>1. req' # req
      BY <2>2, <2>3
    <3>2. PICK q \in Instances :
            \/ \E s \in Submissions : RegisterCached(q, s) \/ RegisterMiss(q, s)
            \/ \E a \in Anchors : Anchor(q, a)
            \/ GetSth(q) \/ RefreshSth(q) \/ Prune(q)
            \/ Step(q)
            \/ Fail(q)
      BY <3>1 DEF Next, vars
    <3>3. q = p
      <4>1. ASSUME NEW u, req' = [req EXCEPT ![q] = u], q # p
            PROVE  FALSE
        BY <2>1, <2>2, <2>3, <4>1
      <4>2. \E u : req' = [req EXCEPT ![q] = u]
        BY <3>1, <3>2 DEF Step, RegisterCached, RegisterMiss, Anchor, GetSth, RefreshSth, Prune,
           Fail, LookupLegacy, ReadSize, ReadHead, InsertEntry, InsertConflict, BuildReceipt,
           PutStatement, PutSubject, PutRoot, PutCapsule, CompareSth, ReadSthSize, SignSth, PutSth,
           Begin, Advance, Finish
      <4> QED
        BY <4>1, <4>2
    <3>4. ~Fail(p)
      <4>1. faults \in Nat
        BY ConstantsOK DEF TInv, IInv, TypeOK
      <4> QED
        BY <2>2, <4>1 DEF Fail
    <3> QED
      BY <2>4, <3>1, <3>2, <3>3, <3>4 DEF Step, RegisterCached, RegisterMiss, Anchor, GetSth,
         RefreshSth, Prune, LookupLegacy, ReadSize, ReadHead, InsertEntry, InsertConflict,
         BuildReceipt, PutStatement, PutSubject, PutRoot, PutCapsule, Idle, Running
  <2>6. ~ReadSthSize(p) /\ ~SignSth(p)
    <3>1. ASSUME NEW u \in {"sth_sign", "sth_put"}, NEW v, Advance(p, u, [r EXCEPT !.idx = v])
          PROVE  FALSE
      BY <2>1, <2>2, <2>3, <3>1 DEF Advance, Request
    <3>2. ASSUME NEW u \in {"sth_sign", "sth_put"}, NEW v, Advance(p, u, [r EXCEPT !.head = v])
          PROVE  FALSE
      BY <2>1, <2>2, <2>3, <3>2 DEF Advance, Request
    <3> QED
      BY <3>1, <3>2 DEF ReadSthSize, SignSth
  <2>7. CASE CompareSth(p)
    <3>1. ~Advance(p, "sth_size", r)
      BY <2>1, <2>2, <2>3 DEF Advance, Request
    <3>2. r.pc = "sth_compare" /\ r.head # None /\ r.head.tree_size >= Size
      BY <2>7, <3>1 DEF CompareSth, Running, Current
    <3>3. r.from <= Size /\ HeadTruthful(r.head)
      BY <2>1, <2>2, <3>2 DEF Carries, Covers
    <3>4. r.from \in Nat /\ r.head.tree_size \in Nat
      BY <2>1, <3>2 DEF Request, Sth
    <3> QED
      BY <2>1, <3>2, <3>3, <3>4
  <2>8. CASE PutSth(p)
    <3>1. r.pc = "sth_put"
      BY <2>8 DEF PutSth, Running
    <3>2. r.head \in Sth /\ r.head # None
      BY <2>1, <3>1, NoneDistinct DEF WellFormed
    <3>3. HeadTruthful(r.head) /\ r.from <= r.head.tree_size
      BY <2>1, <2>2, <3>1, <3>2 DEF Carries, Covers
    <3>4. r.from \in Nat /\ r.head.tree_size \in Nat
      BY <2>1, <3>2 DEF Request, Sth
    <3> QED
      BY <3>2, <3>3, <3>4
  <2> QED
    BY <2>5, <2>6, <2>7, <2>8
<1>2. TInv /\ [Next]_vars => [AllFresh]_vars
  BY <1>1
<1> QED
  BY <1>2, TruthInvariance, PTL DEF Spec, GetSthFresh, AllFresh, Fresh

\* put_sth is the only write to signed_tree_heads, and its WHERE clause orders them.
THEOREM SthOrdered == Spec => SthNeverRegresses
<1> DEFINE Forward ==
      latestSth # None =>
        /\ latestSth' # None
        /\ \/ latestSth'.tree_size > latestSth.tree_size
           \/ /\ latestSth'.tree_size = latestSth.tree_size
              /\ latestSth'.timestamp >= latestSth.timestamp
<1>1. IInv /\ [Next]_vars => Forward
  <2> SUFFICES ASSUME IInv, [Next]_vars, latestSth # None PROVE Forward
    OBVIOUS
  <2>1. latestSth \in Sth /\ latestSth.tree_size \in Nat /\ latestSth.timestamp \in Nat
    BY ConstantsOK DEF IInv, TypeOK, Sth
  <2>2. CASE UNCHANGED latestSth
    BY <2>1, <2>2
  <2>3. ASSUME NEW p \in Instances, PutSth(p)
        PROVE  Forward
    <3>1. req[p].head \in Sth /\ req[p].head # None
      BY <2>3, NoneDistinct DEF IInv, Requests, WellFormed, PutSth, Running
    <3>2. latestSth' = latestSth \/ (latestSth' = req[p].head /\ Supersedes(req[p].head, latestSth))
      BY <2>3 DEF PutSth
    <3>3. req[p].head.tree_size \in Nat /\ req[p].head.timestamp \in Nat
      BY <3>1, ConstantsOK DEF Sth
    <3> QED
      BY <2>1, <3>1, <3>2, <3>3 DEF Supersedes
  <2>4. UNCHANGED latestSth \/ \E p \in Instances : PutSth(p)
    BY DEF Next, Step, vars, tables, RegisterCached, RegisterMiss, Anchor, GetSth, RefreshSth,
       Prune, Fail, LookupLegacy, ReadSize, ReadHead, InsertEntry, InsertConflict, BuildReceipt,
       PutStatement, PutSubject, PutRoot, PutCapsule, CompareSth, ReadSthSize, SignSth
  <2> QED
    BY <2>2, <2>3, <2>4
<1>2. IInv /\ [Next]_vars => [Forward]_vars
  BY <1>1
<1> QED
  BY <1>2, Invariance, PTL DEF Spec, SthNeverRegresses, Forward

-----------------------------------------------------------------------------
(* The log implements its promise to monitors.                             *)

\* What is published only grows: a receipt once answered stays answered, a head
\* once in the history stays there.
LEMMA PublishedGrows ==
  ASSUME [Next]_vars
  PROVE  /\ issued \subseteq issued'
         /\ \A n \in DOMAIN sthHistory :
              n \in DOMAIN sthHistory' /\ sthHistory'[n] = sthHistory[n]
<1>1. CASE UNCHANGED sthHistory
  BY <1>1 DEF Next, Step, vars, tables, RegisterCached, RegisterMiss, Anchor, GetSth, RefreshSth,
     Prune, Fail, LookupLegacy, ReadSize, ReadHead, InsertEntry, InsertConflict, BuildReceipt,
     PutStatement, PutSubject, PutRoot, PutCapsule, CompareSth, ReadSthSize, SignSth, PutSth
<1>2. ASSUME NEW p \in Instances, PutSth(p)
      PROVE  /\ issued \subseteq issued'
             /\ \A n \in DOMAIN sthHistory :
                  n \in DOMAIN sthHistory' /\ sthHistory'[n] = sthHistory[n]
  BY <1>2 DEF PutSth, PutIfAbsent, Put
<1>3. UNCHANGED sthHistory \/ \E p \in Instances : PutSth(p)
  BY DEF Next, Step, vars, tables, RegisterCached, RegisterMiss, Anchor, GetSth, RefreshSth,
     Prune, Fail, LookupLegacy, ReadSize, ReadHead, InsertEntry, InsertConflict, BuildReceipt,
     PutStatement, PutSubject, PutRoot, PutCapsule, CompareSth, ReadSthSize, SignSth
<1> QED
  BY <1>1, <1>2, <1>3

\* append_entry is Grow, a step that answers a client or persists a head Publish,
\* every other step a stutter.
LEMMA StepRefines == TInv /\ TInv' /\ [Next]_vars => [Promise!Next]_Promise!avars
<1> SUFFICES ASSUME TInv, TInv', [Next]_vars PROVE [Promise!Next]_Promise!avars
  OBVIOUS
<1> DEFINE made == {a.receipt.root : a \in issued} \cup {sthHistory[n].root : n \in DOMAIN sthHistory}
<1>1. IInv /\ IInv' /\ Shape
  BY LogShape DEF TInv
<1>2. CASE \E p \in Instances : InsertEntry(p)
  <2>1. PICK p \in Instances : InsertEntry(p)
    BY <1>2
  <2>2. /\ Len(Leaves') = Len(Leaves) + 1 /\ Size \in Nat /\ Len(Leaves) = Size
        /\ SubSeq(Leaves', 1, Size) = SubSeq(Leaves, 1, Size)
        /\ Leaves \in Seq(CtLeaf)
    BY <1>1, <2>1, LogGrows
  <2>3. SubSeq(Leaves, 1, Size) = Leaves
    BY <2>2
  <2>4. UNCHANGED made
    BY <2>1 DEF InsertEntry
  <2> QED
    BY <2>2, <2>3, <2>4 DEF Promise!Next, Promise!Grow
<1>3. CASE UNCHANGED logEntries
  <2>1. Size' = Size /\ Leaves' = Leaves
    BY <1>3, LogQuiet
  <2>2. ReceiptsTruthful' /\ HeadsTruthful' /\ TypeOK'
    BY DEF TInv, Truth, Published, IInv
  <2>3. made' \subseteq {SubSeq(Leaves, 1, n) : n \in 0 .. Len(Leaves)}
    <3>1. Len(Leaves) = Size /\ Size \in Nat
      BY <1>1 DEF Shape
    <3>2. ASSUME NEW a \in issued'
          PROVE  a.receipt.root \in {SubSeq(Leaves, 1, n) : n \in 0 .. Len(Leaves)}
      <4>1. a.receipt \in Receipt
        BY <2>2 DEF TypeOK
      <4>2. a.receipt.tree_size \in 0 .. Size /\ a.receipt.root = SubSeq(Leaves, 1, a.receipt.tree_size)
        BY <2>1, <2>2, <4>1 DEF ReceiptsTruthful, ReceiptTruthful, CtRoot, Receipt
      <4> QED
        BY <3>1, <4>2
    <3>3. ASSUME NEW n \in DOMAIN sthHistory'
          PROVE  sthHistory'[n].root \in {SubSeq(Leaves, 1, m) : m \in 0 .. Len(Leaves)}
      <4>1. sthHistory'[n] \in Sth
        BY <2>2 DEF TypeOK, IsTable
      <4>2. /\ sthHistory'[n].tree_size \in 0 .. Size
            /\ sthHistory'[n].root = SubSeq(Leaves, 1, sthHistory'[n].tree_size)
        BY <2>1, <2>2, <4>1 DEF HeadsTruthful, HeadTruthful, CtRoot, Sth
      <4> QED
        BY <3>1, <4>2
    <3> QED
      BY <3>2, <3>3
  <2>4. made \subseteq made'
    BY PublishedGrows
  <2> QED
    BY <2>1, <2>3, <2>4 DEF Promise!Next, Promise!Publish, Promise!Prefix
<1>4. UNCHANGED logEntries \/ \E p \in Instances : InsertEntry(p)
  BY DEF Next, Step, vars, tables, RegisterCached, RegisterMiss, Anchor, GetSth, RefreshSth,
     Prune, Fail, LookupLegacy, ReadSize, ReadHead, InsertConflict, BuildReceipt,
     PutStatement, PutSubject, PutRoot, PutCapsule, CompareSth, ReadSthSize, SignSth, PutSth
<1> QED
  BY <1>2, <1>3, <1>4

\* N instances over one database, with crashes and retention, keep the promise an
\* append-only log makes to monitors.
THEOREM LogImplements == Spec => ImplementsAppendOnlyLog
<1>1. Init => Promise!Init
  BY DEF Init, Promise!Init
<1> QED
  BY <1>1, StepRefines, TruthInvariance, PTL DEF Spec, ImplementsAppendOnlyLog, Promise!Spec
===============================================================================
