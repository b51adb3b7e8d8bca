------------------------- MODULE TransparencyLogSingle -------------------------
(***************************************************************************)
(* What one instance that does not fail promises of registration: one leaf *)
(* and one receipt per signing act, a tree head on record for every        *)
(* receipt, every subject indexed.  Theorems about TransparencyLog for any *)
(* submissions, anchors, log bound and number of rows migrated.            *)
(*                                                                         *)
(* With two instances, a store error or retention the code does not keep   *)
(* these promises (README, findings): each theorem names what it needs.    *)
(***************************************************************************)
EXTENDS TransparencyLogTruth

\* One instance, no store error or crash, no retention.
Alone ==
  /\ \A p, q \in Instances : p = q
  /\ ~Retention
  /\ MaxFaults = 0

\* A legacy hash is taken over all the bytes; bytes that are hashed as they
\* are under one scheme (a bare digest) are under the other.
Ideal ==
  /\ \A s, t \in Submissions : LegacyHash[s] = LegacyHash[t] => s = t
  /\ \A s, t \in Submissions : EntryHash[s] = LegacyHash[t] => EntryHash[t] = LegacyHash[t]

\* Nobody submits a malleated twin of an envelope logged before the migration:
\* the dual lookup finds the bytes that were logged and no others.
Migration ==
  \A s \in Submissions : \A k \in 1 .. Len(PreMigration) :
    EntryHash[s] = EntryHash[PreMigration[k]] =>
      LegacyHash[PreMigration[k]] \in {LegacyHash[s], EntryHash[s]}

\* The subject claim is in the protected header, so twins share it; the index
\* begins with the migrated scheme.
Subjects ==
  /\ \A s, t \in Submissions : EntryHash[s] = EntryHash[t] /\ s \in WithSubject => t \in WithSubject
  /\ \A s \in WithSubject : \A k \in 1 .. Len(PreMigration) : EntryHash[s] # LegacyHash[PreMigration[k]]

\* What makes two hashes of a submission the names of one signing act.
Untwinned == Ideal /\ Migration

-----------------------------------------------------------------------------
(* The invariant.                                                          *)

Old == {LegacyHash[PreMigration[k]] : k \in 1 .. Len(PreMigration)}

\* Row i is the leaf of hash h.
Leaf(i, h) == i \in DOMAIN logEntries /\ logEntries[i].kind = Scitt /\ logEntries[i].payload_hash = h

\* A registration before its insert, between insert and put_statement, and from
\* there to its answer.
Searching(r) == r.op = "register" /\ r.pc \in {"lookup_legacy", "size", "head", "insert"}
Writing(r)   == r.op = "register" /\ r.pc \in {"receipt", "put_statement"}
Stored(r)    == r.op = "register" /\ r.pc \in {"put_subject", "sth_size", "sth_sign", "sth_put"}

\* What holds of a request because nobody else is served.
Local(r) ==
  /\ Searching(r) \/ Writing(r) => ~Registered(r.arg)
  /\ Searching(r) /\ r.pc # "lookup_legacy" => LegacyHash[r.arg] \notin DOMAIN statements
  /\ Stored(r) => Registered(r.arg) /\ statements[EntryHash[r.arg]] = r.receipt
  /\ r.op = "register" =>
       /\ r.pc \in {"put_statement", "put_subject", "sth_size"} => r.receipt.tree_size = Size
       /\ r.pc = "sth_sign" => r.receipt.tree_size = r.idx
       /\ r.pc = "sth_put" => r.receipt.tree_size = r.head.tree_size

\* One leaf per hash, and not one under each hash of a submission; a leaf has a
\* cached receipt, except the one being registered.
Leafs ==
  /\ \A i, j, h : Leaf(i, h) /\ Leaf(j, h) => i = j
  /\ \A i, h : Leaf(i, h) =>
       /\ h \in DOMAIN statements \/ \E p \in Instances : Writing(req[p]) /\ EntryHash[req[p].arg] = h
       /\ h \in Old \/ \E s \in Submissions : h = EntryHash[s]
  /\ Untwinned =>
       \A s \in Submissions : \A i, j :
         Leaf(i, EntryHash[s]) /\ Leaf(j, LegacyHash[s]) => EntryHash[s] = LegacyHash[s]

\* The migrated receipts stay.
Kept ==
  \A h \in Old : h \in DOMAIN statements /\ statements[h].leaf_index < Len(PreMigration)

CachedFor(h, r) == h \in DOMAIN statements /\ statements[h] = r

\* Every answer is in the cache under one of the submission's hashes.
Answered ==
  \A a \in issued :
    /\ a.submission \in Submissions
    /\ CachedFor(EntryHash[a.submission], a.receipt) \/ CachedFor(LegacyHash[a.submission], a.receipt)

Headed(r) == r.leaf_index >= Len(PreMigration) => r.tree_size \in DOMAIN sthHistory

\* Every receipt has its head, except the one whose registration is under way.
Heads ==
  \A h \in DOMAIN statements :
    Headed(statements[h]) \/ \E p \in Instances : Stored(req[p]) /\ req[p].receipt = statements[h]

Promises == ReceiptHeadOnRecord /\ (Subjects => SubjectListed)

Sole == Leafs /\ Kept /\ Answered /\ Heads /\ Promises /\ \A p \in Instances : Local(req[p])

SInv == TInv /\ Sole

-----------------------------------------------------------------------------
(* Steps that leave log, cache, index and head history alone.              *)

\* Between its insert and its answer a registration goes on as itself.
Continues(r, u) ==
  /\ Writing(r) => Writing(u) /\ u.arg = r.arg
  /\ Stored(r) => Stored(u) /\ u.receipt = r.receipt
  /\ r.pc = "put_subject" => u.pc = "put_subject" /\ u.arg = r.arg

\* A step of the one request that writes nothing a promise is about.
LEMMA QuietSole ==
  ASSUME SInv, Alone, NEW p \in Instances, NEW u, req' = [req EXCEPT ![p] = u],
         UNCHANGED <<logEntries, statements, subjectIndex, sthHistory, issued>>,
         Continues(req[p], u), Local(u)
  PROVE  Sole'
<1>1. /\ req \in [Instances -> Request] /\ Leafs /\ Kept /\ Answered /\ Heads /\ Promises
      /\ \A q \in Instances : q = p
  BY DEF SInv, TInv, IInv, TypeOK, Sole, Alone
<1>2. req'[p] = u
  BY <1>1
<1>3. \A q \in Instances : Local(req[q])'
  <2>1. Size' = Size
    BY LogQuiet
  <2> QED
    BY <1>1, <1>2, <2>1 DEF Local, Searching, Writing, Stored, Registered
<1>4. Leafs'
  BY <1>1, <1>2 DEF Leafs, Leaf, Continues
<1>5. Kept' /\ Answered'
  BY <1>1 DEF Kept, Answered, CachedFor
<1>6. Heads'
  BY <1>1, <1>2 DEF Heads, Headed, Continues
<1>7. Promises'
  <2>1. ReceiptHeadOnRecord'
    BY <1>1 DEF Promises, ReceiptHeadOnRecord
  <2>2. Subjects => SubjectListed'
    BY <1>1, <1>2 DEF Promises, SubjectListed, Registered, Continues
  <2> QED
    BY <2>1, <2>2 DEF Promises
<1> QED
  BY <1>3, <1>4, <1>5, <1>6, <1>7 DEF Sole

\* A request that begins, or ends before its insert or without one, carries nothing
\* a promise is about.
LEMMA OtherRequest ==
  ASSUME NEW r, NEW u, ~Writing(r), ~Stored(r), r.pc # "put_subject", u.op # "register"
  PROVE  Continues(r, u) /\ Local(u)
BY DEF Continues, Local, Searching, Writing, Stored

\* A request that is over is no registration.
LEMMA NoRequestOp ==
  NoRequest.op # "register" /\ NoRequest.pc = "idle"
BY NoneDistinct DEF NoRequest, Operations

\* The dedup lookup misses: the statement is under neither hash when the insert comes.
LEMMA RegisterMissSole ==
  ASSUME SInv, Alone, NEW p \in Instances, NEW s \in Submissions, RegisterMiss(p, s)
  PROVE  Sole'
<1>1. PICK t \in Time :
        Begin(p, [NoRequest EXCEPT
                    !.pc = IF EntryHash[s] = LegacyHash[s] THEN "size" ELSE "lookup_legacy",
                    !.op = "register", !.arg = s, !.at = t])
  BY DEF RegisterMiss
<1> DEFINE u == [NoRequest EXCEPT
                   !.pc = IF EntryHash[s] = LegacyHash[s] THEN "size" ELSE "lookup_legacy",
                   !.op = "register", !.arg = s, !.at = t]
<1>2. /\ u.pc = IF EntryHash[s] = LegacyHash[s] THEN "size" ELSE "lookup_legacy"
      /\ u.op = "register" /\ u.arg = s
  BY DEF NoRequest
<1>3. req' = [req EXCEPT ![p] = u]
  BY <1>1 DEF Begin
<1> HIDE DEF u
<1>4. req[p].pc = "idle" /\ ~Registered(s)
  BY DEF RegisterMiss, Idle
<1>5. Continues(req[p], u)
  BY <1>4 DEF Continues, Writing, Stored
<1>6. Local(u)
  BY <1>2, <1>4 DEF Local, Searching, Writing, Stored, Registered
<1> QED
  BY <1>3, <1>5, <1>6, QuietSole DEF RegisterMiss, tables

\* _append_log's two reads, and the legacy lookup that finds nothing.
LEMMA SearchSole ==
  ASSUME SInv, Alone, NEW p \in Instances,
         ReadSize(p) \/ ReadHead(p) \/ (LookupLegacy(p) /\ LegacyHash[req[p].arg] \notin DOMAIN statements)
  PROVE  Sole'
<1>1. req[p] \in Request /\ Local(req[p])
  BY DEF SInv, TInv, IInv, TypeOK, Sole
<1>2. PICK u :
        /\ req' = [req EXCEPT ![p] = u]
        /\ u.pc \in {"size", "head", "insert"} /\ u.op = req[p].op /\ u.arg = req[p].arg
  <2>1. CASE ReadSize(p)
    <3> DEFINE u == [req[p] EXCEPT !.idx = Size, !.pc = IF Size > 0 THEN "head" ELSE "insert"]
    <3>1. req' = [req EXCEPT ![p] = u]
      BY <2>1 DEF ReadSize, Advance
    <3>2. u.pc \in {"head", "insert"} /\ u.op = req[p].op /\ u.arg = req[p].arg
      BY <1>1 DEF Request
    <3> HIDE DEF u
    <3> QED
      BY <3>1, <3>2
  <2>2. CASE ReadHead(p)
    <3> DEFINE last == KthIndex(Size)
               u == [req[p] EXCEPT !.prev = HeadHash(last, logEntries[last]), !.pc = "insert"]
    <3>1. req' = [req EXCEPT ![p] = u]
      BY <2>2 DEF ReadHead, Advance
    <3>2. u.pc = "insert" /\ u.op = req[p].op /\ u.arg = req[p].arg
      BY <1>1 DEF Request
    <3> HIDE DEF u
    <3> QED
      BY <3>1, <3>2
  <2>3. CASE LookupLegacy(p) /\ LegacyHash[req[p].arg] \notin DOMAIN statements
    BY <1>1, <2>3 DEF LookupLegacy, Advance, Request
  <2> QED
    BY <2>1, <2>2, <2>3
<1>3. req[p].pc \in {"lookup_legacy", "size", "head"}
  BY DEF ReadSize, ReadHead, LookupLegacy, Running
<1>4. Continues(req[p], u)
  BY <1>3 DEF Continues, Writing, Stored
<1>5. Local(u)
  <2>1. LegacyHash[req[p].arg] \notin DOMAIN statements \/ req[p].op # "register"
    BY <1>1, <1>3 DEF ReadSize, ReadHead, Running, Local, Searching
  <2> QED
    BY <1>1, <1>2, <1>3, <2>1 DEF Local, Searching, Writing, Stored, Registered
<1>6. UNCHANGED <<tables, issued>>
  BY DEF ReadSize, ReadHead, LookupLegacy
<1> QED
  BY <1>2, <1>4, <1>5, <1>6, QuietSole DEF tables

\* The receipt is signed over the log as the insert left it: nobody else appends.
LEMMA BuildReceiptSole ==
  ASSUME SInv, Alone, NEW p \in Instances, BuildReceipt(p)
  PROVE  Sole'
<1>1. req[p] \in Request /\ Local(req[p]) /\ WellFormed(req[p])
  BY DEF SInv, TInv, IInv, TypeOK, Requests, Sole
<1> DEFINE r == ReceiptFor(req[p].idx)
           u == [req[p] EXCEPT !.receipt = r, !.pc = "put_statement"]
<1>2. req[p].pc = "receipt" /\ req[p].op = "register" /\ req[p].arg \in Submissions
  BY <1>1 DEF BuildReceipt, Running, WellFormed, Registers
<1>3. req' = [req EXCEPT ![p] = u]
  BY DEF BuildReceipt, Advance
<1>4. /\ u.pc = "put_statement" /\ u.op = "register" /\ u.arg = req[p].arg
      /\ u.receipt = r /\ r.tree_size = Size
  BY <1>1, <1>2 DEF Request, ReceiptFor
<1> HIDE DEF u, r
<1>5. Continues(req[p], u)
  BY <1>2, <1>4 DEF Continues, Writing, Stored
<1>6. Local(u)
  BY <1>1, <1>2, <1>4 DEF Local, Searching, Writing, Stored
<1> QED
  BY <1>3, <1>5, <1>6, QuietSole DEF BuildReceipt, tables

\* The head is signed at the size of the receipt it follows.
LEMMA SigningSole ==
  ASSUME SInv, Alone, NEW p \in Instances, ReadSthSize(p) \/ SignSth(p)
  PROVE  Sole'
<1>1. req[p] \in Request /\ Local(req[p])
  BY DEF SInv, TInv, IInv, TypeOK, Sole
<1>2. CASE ReadSthSize(p)
  <2> DEFINE u == [req[p] EXCEPT !.idx = Size, !.pc = "sth_sign"]
  <2>1. req[p].pc = "sth_size" /\ req' = [req EXCEPT ![p] = u]
    BY <1>2 DEF ReadSthSize, Running, Advance
  <2>2. /\ u.pc = "sth_sign" /\ u.op = req[p].op /\ u.arg = req[p].arg
        /\ u.receipt = req[p].receipt /\ u.idx = Size
    BY <1>1 DEF Request
  <2> HIDE DEF u
  <2>3. Continues(req[p], u)
    BY <2>1, <2>2 DEF Continues, Writing, Stored
  <2>4. Local(u)
    BY <1>1, <2>1, <2>2 DEF Local, Searching, Writing, Stored
  <2> QED
    BY <1>2, <2>1, <2>3, <2>4, QuietSole DEF ReadSthSize, tables
<1>3. CASE SignSth(p)
  <2>1. PICK t \in Time : Advance(p, "sth_put", [req[p] EXCEPT !.head = HeadAt(req[p].idx, t)])
    BY <1>3 DEF SignSth
  <2> DEFINE h == HeadAt(req[p].idx, t)
             u == [req[p] EXCEPT !.head = h, !.pc = "sth_put"]
  <2>2. req[p].pc = "sth_sign" /\ req' = [req EXCEPT ![p] = u]
    BY <1>3, <2>1 DEF SignSth, Running, Advance
  <2>3. /\ u.pc = "sth_put" /\ u.op = req[p].op /\ u.arg = req[p].arg
        /\ u.receipt = req[p].receipt /\ u.head = h /\ h.tree_size = req[p].idx
    BY <1>1 DEF Request, HeadAt
  <2> HIDE DEF u, h
  <2>4. Continues(req[p], u)
    BY <2>2, <2>3 DEF Continues, Writing, Stored
  <2>5. Local(u)
    BY <1>1, <2>2, <2>3 DEF Local, Searching, Writing, Stored
  <2> QED
    BY <1>3, <2>2, <2>4, <2>5, QuietSole DEF SignSth, tables
<1> QED
  BY <1>2, <1>3

\* anchor, get_sth, the refresh daemon, and a request that ends in a conflict.
LEMMA OthersSole ==
  ASSUME SInv, Alone, NEW p \in Instances,
         \/ \E a \in Anchors : Anchor(p, a)
         \/ GetSth(p) \/ RefreshSth(p) \/ CompareSth(p) \/ PutRoot(p) \/ PutCapsule(p)
         \/ InsertConflict(p)
  PROVE  Sole'
<1>1. req[p] \in Request /\ WellFormed(req[p])
  BY DEF SInv, TInv, IInv, TypeOK, Requests
<1>2. PICK u : req' = [req EXCEPT ![p] = u] /\ u.op # "register"
  <2>1. CASE \E a \in Anchors : Anchor(p, a)
    <3>1. PICK a \in Anchors, t \in Time :
            Begin(p, [NoRequest EXCEPT !.pc = "size", !.op = "anchor", !.arg = a, !.at = t])
      BY <2>1 DEF Anchor
    <3>2. [NoRequest EXCEPT !.pc = "size", !.op = "anchor", !.arg = a, !.at = t].op = "anchor"
      BY DEF NoRequest
    <3> QED
      BY <3>1, <3>2 DEF Begin
  <2>2. CASE GetSth(p)
    <3> DEFINE u == [NoRequest EXCEPT !.pc = "sth_compare", !.op = "get_sth",
                                      !.head = latestSth, !.from = Size]
    <3>1. u.op = "get_sth"
      BY DEF NoRequest
    <3> HIDE DEF u
    <3>2. req' = [req EXCEPT ![p] = u]
      BY <2>2 DEF GetSth, Begin, u
    <3> QED
      BY <3>1, <3>2
  <2>3. CASE RefreshSth(p)
    <3>1. [NoRequest EXCEPT !.pc = "sth_size", !.op = "refresh"].op = "refresh"
      BY DEF NoRequest
    <3> QED
      BY <2>3, <3>1 DEF RefreshSth, Begin
  <2>4. CASE CompareSth(p)
    <3>1. req[p].op # "register"
      BY <1>1, <2>4 DEF CompareSth, Running, WellFormed
    <3> QED
      BY <1>1, <2>4, <3>1, NoRequestOp DEF CompareSth, Advance, Finish, Request
  <2>5. CASE PutRoot(p)
    <3>1. req[p].op # "register"
      BY <1>1, <2>5 DEF PutRoot, Running, WellFormed, Countersigns
    <3> QED
      BY <1>1, <2>5, <3>1, NoRequestOp DEF PutRoot, Advance, Finish, Request
  <2>6. CASE PutCapsule(p) \/ InsertConflict(p)
    BY <2>6, NoRequestOp DEF PutCapsule, InsertConflict, Finish
  <2> QED
    BY <2>1, <2>2, <2>3, <2>4, <2>5, <2>6
<1>3. /\ ~Writing(req[p]) /\ ~Stored(req[p]) /\ req[p].pc # "put_subject"
  BY <1>1 DEF Anchor, GetSth, RefreshSth, CompareSth, PutRoot, PutCapsule, InsertConflict,
     Idle, Running, Writing, Stored
<1>4. UNCHANGED <<logEntries, statements, subjectIndex, sthHistory, issued>>
  BY DEF Anchor, GetSth, RefreshSth, CompareSth, PutRoot, PutCapsule, InsertConflict, tables
<1> QED
  BY <1>2, <1>3, <1>4, OtherRequest, QuietSole

-----------------------------------------------------------------------------
(* Answers.                                                                *)

\* With one instance, a request that is not storing a receipt leaves no receipt
\* without its head.
LEMMA HeadOnRecord ==
  ASSUME SInv, Alone, NEW p \in Instances, ~Stored(req[p]), NEW h \in DOMAIN statements
  PROVE  Headed(statements[h])
BY DEF SInv, Sole, Heads, Alone

\* The lookup under the entry hash answers with the cached receipt.
LEMMA RegisterCachedSole ==
  ASSUME SInv, Alone, NEW p \in Instances, NEW s \in Submissions, RegisterCached(p, s)
  PROVE  Sole'
<1> DEFINE h == EntryHash[s]
           a == Answer(s, h, statements[h])
<1>1. /\ Leafs /\ Kept /\ Answered /\ Heads /\ Promises /\ \A q \in Instances : Local(req[q])
  BY DEF SInv, Sole
<1>2. /\ req[p].pc = "idle" /\ h \in DOMAIN statements /\ issued' = issued \cup {a}
      /\ UNCHANGED <<tables, req, faults>>
  BY DEF RegisterCached, Idle, Registered
<1>3. a.submission = s /\ a.receipt = statements[h]
  BY DEF Answer
<1>4. Headed(statements[h])
  BY <1>2, HeadOnRecord DEF Stored
<1> HIDE DEF a, h
<1>5. Answered'
  BY <1>1, <1>2, <1>3 DEF Answered, CachedFor, tables, h
<1>6. Promises'
  BY <1>1, <1>2, <1>3, <1>4 DEF Promises, ReceiptHeadOnRecord, SubjectListed, Registered, Headed, tables
<1>7. Leafs' /\ Kept' /\ Heads'
  BY <1>1, <1>2 DEF Leafs, Leaf, Kept, Heads, Headed, tables
<1>8. \A q \in Instances : Local(req[q])'
  <2>1. Size' = Size
    BY <1>2, LogQuiet DEF tables
  <2> QED
    BY <1>1, <1>2, <2>1 DEF Local, Registered, tables
<1> QED
  BY <1>5, <1>6, <1>7, <1>8 DEF Sole

\* So does the lookup under the legacy hash, and the request is over.
LEMMA LookupFoundSole ==
  ASSUME SInv, Alone, NEW p \in Instances, LookupLegacy(p),
         LegacyHash[req[p].arg] \in DOMAIN statements
  PROVE  Sole'
<1> DEFINE s == req[p].arg
           h == LegacyHash[s]
           a == Answer(s, h, statements[h])
<1>1. /\ req \in [Instances -> Request] /\ WellFormed(req[p])
      /\ Leafs /\ Kept /\ Answered /\ Heads /\ Promises /\ \A q \in Instances : Local(req[q]) /\ q = p
  BY DEF SInv, TInv, IInv, TypeOK, Requests, Sole, Alone
<1>2. /\ req[p].pc = "lookup_legacy" /\ issued' = issued \cup {a} /\ UNCHANGED tables
      /\ req' = [req EXCEPT ![p] = NoRequest] /\ h \in DOMAIN statements
  BY DEF LookupLegacy, Running, Finish
<1>3. s \in Submissions /\ a.submission = s /\ a.receipt = statements[h]
  BY <1>1, <1>2 DEF Answer, WellFormed, Registers
<1>4. Headed(statements[h])
  BY <1>2, HeadOnRecord DEF Stored
<1>5. req'[p] = NoRequest
  BY <1>1, <1>2
<1> HIDE DEF a, h, s
<1>6. Answered'
  BY <1>1, <1>2, <1>3 DEF Answered, CachedFor, tables, h, s
<1>7. ReceiptHeadOnRecord'
  BY <1>1, <1>2, <1>3, <1>4 DEF Promises, ReceiptHeadOnRecord, Headed, tables
<1>8. Subjects => SubjectListed'
  BY <1>1, <1>2 DEF Promises, SubjectListed, Registered, tables
<1>9. Leafs' /\ Kept' /\ Heads'
  <2>1. ~Writing(req[p]) /\ ~Stored(req[p])
    BY <1>2 DEF Writing, Stored
  <2> QED
    BY <1>1, <1>2, <2>1 DEF Leafs, Leaf, Kept, Heads, Headed, tables
<1>10. \A q \in Instances : Local(req[q])'
  BY <1>1, <1>5, NoRequestOp DEF Local, Searching, Writing, Stored
<1> QED
  BY <1>6, <1>7, <1>8, <1>9, <1>10 DEF Sole, Promises

\* put_statement: the receipt goes into the cache, which did not have one.
LEMMA PutStatementSole ==
  ASSUME SInv, Alone, NEW p \in Instances, PutStatement(p)
  PROVE  Sole'
<1> DEFINE s == req[p].arg
           h == EntryHash[s]
           u == [req[p] EXCEPT !.pc = AfterStatement(s)]
<1>1. /\ req \in [Instances -> Request] /\ req[p] \in Request /\ WellFormed(req[p]) /\ Local(req[p])
      /\ Leafs /\ Kept /\ Answered /\ Heads /\ Promises /\ \A q \in Instances : q = p
  BY DEF SInv, TInv, IInv, TypeOK, Requests, Sole, Alone
<1>2. /\ req[p].pc = "put_statement" /\ req[p].op = "register" /\ s \in Submissions
      /\ UNCHANGED <<logEntries, subjectIndex, sthHistory, issued>>
      /\ req' = [req EXCEPT ![p] = u]
  BY <1>1 DEF PutStatement, Running, Advance, WellFormed, Registers
<1>3. h \notin DOMAIN statements
  BY <1>1, <1>2 DEF Local, Writing, Registered
<1>4. /\ DOMAIN statements' = DOMAIN statements \cup {h}
      /\ statements'[h] = req[p].receipt
      /\ \A k \in DOMAIN statements : statements'[k] = statements[k]
  BY <1>3 DEF PutStatement, PutIfAbsent, Put
<1>5. /\ u.pc = AfterStatement(s) /\ u.op = "register" /\ u.arg = s /\ u.receipt = req[p].receipt
      /\ req'[p] = u
  BY <1>1, <1>2 DEF Request
<1>6. u.pc = IF s \in WithSubject THEN "put_subject" ELSE "sth_size"
  BY <1>5 DEF AfterStatement
<1> HIDE DEF u, h, s
<1>7. Stored(u) /\ ~Writing(u)
  BY <1>5, <1>6 DEF Stored, Writing
<1>8. Leafs'
  <2>1. \A i, k : Leaf(i, k) => k \in DOMAIN statements'
    BY <1>1, <1>4 DEF Leafs, h, s
  <2> QED
    BY <1>1, <1>2, <2>1 DEF Leafs, Leaf
<1>9. Kept' /\ Answered'
  BY <1>1, <1>2, <1>3, <1>4 DEF Kept, Answered, CachedFor
<1>10. Heads'
  <2>1. ~Stored(req[p])
    BY <1>2 DEF Stored
  <2> QED
    BY <1>1, <1>2, <1>4, <1>5, <1>7, <2>1 DEF Heads, Headed
<1>11. ReceiptHeadOnRecord'
  BY <1>1, <1>2 DEF Promises, ReceiptHeadOnRecord
<1>12. Subjects => SubjectListed'
  <2> SUFFICES ASSUME Subjects PROVE SubjectListed'
    OBVIOUS
  <2>1. ASSUME NEW t \in WithSubject, EntryHash[t] = h
        PROVE  req'[p].pc = "put_subject" /\ EntryHash[req'[p].arg] = EntryHash[t]
    <3>1. s \in WithSubject
      BY <1>2, <2>1, ConstantsOK DEF Subjects, h
    <3> QED
      BY <1>5, <1>6, <2>1, <3>1 DEF h
  <2>2. req[p].pc # "put_subject"
    BY <1>2
  <2> QED
    BY <1>1, <1>2, <1>4, <2>1, <2>2 DEF Promises, SubjectListed, Registered
<1>13. \A q \in Instances : Local(req[q])'
  <2>1. Size' = Size
    BY <1>2, LogQuiet
  <2>2. req[p].receipt.tree_size = Size
    BY <1>1, <1>2 DEF Local
  <2>3. /\ ~Searching(u) /\ EntryHash[u.arg] \in DOMAIN statements'
        /\ statements'[EntryHash[u.arg]] = u.receipt
    BY <1>4, <1>5, <1>6 DEF Searching, h
  <2>4. Local(req[p])'
    BY <1>5, <1>6, <1>7, <2>1, <2>2, <2>3 DEF Local, Registered, Searching, Writing, Stored
  <2> QED
    BY <1>1, <2>4
<1> QED
  BY <1>8, <1>9, <1>10, <1>11, <1>12, <1>13 DEF Sole, Promises

\* The subject is indexed before the head advances.
LEMMA PutSubjectSole ==
  ASSUME SInv, Alone, NEW p \in Instances, PutSubject(p)
  PROVE  Sole'
<1> DEFINE s == req[p].arg
           u == [req[p] EXCEPT !.pc = "sth_size"]
<1>1. /\ req \in [Instances -> Request] /\ req[p] \in Request /\ WellFormed(req[p]) /\ Local(req[p])
      /\ Leafs /\ Kept /\ Answered /\ Heads /\ Promises /\ \A q \in Instances : q = p
  BY DEF SInv, TInv, IInv, TypeOK, Requests, Sole, Alone
<1>2. /\ req[p].pc = "put_subject" /\ req[p].op = "register"
      /\ UNCHANGED <<logEntries, statements, sthHistory, issued>>
      /\ subjectIndex' = subjectIndex \cup {EntryHash[s]}
      /\ req' = [req EXCEPT ![p] = u]
  BY <1>1 DEF PutSubject, Running, Advance, WellFormed, Registers
<1>3. u.pc = "sth_size" /\ u.op = "register" /\ u.arg = s /\ u.receipt = req[p].receipt /\ req'[p] = u
  BY <1>1, <1>2 DEF Request
<1> HIDE DEF u
<1>4. Stored(u) /\ Stored(req[p]) /\ ~Writing(u) /\ ~Writing(req[p]) /\ ~Searching(u)
  BY <1>2, <1>3 DEF Stored, Writing, Searching
<1>5. Leafs' /\ Kept' /\ Answered'
  BY <1>1, <1>2, <1>4 DEF Leafs, Leaf, Kept, Answered, CachedFor
<1>6. Heads'
  BY <1>1, <1>2, <1>3, <1>4 DEF Heads, Headed
<1>7. Promises'
  <2>1. Subjects => SubjectListed'
    BY <1>1, <1>2 DEF Promises, SubjectListed, Registered
  <2> QED
    BY <1>1, <1>2, <2>1 DEF Promises, ReceiptHeadOnRecord
<1>8. \A q \in Instances : Local(req[q])'
  <2>1. Size' = Size
    BY <1>2, LogQuiet
  <2> QED
    BY <1>1, <1>2, <1>3, <1>4, <2>1 DEF Local, Registered
<1> QED
  BY <1>5, <1>6, <1>7, <1>8 DEF Sole

\* put_sth: the head goes on record at the receipt's tree size, then the client
\* has its answer.
LEMMA PutSthSole ==
  ASSUME SInv, Alone, NEW p \in Instances, PutSth(p)
  PROVE  Sole'
<1> DEFINE r == req[p]
           a == Answer(r.arg, EntryHash[r.arg], r.receipt)
<1>1. /\ req \in [Instances -> Request] /\ WellFormed(r) /\ Local(r)
      /\ Leafs /\ Kept /\ Answered /\ Heads /\ Promises /\ \A q \in Instances : q = p
  BY DEF SInv, TInv, IInv, TypeOK, Requests, Sole, Alone
<1>2. /\ r.pc = "sth_put" /\ UNCHANGED <<logEntries, statements, subjectIndex>>
      /\ req' = [req EXCEPT ![p] = NoRequest]
      /\ issued' = IF r.op = "register" THEN issued \cup {a} ELSE issued
  BY DEF PutSth, Running, Finish
<1>3. DOMAIN sthHistory' = DOMAIN sthHistory \cup {r.head.tree_size}
  BY DEF PutSth, PutIfAbsent, Put
<1>4. req'[p] = NoRequest /\ ~Writing(NoRequest) /\ ~Stored(NoRequest)
  BY <1>1, <1>2, NoRequestOp DEF Writing, Stored
<1>5. /\ a.submission = r.arg /\ a.receipt = r.receipt
  BY DEF Answer
<1>6. Stored(r) => /\ r.arg \in Submissions /\ CachedFor(EntryHash[r.arg], r.receipt)
                   /\ r.receipt.tree_size \in DOMAIN sthHistory'
  BY <1>1, <1>2, <1>3 DEF Stored, WellFormed, Local, CachedFor, Registered
<1>7. r.op = "register" => Stored(r)
  BY <1>2 DEF Stored
<1>8. ~Writing(r) /\ r.pc # "put_subject"
  BY <1>2 DEF Writing
<1> HIDE DEF a
<1>9. Leafs' /\ Kept'
  BY <1>1, <1>2, <1>8 DEF Leafs, Leaf, Kept
<1>10. Answered'
  BY <1>1, <1>2, <1>5, <1>6, <1>7 DEF Answered, CachedFor
<1>11. Heads'
  BY <1>1, <1>2, <1>3, <1>6 DEF Heads, Headed
<1>12. ReceiptHeadOnRecord'
  BY <1>1, <1>2, <1>3, <1>5, <1>6, <1>7 DEF Promises, ReceiptHeadOnRecord
<1>13. Subjects => SubjectListed'
  BY <1>1, <1>2, <1>8 DEF Promises, SubjectListed, Registered
<1>14. \A q \in Instances : Local(req[q])'
  BY <1>1, <1>4, NoRequestOp DEF Local, Searching, Writing, Stored
<1> QED
  BY <1>9, <1>10, <1>11, <1>12, <1>13, <1>14 DEF Sole, Promises

-----------------------------------------------------------------------------
(* The insert.                                                             *)

\* append_entry at the end of the log: the rows that were there stay.
LEMMA InsertLeafs ==
  ASSUME SInv, NEW p \in Instances, InsertEntry(p)
  PROVE  \E n : /\ n \notin DOMAIN logEntries /\ DOMAIN logEntries' = DOMAIN logEntries \cup {n}
                /\ logEntries'[n] = NewEntry(req[p])
                /\ \A i \in DOMAIN logEntries : logEntries'[i] = logEntries[i]
BY DEF InsertEntry, KeyFree, Put

\* The row of a statement that neither lookup found is its only leaf.
LEMMA InsertEntrySole ==
  ASSUME SInv, Alone, NEW p \in Instances, InsertEntry(p)
  PROVE  Sole'
<1> DEFINE s == req[p].arg
           e == EntryHash[s]
           u == [req[p] EXCEPT !.pc = IF req[p].op = "register" THEN "receipt" ELSE "put_root"]
<1>1. /\ req \in [Instances -> Request] /\ req[p] \in Request /\ WellFormed(req[p]) /\ Local(req[p])
      /\ Leafs /\ Kept /\ Answered /\ Heads /\ Promises /\ \A q \in Instances : q = p
  BY DEF SInv, TInv, IInv, TypeOK, Requests, Sole, Alone
<1>2. /\ req[p].pc = "insert" /\ UNCHANGED <<statements, subjectIndex, sthHistory, issued>>
      /\ req' = [req EXCEPT ![p] = u]
  BY DEF InsertEntry, Running, Advance
<1>3. /\ u.pc = IF req[p].op = "register" THEN "receipt" ELSE "put_root"
      /\ u.op = req[p].op /\ u.arg = s /\ req'[p] = u
  BY <1>1, <1>2 DEF Request
<1>4. PICK n : /\ n \notin DOMAIN logEntries /\ DOMAIN logEntries' = DOMAIN logEntries \cup {n}
               /\ logEntries'[n] = NewEntry(req[p])
               /\ \A i \in DOMAIN logEntries : logEntries'[i] = logEntries[i]
  BY InsertLeafs
<1> HIDE DEF u, s
<1>5. /\ ~Writing(req[p]) /\ ~Stored(req[p]) /\ ~Stored(u) /\ ~Searching(u)
      /\ req[p].op = "register" => Writing(u) /\ Searching(req[p])
  BY <1>2, <1>3 DEF Writing, Stored, Searching
<1>6. ASSUME NEW i, NEW h, Leaf(i, h)'
      PROVE  Leaf(i, h) \/ (i = n /\ h = e /\ req[p].op = "register")
  <2>1. i # n => Leaf(i, h)
    BY <1>4, <1>6 DEF Leaf
  <2>2. i = n => h = e /\ req[p].op = "register"
    BY <1>4, <1>6 DEF Leaf, NewEntry, Scitt, Root, s
  <2> QED
    BY <2>1, <2>2
<1>7. ASSUME NEW i, NEW h, Leaf(i, h)
      PROVE  i # n /\ h \in DOMAIN statements /\ (h \in Old \/ \E t \in Submissions : h = EntryHash[t])
  BY <1>1, <1>4, <1>5, <1>7 DEF Leafs, Leaf
<1>8. req[p].op = "register" =>
        s \in Submissions /\ e \notin DOMAIN statements /\ LegacyHash[s] \notin DOMAIN statements
  <2>1. req[p].op = "register" => s \in Submissions
    BY <1>1, <1>2, ConstantsOK DEF WellFormed, Registers, Countersigns, s
  <2> QED
    BY <1>1, <1>2, <1>5, <2>1 DEF Local, Registered, s
<1>9. Leafs'
  <2>1. ASSUME NEW i, NEW j, NEW h, Leaf(i, h)', Leaf(j, h)'
        PROVE  i = j
    BY <1>1, <1>6, <1>7, <1>8, <2>1 DEF Leafs
  <2>2. ASSUME NEW i, NEW h, Leaf(i, h)'
        PROVE  /\ h \in DOMAIN statements' \/ \E q \in Instances : Writing(req'[q]) /\ EntryHash[req'[q].arg] = h
               /\ h \in Old \/ \E t \in Submissions : h = EntryHash[t]
    <3>1. CASE Leaf(i, h)
      BY <1>2, <1>7, <3>1
    <3>2. CASE h = e /\ req[p].op = "register"
      BY <1>3, <1>5, <1>8, <3>2
    <3> QED
      BY <1>6, <2>2, <3>1, <3>2
  <2>3. ASSUME NEW t \in Submissions, NEW i, NEW j, Leaf(i, EntryHash[t])', Leaf(j, LegacyHash[t])',
               Untwinned, EntryHash[t] # LegacyHash[t]
        PROVE  FALSE
    <3>1. LegacyHash[t] # e \/ req[p].op # "register"
      BY <1>8, <2>3 DEF Untwinned, Ideal
    <3>2. Leaf(j, LegacyHash[t])
      BY <1>6, <2>3, <3>1
    <3>3. EntryHash[t] = e /\ req[p].op = "register"
      BY <1>1, <1>6, <2>3, <3>2 DEF Leafs
    <3>4. PICK k \in 1 .. Len(PreMigration) : LegacyHash[t] = LegacyHash[PreMigration[k]]
      BY <1>7, <2>3, <3>2 DEF Untwinned, Ideal, Old
    <3>5. PreMigration[k] \in Submissions /\ t = PreMigration[k]
      BY <2>3, <3>4, MigratedType DEF Untwinned, Ideal
    <3>6. LegacyHash[t] = LegacyHash[s]
      BY <1>8, <2>3, <3>3, <3>5 DEF Untwinned, Migration
    <3> QED
      BY <1>7, <1>8, <3>2, <3>3, <3>6
  <2> QED
    BY <2>1, <2>2, <2>3 DEF Leafs
<1>10. Kept' /\ Answered'
  BY <1>1, <1>2 DEF Kept, Answered, CachedFor
<1>11. Heads' /\ Promises'
  BY <1>1, <1>2, <1>5 DEF Heads, Headed, Promises, ReceiptHeadOnRecord, SubjectListed, Registered
<1>12. \A q \in Instances : Local(req[q])'
  <2>1. Local(req[p])'
    BY <1>2, <1>3, <1>5, <1>8 DEF Local, Registered, Searching, Writing, Stored
  <2> QED
    BY <1>1, <2>1
<1> QED
  BY <1>9, <1>10, <1>11, <1>12 DEF Sole

-----------------------------------------------------------------------------
(* Initially, and always.                                                  *)

\* What the migration left.
LEMMA InitSole == Init => Sole
<1> SUFFICES ASSUME Init PROVE Sole
  OBVIOUS
<1> DEFINE N == Len(PreMigration)
<1>1. N \in Nat /\ \A k \in 1 .. N : PreMigration[k] \in Submissions
  BY ConstantsOK
<1>2. DOMAIN logEntries = 0 .. N - 1 /\ \A i \in 0 .. N - 1 : logEntries[i] = Migrated(i)
  BY DEF Init
<1>3. ASSUME NEW i, NEW h, Leaf(i, h)
      PROVE  \E k \in 1 .. N : i = k - 1 /\ h = LegacyHash[PreMigration[k]]
  <2>1. i \in 0 .. N - 1 /\ i + 1 \in 1 .. N
    BY <1>1, <1>2, <1>3 DEF Leaf
  <2>2. h = LegacyHash[PreMigration[i + 1]] /\ i = (i + 1) - 1
    BY <1>2, <1>3, <2>1 DEF Leaf, Migrated
  <2> QED
    BY <2>1, <2>2
<1>4. DOMAIN statements = Old
  BY DEF Init, Old
<1>5. Leafs
  <2>1. ASSUME NEW i, NEW j, NEW h, Leaf(i, h), Leaf(j, h)
        PROVE  i = j
    <3>1. PICK k \in 1 .. N : i = k - 1 /\ h = LegacyHash[PreMigration[k]]
      BY <1>3, <2>1
    <3>2. PICK m \in 1 .. N : j = m - 1 /\ h = LegacyHash[PreMigration[m]]
      BY <1>3, <2>1
    <3> QED
      BY <3>1, <3>2, ConstantsOK
  <2>2. ASSUME NEW i, NEW h, Leaf(i, h)
        PROVE  h \in Old /\ h \in DOMAIN statements
    BY <1>3, <1>4, <2>2 DEF Old
  <2>3. ASSUME Untwinned, NEW t \in Submissions, NEW i, NEW j, Leaf(i, EntryHash[t]), Leaf(j, LegacyHash[t])
        PROVE  EntryHash[t] = LegacyHash[t]
    <3>1. PICK k \in 1 .. N : EntryHash[t] = LegacyHash[PreMigration[k]]
      BY <1>3, <2>3
    <3>2. PICK m \in 1 .. N : LegacyHash[t] = LegacyHash[PreMigration[m]]
      BY <1>3, <2>3
    <3>3. t = PreMigration[m]
      BY <1>1, <2>3, <3>2 DEF Untwinned, Ideal
    <3>4. EntryHash[PreMigration[k]] = EntryHash[t]
      BY <1>1, <2>3, <3>1 DEF Untwinned, Ideal
    <3>5. LegacyHash[PreMigration[m]] \in {LegacyHash[PreMigration[k]], EntryHash[PreMigration[k]]}
      BY <1>1, <2>3, <3>3, <3>4 DEF Untwinned, Migration
    <3> QED
      BY <3>1, <3>2, <3>4, <3>5
  <2> QED
    BY <2>1, <2>2, <2>3 DEF Leafs
<1>6. Kept
  <2>1. ASSUME NEW h \in Old
        PROVE  statements[h].leaf_index < N
    <3>1. PICK k \in 1 .. N : /\ k = CHOOSE m \in 1 .. N : h = LegacyHash[PreMigration[m]]
                              /\ statements[h] = [leaf_index |-> k - 1, tree_size |-> k,
                                                  root |-> MigratedLeaves(k)]
      BY <2>1 DEF Init, Old
    <3> QED
      BY <1>1, <3>1
  <2> QED
    BY <1>4, <2>1 DEF Kept
<1>7. Answered /\ ReceiptHeadOnRecord
  BY DEF Init, Answered, ReceiptHeadOnRecord
<1>8. Heads
  <2>1. \A h \in Old : statements[h].leaf_index \in Nat
    BY InitInvariant, <1>4 DEF IInv, TypeOK, IsTable, Receipt
  <2> QED
    BY <1>1, <1>4, <1>6, <2>1 DEF Kept, Heads, Headed
<1>9. Subjects => SubjectListed
  BY <1>4 DEF SubjectListed, Registered, Subjects, Old
<1>10. \A p \in Instances : Local(req[p])
  BY NoRequestOp DEF Init, Local, Searching, Writing, Stored
<1> QED
  BY <1>5, <1>6, <1>7, <1>8, <1>9, <1>10 DEF Sole, Promises

\* Every step of the one instance keeps its promises.
LEMMA SoleInductive == Alone /\ SInv /\ [Next]_vars => SInv'
<1> SUFFICES ASSUME Alone, SInv, [Next]_vars PROVE SInv'
  OBVIOUS
<1>1. TInv'
  BY TruthInductive DEF SInv
<1>3. CASE UNCHANGED vars
  <2>1. Size' = Size
    BY <1>3, LogQuiet DEF vars, tables
  <2> QED
    BY <1>1, <1>3, <2>1 DEF SInv, Sole, Leafs, Leaf, Kept, Answered, CachedFor, Heads, Headed,
       Promises, ReceiptHeadOnRecord, SubjectListed, Registered, Local, vars, tables
<1>4. ASSUME NEW p \in Instances, NEW s \in Submissions, RegisterCached(p, s) \/ RegisterMiss(p, s)
      PROVE  Sole'
  BY <1>4, RegisterCachedSole, RegisterMissSole
<1>5. ASSUME NEW p \in Instances,
             (\E a \in Anchors : Anchor(p, a)) \/ GetSth(p) \/ RefreshSth(p)
      PROVE  Sole'
  BY <1>5, OthersSole
<1>6. ASSUME NEW p \in Instances, Step(p)
      PROVE  Sole'
  BY <1>6, SearchSole, LookupFoundSole, InsertEntrySole, OthersSole, BuildReceiptSole,
     PutStatementSole, PutSubjectSole, SigningSole, PutSthSole DEF Step
<1>7. ASSUME NEW p \in Instances
      PROVE  ~Prune(p) /\ ~Fail(p)
  <2>1. faults \in Nat /\ faults >= 0
    BY DEF SInv, TInv, IInv, TypeOK
  <2> QED
    BY <2>1 DEF Alone, Prune, Fail
<1> QED
  BY <1>1, <1>3, <1>4, <1>5, <1>6, <1>7 DEF Next, SInv

\* One instance that does not fail keeps them always.
THEOREM SoleInvariance == ASSUME Alone PROVE Spec => []SInv
<1>1. Init => SInv
  BY InitInvariant, InitTruth, InitSole DEF SInv, TInv
<1>2. SInv /\ [Next]_vars => SInv'
  BY SoleInductive
<1> QED
  BY <1>1, <1>2, PTL DEF Spec

\* register_signed_statement_full: no signing act occupies two leaves, in
\* whatever order its bytes, their twins and its digest are submitted.
THEOREM ActsHaveOneLeaf == ASSUME Alone, Untwinned PROVE Spec => []OneLeafPerAct
<1>1. SInv => OneLeafPerAct
  <2> SUFFICES ASSUME SInv, NEW s \in Submissions, NEW i \in DOMAIN logEntries, NEW j \in DOMAIN logEntries,
                      {logEntries[i].payload_hash, logEntries[j].payload_hash}
                        \subseteq {EntryHash[s], LegacyHash[s]}
               PROVE  i = j
    BY DEF OneLeafPerAct
  <2>1. Leafs /\ logEntries[i] \in Entry /\ logEntries[j] \in Entry
    BY DEF SInv, Sole, TInv, IInv, TypeOK, IsTable
  <2>2. EntryHash[s] \notin Anchors /\ LegacyHash[s] \notin Anchors
    BY HashTypes, ConstantsOK
  <2>3. Leaf(i, logEntries[i].payload_hash) /\ Leaf(j, logEntries[j].payload_hash)
    BY <2>1, <2>2 DEF Entry, Leaf
  <2> QED
    BY <2>1, <2>3 DEF Leafs
<1> QED
  BY <1>1, SoleInvariance, PTL

\* Every submission of one signing act is answered with the same receipt.
THEOREM ActsHaveOneReceipt == ASSUME Alone, Untwinned PROVE Spec => []OneReceipt
<1>1. SInv => OneReceipt
  <2> SUFFICES ASSUME SInv, NEW a \in issued, NEW b \in issued,
                      EntryHash[a.submission] = EntryHash[b.submission]
               PROVE  a.receipt = b.receipt
    BY DEF OneReceipt
  <2> DEFINE s == a.submission
             t == b.submission
  <2>1. /\ s \in Submissions /\ t \in Submissions /\ Leafs
        /\ CachedFor(EntryHash[s], a.receipt) \/ CachedFor(LegacyHash[s], a.receipt)
        /\ CachedFor(EntryHash[t], b.receipt) \/ CachedFor(LegacyHash[t], b.receipt)
    BY DEF SInv, Sole, Answered
  <2>2. ASSUME NEW h \in DOMAIN statements
        PROVE  \E i : Leaf(i, h)
    <3>1. /\ ReceiptTruthful(h, statements[h]) /\ statements[h] \in Receipt
          /\ DOMAIN logEntries = 0 .. Size - 1 /\ Size \in Nat
      BY SizeType DEF SInv, TInv, IInv, TypeOK, IsTable, VerifyLog, Truth, Published, ReceiptsTruthful
    <3> QED
      BY <3>1 DEF ReceiptTruthful, Receipt, Leaf
  <2>3. ASSUME NEW v \in Submissions, LegacyHash[v] \in DOMAIN statements, EntryHash[v] \in DOMAIN statements
        PROVE  EntryHash[v] = LegacyHash[v]
    BY <2>1, <2>2, <2>3 DEF Leafs
  <2>4. ASSUME NEW v \in Submissions, LegacyHash[v] \in DOMAIN statements, EntryHash[v] # LegacyHash[v]
        PROVE  \E k \in 1 .. Len(PreMigration) : v = PreMigration[k]
    <3>1. LegacyHash[v] \in Old
      BY <2>1, <2>2, <2>4 DEF Leafs, Untwinned, Ideal
    <3> QED
      BY <2>4, <3>1, MigratedType DEF Old, Untwinned, Ideal
  <2>5. CASE LegacyHash[s] \in DOMAIN statements /\ LegacyHash[t] \in DOMAIN statements
             /\ EntryHash[s] # LegacyHash[s] /\ EntryHash[t] # LegacyHash[t]
    <3>1. LegacyHash[s] = LegacyHash[t]
      BY <2>1, <2>4, <2>5 DEF Untwinned, Migration
    <3>2. EntryHash[s] \notin DOMAIN statements
      BY <2>1, <2>3, <2>5
    <3> QED
      BY <2>1, <3>1, <3>2 DEF CachedFor
  <2> QED
    BY <2>1, <2>3, <2>5 DEF CachedFor
<1> QED
  BY <1>1, SoleInvariance, PTL

\* Who holds a receipt finds the head of its tree size in the history.
THEOREM ReceiptsHaveHeads == ASSUME Alone PROVE Spec => []ReceiptHeadOnRecord
<1>1. SInv => ReceiptHeadOnRecord
  BY DEF SInv, Sole, Promises
<1> QED
  BY <1>1, SoleInvariance, PTL

\* A registered statement that claims a subject is found by it.
THEOREM SubjectsAreListed == ASSUME Alone, Subjects PROVE Spec => []SubjectListed
<1>1. SInv => SubjectListed
  BY DEF SInv, Sole, Promises
<1> QED
  BY <1>1, SoleInvariance, PTL
=============================================================================
