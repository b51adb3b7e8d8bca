--------------------------- MODULE CheckpointProofs ---------------------------
(***************************************************************************)
(* Theorems about Checkpoint, for any set of instances, threads and        *)
(* checkpoints, any policy and any number of faults.                       *)
(*                                                                         *)
(* TipAccepted and AssertionsBridge are not inductive: what makes them so  *)
(* is what a thread between two store calls holds.  A thread that is about *)
(* to append with the grade continuity-witnessed compared its prior root   *)
(* with a tip that is long gone when other instances ran in between; that  *)
(* tip was accepted all the same, and acceptance is for good.  A thread    *)
(* that is about to move the tip has had its own checkpoint co-signed.     *)
(*                                                                         *)
(* The second half has the types, and the promise "never co-sign a         *)
(* rollback or fork" where the code keeps it: for any number of threads of *)
(* one instance, under the enforce policy and without store errors.  Two   *)
(* instances break it, and so does an error between append_entry and       *)
(* put_checkpoint_witness.                                                 *)
(*                                                                         *)
(* NoForkAccepted is not inductive: between append_entry and               *)
(* put_checkpoint_witness the tip lags behind what was accepted.  The      *)
(* invariant says where the end of the accepted history is at every        *)
(* moment: at the tip, or with the one thread that is past the append and  *)
(* holds the lock.                                                         *)
(***************************************************************************)
EXTENDS Checkpoint, FiniteSetTheorems, SequenceTheorems, TLAPS

\* Requests, of any log index: the log's bound plays no part in what follows.
Req == [pc : Pcs, cp : Checkpoints \cup {None}, grade : Grades \cup {None}, idx : Int]

\* Every thread has a request, between two store calls.
ThreadType == thread \in [Threads -> Req]

\* What earns the grade continuity-witnessed: the checkpoint extends its prior
\* root, and this witness accepted that root.
Bridges(cp) ==
  /\ IsPrefix(cp.prev, cp.root)
  /\ \E d \in Accepted : d.cp.root = cp.prev

\* What a request holds when it stands before the insert, and after it.
Honest(r) ==
  /\ r.pc \in {"size", "insert"} /\ r.grade = Witnessed => Bridges(r.cp)
  /\ r.pc \in {"put_statement", "put_tip"} => Graded(r.cp, r.grade) \in cosigned
  /\ r.pc = "put_tip" => r.grade # Registered

\* The grades a resubmission may read back from the record.
RecordedGrades == \A n \in DOMAIN records : records[n].grade \in Grades \cup {None}

\* The inductive invariant behind TipAccepted and AssertionsBridge.
AcceptInv ==
  /\ ThreadType /\ logSize \in Int /\ RecordedGrades
  /\ TipAccepted
  /\ AssertionsBridge
  /\ \A t \in Threads : Honest(thread[t])

-----------------------------------------------------------------------------
(* The tip and the assertions.                                             *)

USE DEF Req

\* A thread that answers, fails or is refused holds nothing.
LEMMA IdleThread ==
  /\ NoRequest \in Req
  /\ Honest(NoRequest) /\ Honest(NoRequest)'
BY DEF NoRequest, Pcs, Honest

\* A request that advances keeps what it holds beside its place.
LEMMA AdvanceFields ==
  ASSUME NEW r \in Req,
         NEW step \in Pcs
  PROVE  LET n == [r EXCEPT !.pc = step] IN
         /\ n \in Req
         /\ n.pc = step /\ n.cp = r.cp /\ n.grade = r.grade
OBVIOUS

\* A store call that co-signs nothing, moves one thread's request to an honest
\* state and leaves an accepted tip keeps the invariant.
LEMMA NothingCosigned ==
  ASSUME AcceptInv, UNCHANGED cosigned, logSize' \in Int, RecordedGrades', TipAccepted',
         NEW t \in Threads,
         NEW r \in Req,
         Honest(r), thread' = [thread EXCEPT ![t] = r]
  PROVE  AcceptInv'
<1>1. ThreadType'
  BY DEF AcceptInv, ThreadType
<1>2. AssertionsBridge'
  BY DEF AcceptInv, AssertionsBridge, Accepted
<1>3. ASSUME NEW u \in Threads
      PROVE  Honest(thread'[u]) /\ Honest(thread[u])'
  <2>1. thread'[u] = IF u = t THEN r ELSE thread[u]
    BY DEF AcceptInv, ThreadType
  <2>2. Honest(thread'[u])
    BY <2>1 DEF AcceptInv
  <2> QED
    BY <2>2 DEF Honest, Bridges, Accepted
<1> QED
  BY <1>1, <1>2, <1>3 DEF AcceptInv

\* SubmitNew and SubmitCached co-sign nothing: a request starts with no grade.
LEMMA SubmitAccepts ==
  ASSUME AcceptInv, NEW t \in Threads, NEW cp \in Checkpoints,
         SubmitNew(t, cp) \/ SubmitCached(t, cp)
  PROVE  AcceptInv'
<1> DEFINE r0 == [NoRequest EXCEPT !.cp = cp]
           r(step) == [r0 EXCEPT !.pc = step]
<1>1. ASSUME NEW step \in {"tip", "cached_grade"}
      PROVE  /\ r(step) \in Req
             /\ Honest(r(step))
  <2>1. /\ r0 \in Req
        /\ step \in Pcs
    BY DEF NoRequest, Pcs
  <2> HIDE DEF r0
  <2>2. /\ r(step) \in Req
        /\ r(step).pc = step
    BY <2>1, AdvanceFields
  <2> QED
    BY <2>2 DEF Honest
<1>2. CASE UNCHANGED <<thread, cosigned, tip, logSize, records>>
  BY <1>2 DEF AcceptInv, ThreadType, RecordedGrades, TipAccepted, AssertionsBridge, Accepted, Honest, Bridges
<1>3. CASE \E step \in {"tip", "cached_grade"} :
             /\ thread' = [thread EXCEPT ![t] = r(step)]
             /\ UNCHANGED <<cosigned, tip, logSize, records>>
  <2> PICK step \in {"tip", "cached_grade"} :
             /\ thread' = [thread EXCEPT ![t] = r(step)]
             /\ UNCHANGED <<cosigned, tip, logSize, records>>
    BY <1>3
  <2>1. TipAccepted' /\ logSize' \in Int /\ RecordedGrades'
    BY DEF AcceptInv, TipAccepted, RecordedGrades, Accepted
  <2> HIDE DEF r
  <2> QED
    BY <1>1, <2>1, NothingCosigned
<1>4. CASE SubmitNew(t, cp)
  BY <1>3, <1>4 DEF SubmitNew, Advance, tables
<1>5. CASE SubmitCached(t, cp)
  BY <1>2, <1>3, <1>5 DEF SubmitCached, Advance, tables
<1> QED
  BY <1>4, <1>5

\* Reading the grade of a cached checkpoint back from the record co-signs nothing.
LEMMA ReadCachedGradeAccepts ==
  ASSUME AcceptInv, NEW t \in Threads, ReadCachedGrade(t)
  PROVE  AcceptInv'
<1> DEFINE q == thread[t]
           n == Len(q.cp.root)
           g == IF n \in DOMAIN records THEN records[n].grade ELSE None
           r0 == [q EXCEPT !.grade = g]
           r == [r0 EXCEPT !.pc = "record"]
<1>1. q \in Req /\ g \in Grades \cup {None}
  BY DEF AcceptInv, ThreadType, RecordedGrades
<1>2. TipAccepted' /\ logSize' \in Int /\ RecordedGrades'
  BY DEF AcceptInv, TipAccepted, RecordedGrades, Accepted, ReadCachedGrade, tables
<1>3. thread' = [thread EXCEPT ![t] = r]
  BY DEF ReadCachedGrade, Advance
<1> HIDE DEF g
<1>4. r0 \in Req
  BY <1>1
<1> HIDE DEF r0
<1>5. r \in Req /\ r.pc = "record"
  BY <1>4, AdvanceFields DEF Pcs
<1>6. Honest(r)
  BY <1>5 DEF Honest
<1> QED
  BY <1>2, <1>3, <1>5, <1>6, NothingCosigned DEF ReadCachedGrade

\* The gate claims the grade continuity-witnessed only for a checkpoint that
\* bridges from the tip, and the tip was accepted.
LEMMA CheckTipAccepts ==
  ASSUME AcceptInv, NEW t \in Threads, CheckTip(t)
  PROVE  AcceptInv'
<1> DEFINE q == thread[t]
           g == Grade(q.cp, tip)
<1>1. q \in Req /\ g \in Grades \cup {None}
  BY DEF AcceptInv, ThreadType, Grade, Grades
<1>2. TipAccepted' /\ logSize' \in Int /\ RecordedGrades'
  BY DEF AcceptInv, TipAccepted, RecordedGrades, Accepted, CheckTip, tables
<1>3. g = Witnessed => Bridges(q.cp)
  <2> SUFFICES ASSUME g = Witnessed PROVE Bridges(q.cp)
    OBVIOUS
  <2>1. Witnessed \notin {FirstSeen, Registered, Chained, None}
    BY ConstantsOK DEF Grades, FirstSeen, Registered, Witnessed, Chained
  <2>2. tip # None /\ MatchesTip(q.cp, tip) /\ VerifyConsistency(tip, q.cp.root)
    BY <2>1 DEF Grade
  <2> QED
    BY <2>2 DEF MatchesTip, VerifyConsistency, Bridges, AcceptInv, TipAccepted
<1>4. CASE Finish(t)
  BY <1>2, <1>4, IdleThread, NothingCosigned DEF CheckTip, Finish
<1>5. CASE Advance(t, "size", [q EXCEPT !.grade = g])
  <2> DEFINE r0 == [q EXCEPT !.grade = g]
             r == [r0 EXCEPT !.pc = "size"]
  <2>1. thread' = [thread EXCEPT ![t] = r]
    BY <1>5 DEF Advance
  <2> HIDE DEF g
  <2>2. r0 \in Req /\ r0.grade = g /\ r0.cp = q.cp
    BY <1>1
  <2> HIDE DEF r0
  <2>3. r \in Req /\ r.pc = "size" /\ r.grade = g /\ r.cp = q.cp
    BY <2>2, AdvanceFields DEF Pcs
  <2>4. Honest(r)
    BY <1>3, <2>3 DEF Honest
  <2> QED
    BY <1>2, <2>1, <2>3, <2>4, NothingCosigned DEF CheckTip
<1> QED
  BY <1>4, <1>5 DEF CheckTip

\* Reading the next row index leaves what the gate found.
LEMMA ReadSizeAccepts ==
  ASSUME AcceptInv, NEW t \in Threads, ReadSize(t)
  PROVE  AcceptInv'
<1> DEFINE q == thread[t]
           r0 == [q EXCEPT !.idx = logSize]
           r == [r0 EXCEPT !.pc = "insert"]
<1>1. q \in Req /\ Honest(q) /\ q.pc = "size" /\ logSize \in Int
  BY DEF AcceptInv, ThreadType, ReadSize, Running
<1>2. TipAccepted' /\ logSize' \in Int /\ RecordedGrades'
  BY DEF AcceptInv, TipAccepted, RecordedGrades, Accepted, ReadSize, tables
<1>3. thread' = [thread EXCEPT ![t] = r]
  BY DEF ReadSize, Advance
<1>4. r0 \in Req /\ r0.grade = q.grade /\ r0.cp = q.cp
  BY <1>1
<1> HIDE DEF r0
<1>5. r \in Req /\ r.pc = "insert" /\ r.grade = q.grade /\ r.cp = q.cp
  BY <1>4, AdvanceFields DEF Pcs
<1>6. Honest(r)
  BY <1>1, <1>5 DEF Honest
<1> QED
  BY <1>2, <1>3, <1>5, <1>6, NothingCosigned DEF ReadSize

\* append_entry co-signs what the gate found: an assertion bridges, and every
\* checkpoint accepted before is still accepted.
LEMMA InsertEntryAccepts ==
  ASSUME AcceptInv, NEW t \in Threads, InsertEntry(t)
  PROVE  AcceptInv'
<1> DEFINE q == thread[t]
           r == [q EXCEPT !.pc = "put_statement"]
<1>1. q \in Req /\ Honest(q) /\ q.pc = "insert" /\ logSize' \in Int
  BY DEF AcceptInv, ThreadType, InsertEntry, Running
<1>2. thread' = [thread EXCEPT ![t] = r] /\ cosigned' = cosigned \cup {Graded(q.cp, q.grade)}
  BY DEF InsertEntry, Advance
<1>3. r \in Req /\ r.pc = "put_statement" /\ r.cp = q.cp /\ r.grade = q.grade
  BY <1>1, AdvanceFields DEF Pcs
<1>4. ThreadType' /\ RecordedGrades'
  BY <1>2, <1>3 DEF AcceptInv, ThreadType, RecordedGrades, InsertEntry
<1>5. cosigned \subseteq cosigned' /\ Accepted \subseteq Accepted'
  BY <1>2 DEF Accepted
<1>6. TipAccepted'
  BY <1>5 DEF AcceptInv, TipAccepted, InsertEntry
<1>7. \A cp : Bridges(cp) => Bridges(cp)'
  BY <1>5 DEF Bridges
<1>8. AssertionsBridge'
  <2> SUFFICES ASSUME NEW c \in cosigned', c.grade = Witnessed
               PROVE  Bridges(c.cp)'
    BY DEF AssertionsBridge, Bridges
  <2>1. CASE c \in cosigned
    BY <1>7, <2>1 DEF AcceptInv, AssertionsBridge, Bridges
  <2>2. CASE c = Graded(q.cp, q.grade)
    <3>1. c.cp = q.cp /\ q.grade = Witnessed
      BY <2>2 DEF Graded
    <3>2. Bridges(q.cp)
      BY <1>1, <3>1 DEF Honest
    <3> QED
      BY <1>7, <3>1, <3>2
  <2> QED
    BY <1>2, <2>1, <2>2
<1>9. ASSUME NEW u \in Threads
      PROVE  Honest(thread[u])'
  <2>1. CASE u = t
    <3>1. thread'[u] = r
      BY <1>2, <2>1 DEF AcceptInv, ThreadType
    <3>2. Graded(r.cp, r.grade) \in cosigned'
      BY <1>2, <1>3
    <3> QED
      BY <1>3, <3>1, <3>2 DEF Honest
  <2>2. CASE u # t
    <3>1. thread'[u] = thread[u] /\ Honest(thread[u])
      BY <1>2, <2>2 DEF AcceptInv, ThreadType
    <3> QED
      BY <1>5, <1>7, <3>1 DEF Honest
  <2> QED
    BY <2>1, <2>2
<1> QED
  BY <1>1, <1>4, <1>6, <1>8, <1>9 DEF AcceptInv

\* put_statement moves on to the tip only with a checkpoint that is co-signed
\* and not merely registered.
LEMMA PutStatementAccepts ==
  ASSUME AcceptInv, NEW t \in Threads, PutStatement(t)
  PROVE  AcceptInv'
<1> DEFINE q == thread[t]
           r(step) == [q EXCEPT !.pc = step]
<1>1. q \in Req /\ Graded(q.cp, q.grade) \in cosigned
  BY DEF AcceptInv, ThreadType, PutStatement, Running, Honest
<1>2. TipAccepted' /\ logSize' \in Int /\ RecordedGrades'
  BY DEF AcceptInv, TipAccepted, RecordedGrades, Accepted, PutStatement
<1>3. PICK step \in {"put_tip", "record"} :
        thread' = [thread EXCEPT ![t] = r(step)] /\ (step = "put_tip" => MovesTip(q.grade))
  BY DEF PutStatement, Advance
<1>4. r(step) \in Req /\ r(step).pc = step /\ r(step).cp = q.cp /\ r(step).grade = q.grade
  BY <1>1, AdvanceFields DEF Pcs
<1> HIDE DEF r
<1>5. Honest(r(step))
  BY <1>1, <1>3, <1>4 DEF Honest, MovesTip
<1> QED
  BY <1>2, <1>3, <1>4, <1>5, NothingCosigned DEF PutStatement

\* put_checkpoint_witness writes a root that is accepted, however late it comes.
LEMMA PutTipAccepts ==
  ASSUME AcceptInv, NEW t \in Threads, PutTip(t)
  PROVE  AcceptInv'
<1> DEFINE q == thread[t]
           r == [q EXCEPT !.pc = "record"]
<1>1. q \in Req /\ Graded(q.cp, q.grade) \in cosigned /\ q.grade # Registered
  BY DEF AcceptInv, ThreadType, PutTip, Running, Honest
<1>2. logSize' \in Int /\ RecordedGrades' /\ UNCHANGED cosigned
  BY DEF AcceptInv, RecordedGrades, PutTip
<1>3. TipAccepted'
  <2>1. Graded(q.cp, q.grade) \in Accepted' /\ Graded(q.cp, q.grade).cp.root = q.cp.root
    BY <1>1, <1>2 DEF Accepted, Graded
  <2>2. tip' = q.cp.root
    BY DEF PutTip
  <2> QED
    BY <2>1, <2>2 DEF TipAccepted
<1>4. CASE Finish(t)
  BY <1>2, <1>3, <1>4, IdleThread, NothingCosigned DEF Finish
<1>5. CASE Advance(t, "record", q)
  <2>1. r \in Req /\ r.pc = "record"
    BY <1>1, AdvanceFields DEF Pcs
  <2>2. Honest(r)
    BY <2>1 DEF Honest
  <2> QED
    BY <1>2, <1>3, <1>5, <2>1, <2>2, NothingCosigned DEF Advance
<1> QED
  BY <1>4, <1>5 DEF PutTip

\* A row of the read surface carries a grade the service assigns, or none.
LEMMA RecordAccepts ==
  ASSUME AcceptInv, NEW t \in Threads, Record(t)
  PROVE  AcceptInv'
<1>1. logSize' \in Int /\ TipAccepted'
  BY DEF AcceptInv, TipAccepted, Accepted, Record
<1>2. RecordedGrades'
  <2> DEFINE row == Row(thread[t])
             n == Len(thread[t].cp.root)
  <2>1. row.grade \in Grades \cup {None} /\ RecordRow(n, row) /\ RecordedGrades
    BY DEF AcceptInv, ThreadType, Row, Record
  <2> HIDE DEF row, n
  <2>2. CASE records' = [m \in DOMAIN records \cup {n} |-> IF m = n THEN row ELSE records[m]]
    BY <2>1, <2>2 DEF RecordedGrades
  <2>3. CASE UNCHANGED records
    BY <2>1, <2>3 DEF RecordedGrades
  <2> QED
    BY <2>1, <2>2, <2>3 DEF RecordRow
<1> QED
  BY <1>1, <1>2, IdleThread, NothingCosigned DEF Record, Finish

\* A refused insert, a fault and retention co-sign nothing.
LEMMA OthersAccept ==
  ASSUME AcceptInv, NEW t \in Threads, InsertConflict(t) \/ Prune(t) \/ Fail(t)
  PROVE  AcceptInv'
<1>1. TipAccepted' /\ logSize' \in Int /\ RecordedGrades' /\ UNCHANGED cosigned
  BY DEF AcceptInv, TipAccepted, RecordedGrades, Accepted, InsertConflict, Prune, Fail, tables
<1>2. CASE Finish(t)
  BY <1>1, <1>2, IdleThread, NothingCosigned DEF Finish
<1>3. CASE UNCHANGED thread
  BY <1>1, <1>3 DEF AcceptInv, ThreadType, AssertionsBridge, Accepted, Honest, Bridges
<1> QED
  BY <1>2, <1>3 DEF InsertConflict, Prune, Fail

\* What the service accepted, and what its threads hold, is sound whatever the
\* instances interleave, wherever they fail and whatever retention deletes.
THEOREM Accepting == Spec => []AcceptInv
<1>1. Init => AcceptInv
  <2> SUFFICES ASSUME Init PROVE AcceptInv
    OBVIOUS
  <2>1. ThreadType
    BY IdleThread DEF Init, ThreadType
  <2>2. \A t \in Threads : Honest(thread[t])
    BY IdleThread DEF Init
  <2> QED
    BY <2>1, <2>2 DEF Init, AcceptInv, TipAccepted, AssertionsBridge, RecordedGrades
<1>2. AcceptInv /\ [Next]_vars => AcceptInv'
  <2> SUFFICES ASSUME AcceptInv, [Next]_vars PROVE AcceptInv'
    OBVIOUS
  <2>1. CASE UNCHANGED vars
    BY <2>1 DEF AcceptInv, ThreadType, TipAccepted, RecordedGrades, AssertionsBridge, Accepted,
       Honest, Bridges, vars, tables
  <2>2. ASSUME NEW t \in Threads, NEW cp \in Checkpoints, SubmitNew(t, cp) \/ SubmitCached(t, cp)
        PROVE  AcceptInv'
    BY <2>2, SubmitAccepts
  <2>3. ASSUME NEW t \in Threads, Step(t)
        PROVE  AcceptInv'
    BY <2>3, ReadCachedGradeAccepts, CheckTipAccepts, ReadSizeAccepts, InsertEntryAccepts,
       OthersAccept, PutStatementAccepts, PutTipAccepts, RecordAccepts DEF Step
  <2>4. ASSUME NEW t \in Threads, Prune(t) \/ Fail(t)
        PROVE  AcceptInv'
    BY <2>4, OthersAccept
  <2> QED
    BY <2>1, <2>2, <2>3, <2>4 DEF Next
<1> QED
  BY <1>1, <1>2, PTL DEF Spec

\* The chain tip is always a root this service co-signed as a baseline or as an
\* extension: a proof-less checkpoint never plants it.
THEOREM TipIsAccepted == Spec => []TipAccepted
<1>1. AcceptInv => TipAccepted
  BY DEF AcceptInv
<1> QED
  BY <1>1, Accepting, PTL

\* Every signed continuity assertion bridges from a root this service accepted,
\* although the tip it was checked against is read and moved by all instances.
THEOREM AssertionsAreBridged == Spec => []AssertionsBridge
<1>1. AcceptInv => AssertionsBridge
  BY DEF AcceptInv
<1> QED
  BY <1>1, Accepting, PTL

-----------------------------------------------------------------------------
(* The read surface.                                                       *)

\* put_checkpoint_record keeps the rows and the equivocations there are.
LEMMA RowKept ==
  ASSUME NEW n, NEW row, RecordRow(n, row)
  PROVE  /\ equivocations \subseteq equivocations'
         /\ \A m \in DOMAIN records : m \in DOMAIN records' /\ records'[m] = records[m]
BY DEF RecordRow

\* put_checkpoint_record leaves the root it is given as the record of its
\* position or as an equivocation against it.
LEMMA RowFlagged ==
  ASSUME NEW n, NEW row, RecordRow(n, row)
  PROVE  /\ n \in DOMAIN records'
         /\ \/ records'[n].root = row.root
            \/ [size |-> n, first |-> records'[n].root, conflicting |-> row.root]
                 \in equivocations'
BY DEF RecordRow

\* Only _record_checkpoint_read_surface writes the read surface.
LEMMA ReadSurfaceStep ==
  ASSUME [Next]_vars
  PROVE  \/ UNCHANGED <<records, equivocations>>
         \/ \E t \in Threads : Record(t)
BY DEF Next, Step, vars, tables, SubmitNew, SubmitCached, ReadCachedGrade, CheckTip, ReadSize,
       InsertEntry, InsertConflict, PutStatement, PutTip, Prune, Fail

\* Evidence of a fork is never rewritten nor withdrawn, by any instance, fault
\* or retention sweep.
THEOREM EvidenceIsKept == Spec => EvidenceKept
<1> DEFINE Kept == /\ equivocations \subseteq equivocations'
                   /\ \A n \in DOMAIN records : n \in DOMAIN records' /\ records'[n] = records[n]
<1>1. [Next]_vars => [Kept]_vars
  <2> SUFFICES ASSUME [Next]_vars PROVE Kept
    OBVIOUS
  <2>1. CASE UNCHANGED <<records, equivocations>>
    BY <2>1
  <2>2. CASE \E t \in Threads : Record(t)
    BY <2>2, RowKept DEF Record
  <2> QED
    BY <2>1, <2>2, ReadSurfaceStep
<1> QED
  BY <1>1, PTL DEF Spec, EvidenceKept

\* A posted checkpoint is answered when it is recorded, and only then.
LEMMA AnswerStep ==
  ASSUME [Next]_vars, NEW x \in answered', x \notin answered, x.cp.form # "legacy"
  PROVE  \E t \in Threads : Record(t) /\ x = Graded(thread[t].cp, thread[t].grade)
<1>1. ASSUME NEW cp, cp.form = "legacy", NEW g, answered' = answered \cup {Graded(cp, g)}
      PROVE  FALSE
  <2>1. x = Graded(cp, g) /\ Graded(cp, g).cp = cp
    BY <1>1 DEF Graded
  <2> QED
    BY <1>1, <2>1
<1>2. answered' # answered
  OBVIOUS
<1>3. ASSUME NEW t \in Threads, NEW cp \in Checkpoints
      PROVE  ~SubmitNew(t, cp) /\ ~SubmitCached(t, cp)
  BY <1>1, <1>2 DEF SubmitNew, SubmitCached
<1>4. ASSUME NEW t \in Threads
      PROVE  ~PutTip(t)
  BY <1>1, <1>2 DEF PutTip
<1>5. PICK t \in Threads : Record(t)
  BY <1>2, <1>3, <1>4 DEF Next, Step, vars, ReadCachedGrade, CheckTip, ReadSize, InsertEntry,
     InsertConflict, PutStatement, Prune, Fail
<1>6. x = Graded(thread[t].cp, thread[t].grade)
  BY <1>5 DEF Record
<1> QED
  BY <1>5, <1>6

\* Every root answered for is on the read surface, as a record or as an
\* equivocation: no interleaving of two instances loses a fork.
THEOREM ForksAreFlagged == Spec => []EquivocationsFlagged
<1> DEFINE Flagged(x) ==
      LET n == Len(x.cp.root) IN
      /\ n \in DOMAIN records
      /\ \/ records[n].root = x.cp.root
         \/ [size |-> n, first |-> records[n].root, conflicting |-> x.cp.root] \in equivocations
<1>1. Init => EquivocationsFlagged
  BY DEF Init, EquivocationsFlagged
<1>2. EquivocationsFlagged /\ [Next]_vars => EquivocationsFlagged'
  <2> SUFFICES ASSUME EquivocationsFlagged, [Next]_vars,
                      NEW x \in answered', x.cp.form # "legacy"
               PROVE  Flagged(x)'
    BY DEF EquivocationsFlagged
  <2>1. CASE x \in answered
    <3>1. Flagged(x)
      BY <2>1 DEF EquivocationsFlagged
    <3>2. /\ equivocations \subseteq equivocations'
          /\ \A n \in DOMAIN records : n \in DOMAIN records' /\ records'[n] = records[n]
      BY ReadSurfaceStep, RowKept DEF Record
    <3> QED
      BY <3>1, <3>2
  <2>2. CASE x \notin answered
    <3>1. PICK t \in Threads : Record(t) /\ x = Graded(thread[t].cp, thread[t].grade)
      BY <2>2, AnswerStep
    <3> DEFINE q == thread[t]
               n == Len(q.cp.root)
    <3>2. RecordRow(n, Row(q)) /\ x.cp = q.cp /\ Row(q).root = q.cp.root
      BY <3>1 DEF Record, Graded, Row
    <3>3. /\ n \in DOMAIN records'
          /\ \/ records'[n].root = q.cp.root
             \/ [size |-> n, first |-> records'[n].root, conflicting |-> q.cp.root] \in equivocations'
      BY <3>2, RowFlagged
    <3> QED
      BY <3>2, <3>3
  <2> QED
    BY <2>1, <2>2
<1> QED
  BY <1>1, <1>2, PTL DEF Spec
-----------------------------------------------------------------------------
(* The shape of the state. *)

ThreadRecord ==
  [pc : Pcs, cp : Checkpoints \cup {None}, grade : Grades \cup {None}, idx : 0 .. MaxLog]

\* The requests that hold a place in the log's bound.
Appenders == {t \in Threads : thread[t].pc \in Appending}

\* What a request has set when it reaches each of its store calls.
Prepared(r) ==
  /\ r.pc # "idle" => r.cp \in Checkpoints
  /\ r.pc \in {"size", "insert", "put_statement", "put_tip"} => r.grade \in Grades

TypeInv ==
  /\ TypeOK
  /\ logSize + Cardinality(Appenders) <= MaxLog
  /\ \A t \in Threads : Prepared(thread[t])
  /\ faults \in Nat

\* All but the requests and the locks.
TableTypes ==
  /\ logSize \in 0 .. MaxLog
  /\ statements \subseteq Dig
  /\ tip \in Root \cup {None}
  /\ DOMAIN records \subseteq Size
  /\ \A n \in DOMAIN records :
       records[n] \in [root : Root, digest : Dig, grade : Grades \cup {None}]
  /\ equivocations \subseteq [size : Size, first : Root, conflicting : Root]
  /\ cosigned \subseteq [cp : Checkpoints, grade : Grades]
  /\ answered \subseteq [cp : Checkpoints, grade : Grades \cup {None}]
  /\ faults \in Nat

\* A request between the dedup lookup and the tip's update.
Holds(r) == r.pc \notin {"idle", "record"}
-----------------------------------------------------------------------------
(* Types.                                                                  *)

\* A claim of a checkpoint, and the grade a request gives it, have their types.
LEMMA ClaimTypes ==
  ASSUME NEW cp \in Checkpoints
  PROVE  /\ cp.root \in Root /\ Digest(cp) \in Dig /\ Len(cp.root) \in Size
         /\ cp.root \in Seq(STRING) /\ cp.prev \in Seq(STRING)
         /\ cp.root # None /\ cp # None
BY ConstantsOK DEF IsCheckpoint, Root, Dig, Size

\* Moving one request changes the set of requests that may append by that one.
LEMMA AppendersMove ==
  ASSUME TypeOK, NEW t \in Threads, NEW r, thread' = [thread EXCEPT ![t] = r]
  PROVE  /\ IsFiniteSet(Appenders) /\ IsFiniteSet(Appenders')
         /\ Cardinality(Appenders) \in Nat /\ Cardinality(Appenders') \in Nat
         /\ Cardinality(Appenders') <= Cardinality(Appenders) + 1
         /\ r.pc \notin Appending => Cardinality(Appenders') <= Cardinality(Appenders)
         /\ r.pc \in Appending /\ thread[t].pc \in Appending =>
              Cardinality(Appenders') = Cardinality(Appenders)
         /\ r.pc \notin Appending /\ thread[t].pc \in Appending =>
              Cardinality(Appenders') = Cardinality(Appenders) - 1
<1>1. thread \in [Threads -> ThreadRecord] /\ \A u \in Threads : thread'[u] = IF u = t THEN r ELSE thread[u]
  BY DEF TypeOK, ThreadRecord
<1>2. IsFiniteSet(Appenders) /\ IsFiniteSet(Appenders')
  BY ConstantsOK, FS_Subset DEF Appenders
<1>3. Cardinality(Appenders) \in Nat /\ Cardinality(Appenders') \in Nat
  BY <1>2, FS_CardinalityType
<1>4. CASE r.pc \in Appending
  <2>1. Appenders' = Appenders \cup {t}
    BY <1>1, <1>4 DEF Appenders
  <2>2. t \in Appenders <=> thread[t].pc \in Appending
    BY DEF Appenders
  <2> QED
    BY <1>2, <1>3, <1>4, <2>1, <2>2, FS_AddElement
<1>5. CASE r.pc \notin Appending
  <2>1. Appenders' = Appenders \ {t}
    BY <1>1, <1>5 DEF Appenders
  <2>2. t \in Appenders <=> thread[t].pc \in Appending
    BY DEF Appenders
  <2> QED
    BY <1>2, <1>3, <1>5, <2>1, <2>2, FS_RemoveElement
<1> QED
  BY <1>2, <1>3, <1>4, <1>5

\* A store call that moves one request and, with it, its instance's lock keeps the
\* types, and no two threads of an instance between dedup lookup and tip.
LEMMA MoveTypes ==
  ASSUME TypeInv, TableTypes', NEW t \in Threads, NEW r \in ThreadRecord, Prepared(r),
         thread' = [thread EXCEPT ![t] = r],
         \/ UNCHANGED lock /\ (Holds(thread[t]) <=> Holds(r))
         \/ Free(t) /\ Acquire(t) /\ Holds(r)
         \/ Holds(thread[t]) /\ ~Holds(r) /\ Release(t),
         \/ logSize' = logSize /\ Room
         \/ logSize' = logSize /\ (r.pc \in Appending => thread[t].pc \in Appending)
         \/ logSize' = logSize + 1 /\ r.pc \notin Appending /\ thread[t].pc \in Appending
  PROVE  TypeInv'
<1>1. TypeOK /\ thread \in [Threads -> ThreadRecord]
      /\ \A u \in Threads : thread'[u] = IF u = t THEN r ELSE thread[u]
  BY DEF TypeInv, TypeOK, ThreadRecord
<1>2. thread' \in [Threads -> ThreadRecord]
  BY <1>1
<1>3. lock \in [Instances -> Threads \cup {None}] /\ InstanceOf \in [Threads -> Instances]
      /\ None \notin Threads
  BY ConstantsOK DEF TypeInv, TypeOK
<1>4. lock' \in [Instances -> Threads \cup {None}]
  BY <1>3 DEF Acquire, Release
<1>5. \A u \in Threads : Holds(thread[u]) <=> lock[InstanceOf[u]] = u
  BY DEF TypeInv, TypeOK, Holds
<1>6. ASSUME NEW u \in Threads
      PROVE  Holds(thread'[u]) <=> lock'[InstanceOf[u]] = u
  <2>1. CASE UNCHANGED lock /\ (Holds(thread[t]) <=> Holds(r))
    BY <1>1, <1>5, <2>1
  <2>2. CASE Free(t) /\ Acquire(t) /\ Holds(r)
    BY <1>1, <1>3, <1>5, <2>2 DEF Free, Acquire
  <2>3. CASE Holds(thread[t]) /\ ~Holds(r) /\ Release(t)
    BY <1>1, <1>3, <1>5, <2>3 DEF Release
  <2> QED
    BY <2>1, <2>2, <2>3
<1>7. logSize' + Cardinality(Appenders)' <= MaxLog
  <2> DEFINE n == Cardinality(Appenders)
             m == Cardinality(Appenders')
  <2>1. /\ n \in Nat /\ m \in Nat /\ m <= n + 1
        /\ r.pc \notin Appending => m <= n
        /\ r.pc \in Appending /\ thread[t].pc \in Appending => m = n
        /\ r.pc \notin Appending /\ thread[t].pc \in Appending => m = n - 1
    BY <1>1, AppendersMove
  <2>2. logSize \in Nat /\ MaxLog \in Nat /\ logSize + n <= MaxLog
    BY ConstantsOK DEF TypeInv, TypeOK
  <2>3. Room => logSize + n < MaxLog
    BY DEF Room, Appenders
  <2> HIDE DEF n, m
  <2>4. logSize' + m <= MaxLog
    BY <2>1, <2>2, <2>3
  <2> QED
    BY <2>4 DEF m
<1>8. \A u \in Threads : Prepared(thread[u])'
  <2>1. \A u \in Threads : Prepared(thread'[u])
    BY <1>1 DEF TypeInv
  <2> QED
    BY <2>1 DEF Prepared
<1>9. TypeOK'
  BY <1>2, <1>4, <1>6 DEF TypeOK, TableTypes, ThreadRecord, Holds
<1> QED
  BY <1>7, <1>8, <1>9 DEF TypeInv, TableTypes

\* A request that advances keeps its other fields.
LEMMA ThreadFields ==
  ASSUME NEW r \in ThreadRecord, NEW step \in Pcs, NEW u, u = [r EXCEPT !.pc = step]
  PROVE  /\ u \in ThreadRecord
         /\ u.pc = step /\ u.cp = r.cp /\ u.grade = r.grade /\ u.idx = r.idx
BY DEF ThreadRecord

\* A request that ends holds nothing.
LEMMA NoRequestTypes ==
  NoRequest \in ThreadRecord /\ NoRequest.pc = "idle" /\ Prepared(NoRequest) /\ ~Holds(NoRequest)
BY ConstantsOK DEF NoRequest, ThreadRecord, Pcs, Prepared, Holds

\* What the invariant says of one request.
LEMMA ThreadTypes ==
  ASSUME TypeInv, NEW t \in Threads
  PROVE  thread[t] \in ThreadRecord /\ Prepared(thread[t]) /\ TypeOK /\ TableTypes
BY DEF TypeInv, TypeOK, TableTypes, ThreadRecord

\* The dedup lookup, hit or miss, keeps the types.
LEMMA SubmitTypes ==
  ASSUME TypeInv, NEW t \in Threads, NEW cp \in Checkpoints,
         SubmitNew(t, cp) \/ SubmitCached(t, cp)
  PROVE  TypeInv'
<1>1. thread[t] \in ThreadRecord /\ Prepared(thread[t]) /\ TypeOK /\ TableTypes
  BY ThreadTypes
<1>2. thread[t].pc = "idle"
  BY DEF SubmitNew, SubmitCached, Idle
<1> DEFINE r0 == [NoRequest EXCEPT !.cp = cp]
           r(step) == [r0 EXCEPT !.pc = step]
<1>3. ASSUME NEW step \in {"tip", "cached_grade"}
      PROVE  r(step) \in ThreadRecord /\ r(step).pc = step /\ Prepared(r(step)) /\ Holds(r(step))
  <2>1. r0 \in ThreadRecord /\ r0.cp = cp /\ step \in Pcs
    BY NoRequestTypes DEF ThreadRecord, NoRequest, Pcs
  <2> HIDE DEF r0
  <2>2. r(step) \in ThreadRecord /\ r(step).pc = step /\ r(step).cp = cp
    BY <2>1, ThreadFields
  <2> QED
    BY <2>2 DEF Prepared, Holds
<1>4. CASE SubmitNew(t, cp)
  <2>1. TableTypes'
    BY <1>1, <1>4 DEF SubmitNew, TableTypes, tables
  <2>2. thread' = [thread EXCEPT ![t] = r("tip")]
    BY <1>4 DEF SubmitNew, Advance
  <2>3. r("tip") \in ThreadRecord /\ Prepared(r("tip")) /\ Holds(r("tip"))
    BY <1>3
  <2> HIDE DEF r
  <2> QED
    BY <1>4, <2>1, <2>2, <2>3, MoveTypes DEF SubmitNew, tables
<1>5. CASE SubmitCached(t, cp) /\ UNCHANGED <<lock, thread>>
  <2>1. TableTypes'
    BY <1>1, <1>5 DEF SubmitCached, Graded, TableTypes, tables
  <2>2. thread' = [thread EXCEPT ![t] = thread[t]]
    BY <1>1, <1>5 DEF TypeOK
  <2> QED
    BY <1>1, <1>5, <2>1, <2>2, MoveTypes DEF SubmitCached, tables
<1>6. CASE SubmitCached(t, cp) /\ Acquire(t) /\ Advance(t, "cached_grade", r0) /\ UNCHANGED answered
  <2>1. TableTypes'
    BY <1>1, <1>6 DEF SubmitCached, TableTypes, tables
  <2>2. thread' = [thread EXCEPT ![t] = r("cached_grade")]
    BY <1>6 DEF Advance
  <2>3. /\ r("cached_grade") \in ThreadRecord /\ r("cached_grade").pc = "cached_grade"
        /\ Prepared(r("cached_grade")) /\ Holds(r("cached_grade"))
    BY <1>3
  <2> HIDE DEF r
  <2> QED
    BY <1>6, <2>1, <2>2, <2>3, MoveTypes DEF SubmitCached, Appending, tables
<1> QED
  BY <1>4, <1>5, <1>6 DEF SubmitCached

\* A request that ends gives up the lock if it holds it.
LEMMA FinishTypes ==
  ASSUME TypeInv, TableTypes', UNCHANGED logSize, NEW t \in Threads, Finish(t),
         IF Holds(thread[t]) THEN Release(t) ELSE UNCHANGED lock
  PROVE  TypeInv'
BY NoRequestTypes, MoveTypes DEF Finish, Appending

\* Reading back the grade of a cached checkpoint keeps the types.
LEMMA ReadCachedGradeTypes ==
  ASSUME TypeInv, NEW t \in Threads, ReadCachedGrade(t)
  PROVE  TypeInv'
<1> DEFINE q == thread[t]
           n == Len(q.cp.root)
           g == IF n \in DOMAIN records THEN records[n].grade ELSE None
           r0 == [q EXCEPT !.grade = g]
           r == [r0 EXCEPT !.pc = "record"]
<1>1. q \in ThreadRecord /\ Prepared(q) /\ TypeOK /\ TableTypes
  BY ThreadTypes
<1>2. q.pc = "cached_grade" /\ Holds(q) /\ q.cp \in Checkpoints
  BY <1>1 DEF ReadCachedGrade, Running, Holds, Prepared
<1>3. g \in Grades \cup {None}
  BY <1>1 DEF TypeOK
<1>4. thread' = [thread EXCEPT ![t] = r]
  BY DEF ReadCachedGrade, Advance
<1> HIDE DEF g
<1>5. r0 \in ThreadRecord /\ r0.cp = q.cp
  BY <1>1, <1>3 DEF ThreadRecord
<1> HIDE DEF r0
<1>6. r \in ThreadRecord /\ r.pc = "record" /\ r.cp = q.cp
  BY <1>5, ThreadFields DEF Pcs
<1> HIDE DEF r
<1>7. Prepared(r) /\ ~Holds(r)
  BY <1>2, <1>6 DEF Prepared, Holds
<1>8. TableTypes'
  BY <1>1 DEF ReadCachedGrade, TableTypes, tables
<1> QED
  BY <1>2, <1>4, <1>6, <1>7, <1>8, MoveTypes DEF ReadCachedGrade, Appending, tables

\* The gate keeps the types.
LEMMA CheckTipTypes ==
  ASSUME TypeInv, NEW t \in Threads, CheckTip(t)
  PROVE  TypeInv'
<1> DEFINE q == thread[t]
           g == Grade(q.cp, tip)
<1>1. q \in ThreadRecord /\ Prepared(q) /\ TypeOK /\ TableTypes
  BY ThreadTypes
<1>2. q.pc = "tip" /\ Holds(q) /\ q.cp \in Checkpoints
  BY <1>1 DEF CheckTip, Running, Holds, Prepared
<1>3. g \in Grades \cup {None}
  BY DEF Grade, Grades
<1>4. TableTypes' /\ UNCHANGED logSize
  BY <1>1 DEF CheckTip, TableTypes, tables
<1>5. CASE Finish(t) /\ Release(t)
  BY <1>2, <1>4, <1>5, FinishTypes
<1>6. CASE g # None /\ Advance(t, "size", [q EXCEPT !.grade = g]) /\ UNCHANGED lock
  <2> DEFINE r0 == [q EXCEPT !.grade = g]
             r == [r0 EXCEPT !.pc = "size"]
  <2>1. thread' = [thread EXCEPT ![t] = r]
    BY <1>6 DEF Advance
  <2> HIDE DEF g
  <2>2. r0 \in ThreadRecord /\ r0.cp = q.cp /\ r0.grade = g
    BY <1>1, <1>3 DEF ThreadRecord
  <2> HIDE DEF r0
  <2>3. r \in ThreadRecord /\ r.pc = "size" /\ r.cp = q.cp /\ r.grade = g
    BY <2>2, ThreadFields DEF Pcs
  <2> HIDE DEF r
  <2>4. Prepared(r) /\ Holds(r)
    BY <1>2, <1>3, <1>6, <2>3 DEF Prepared, Holds
  <2> QED
    BY <1>2, <1>4, <1>6, <2>1, <2>3, <2>4, MoveTypes DEF Appending
<1> QED
  BY <1>5, <1>6 DEF CheckTip

\* Reading the next index keeps the types.
LEMMA ReadSizeTypes ==
  ASSUME TypeInv, NEW t \in Threads, ReadSize(t)
  PROVE  TypeInv'
<1> DEFINE q == thread[t]
           r0 == [q EXCEPT !.idx = logSize]
           r == [r0 EXCEPT !.pc = "insert"]
<1>1. q \in ThreadRecord /\ Prepared(q) /\ TypeOK /\ TableTypes
  BY ThreadTypes
<1>2. q.pc = "size" /\ Holds(q) /\ q.cp \in Checkpoints /\ q.grade \in Grades
  BY <1>1 DEF ReadSize, Running, Holds, Prepared
<1>3. TableTypes' /\ UNCHANGED <<logSize, lock>>
  BY <1>1 DEF ReadSize, TableTypes, tables
<1>4. thread' = [thread EXCEPT ![t] = r]
  BY DEF ReadSize, Advance
<1>5. r0 \in ThreadRecord /\ r0.cp = q.cp /\ r0.grade = q.grade
  BY <1>1 DEF ThreadRecord, TypeOK
<1> HIDE DEF r0
<1>6. r \in ThreadRecord /\ r.pc = "insert" /\ r.cp = q.cp /\ r.grade = q.grade
  BY <1>5, ThreadFields DEF Pcs
<1> HIDE DEF r
<1>7. Prepared(r) /\ Holds(r)
  BY <1>2, <1>6 DEF Prepared, Holds
<1> QED
  BY <1>2, <1>3, <1>4, <1>6, <1>7, MoveTypes DEF Appending

\* append_entry keeps the types: the request had a place in the log's bound.
LEMMA InsertEntryTypes ==
  ASSUME TypeInv, NEW t \in Threads, InsertEntry(t)
  PROVE  TypeInv'
<1> DEFINE q == thread[t]
           r == [q EXCEPT !.pc = "put_statement"]
<1>1. q \in ThreadRecord /\ Prepared(q) /\ TypeOK /\ TableTypes
  BY ThreadTypes
<1>2. q.pc = "insert" /\ Holds(q) /\ q.cp \in Checkpoints /\ q.grade \in Grades
  BY <1>1 DEF InsertEntry, Running, Holds, Prepared
<1>3. thread' = [thread EXCEPT ![t] = r] /\ logSize' = logSize + 1
  BY DEF InsertEntry, Advance
<1>4. r \in ThreadRecord /\ r.pc = "put_statement" /\ r.cp = q.cp /\ r.grade = q.grade
  BY <1>1, ThreadFields DEF Pcs
<1> HIDE DEF r
<1>5. Prepared(r) /\ Holds(r)
  BY <1>2, <1>4 DEF Prepared, Holds
<1>6. logSize' \in 0 .. MaxLog
  <2>1. Appenders # {} /\ IsFiniteSet(Appenders)
    BY <1>2, ConstantsOK, FS_Subset DEF Appenders, Appending
  <2>2. Cardinality(Appenders) \in Nat /\ Cardinality(Appenders) # 0
    BY <2>1, FS_CardinalityType, FS_EmptySet
  <2>3. logSize \in Nat /\ MaxLog \in Nat /\ logSize + Cardinality(Appenders) <= MaxLog
    BY ConstantsOK DEF TypeInv, TypeOK
  <2> QED
    BY <1>3, <2>2, <2>3
<1>7. TableTypes'
  BY <1>1, <1>2, <1>6 DEF InsertEntry, Graded, TableTypes
<1> QED
  BY <1>2, <1>3, <1>4, <1>5, <1>7, MoveTypes DEF InsertEntry, Appending

\* put_statement keeps the types.
LEMMA PutStatementTypes ==
  ASSUME TypeInv, NEW t \in Threads, PutStatement(t)
  PROVE  TypeInv'
<1> DEFINE q == thread[t]
           r(step) == [q EXCEPT !.pc = step]
<1>1. q \in ThreadRecord /\ Prepared(q) /\ TypeOK /\ TableTypes
  BY ThreadTypes
<1>2. q.pc = "put_statement" /\ Holds(q) /\ q.cp \in Checkpoints /\ q.grade \in Grades
  BY <1>1 DEF PutStatement, Running, Holds, Prepared
<1>3. TableTypes' /\ UNCHANGED logSize
  BY <1>1, <1>2, ClaimTypes DEF PutStatement, TableTypes
<1>4. PICK step \in {"put_tip", "record"} :
        /\ thread' = [thread EXCEPT ![t] = r(step)]
        /\ IF step = "put_tip" THEN UNCHANGED lock ELSE Release(t)
  BY DEF PutStatement, Advance
<1>5. r(step) \in ThreadRecord /\ r(step).pc = step /\ r(step).cp = q.cp /\ r(step).grade = q.grade
  BY <1>1, ThreadFields DEF Pcs
<1> HIDE DEF r
<1>6. Prepared(r(step)) /\ (Holds(r(step)) <=> step = "put_tip")
  BY <1>2, <1>5 DEF Prepared, Holds
<1> QED
  BY <1>2, <1>3, <1>4, <1>5, <1>6, MoveTypes DEF Appending

\* put_checkpoint_witness keeps the types.
LEMMA PutTipTypes ==
  ASSUME TypeInv, NEW t \in Threads, PutTip(t)
  PROVE  TypeInv'
<1> DEFINE q == thread[t]
           r == [q EXCEPT !.pc = "record"]
<1>1. q \in ThreadRecord /\ Prepared(q) /\ TypeOK /\ TableTypes
  BY ThreadTypes
<1>2. q.pc = "put_tip" /\ Holds(q) /\ q.cp \in Checkpoints /\ q.grade \in Grades
  BY <1>1 DEF PutTip, Running, Holds, Prepared
<1>3. TableTypes' /\ UNCHANGED logSize /\ Release(t)
  BY <1>1, <1>2, ClaimTypes DEF PutTip, Graded, TableTypes
<1>4. CASE Finish(t)
  BY <1>2, <1>3, <1>4, FinishTypes
<1>5. CASE Advance(t, "record", q)
  <2>1. r \in ThreadRecord /\ r.pc = "record" /\ r.cp = q.cp
    BY <1>1, ThreadFields DEF Pcs
  <2>2. thread' = [thread EXCEPT ![t] = r]
    BY <1>5 DEF Advance
  <2> HIDE DEF r
  <2>3. Prepared(r) /\ ~Holds(r)
    BY <1>2, <2>1 DEF Prepared, Holds
  <2> QED
    BY <1>2, <1>3, <2>1, <2>2, <2>3, MoveTypes DEF Appending
<1> QED
  BY <1>4, <1>5 DEF PutTip

\* The read surface keeps its types.
LEMMA RecordTypes ==
  ASSUME TypeInv, NEW t \in Threads, Record(t)
  PROVE  TypeInv'
<1> DEFINE q == thread[t]
           n == Len(q.cp.root)
           row == Row(q)
<1>1. q \in ThreadRecord /\ Prepared(q) /\ TypeOK /\ TableTypes
  BY ThreadTypes
<1>2. q.pc = "record" /\ ~Holds(q) /\ q.cp \in Checkpoints /\ q.grade \in Grades \cup {None}
  BY <1>1 DEF Record, Running, Holds, Prepared, ThreadRecord
<1>3. n \in Size /\ row \in [root : Root, digest : Dig, grade : Grades \cup {None}]
  BY <1>2, ClaimTypes DEF Row
<1>4. RecordRow(n, row)
  BY DEF Record
<1> HIDE DEF n, row
<1>5. /\ DOMAIN records' \subseteq Size
      /\ \A m \in DOMAIN records' :
           records'[m] \in [root : Root, digest : Dig, grade : Grades \cup {None}]
      /\ equivocations' \subseteq [size : Size, first : Root, conflicting : Root]
  <2>1. CASE /\ records' = [m \in DOMAIN records \cup {n} |-> IF m = n THEN row ELSE records[m]]
             /\ UNCHANGED equivocations
    BY <1>1, <1>3, <2>1 DEF TypeOK
  <2>2. CASE /\ n \in DOMAIN records
             /\ equivocations' =
                  IF records[n].root = row.root THEN equivocations
                  ELSE equivocations \cup {[size |-> n, first |-> records[n].root,
                                            conflicting |-> row.root]}
             /\ UNCHANGED records
    <3>1. records[n].root \in Root /\ row.root \in Root
      BY <1>1, <1>3, <2>2 DEF TypeOK
    <3> QED
      BY <1>1, <1>3, <2>2, <3>1 DEF TypeOK
  <2> QED
    BY <1>4, <2>1, <2>2 DEF RecordRow
<1>6. TableTypes'
  BY <1>1, <1>2, <1>5 DEF Record, Graded, TableTypes
<1> QED
  BY <1>2, <1>6, FinishTypes DEF Record

\* A refused insert, retention and a fault keep the types.
LEMMA OthersTypes ==
  ASSUME TypeInv, NEW t \in Threads, InsertConflict(t) \/ Prune(t) \/ Fail(t)
  PROVE  TypeInv'
<1>1. thread[t] \in ThreadRecord /\ Prepared(thread[t]) /\ TypeOK /\ TableTypes
  BY ThreadTypes
<1>2. TableTypes' /\ UNCHANGED logSize
  BY <1>1, ConstantsOK DEF InsertConflict, Prune, Fail, TableTypes, tables
<1>3. CASE InsertConflict(t)
  BY <1>2, <1>3, FinishTypes DEF InsertConflict, Running, Holds
<1>4. CASE Fail(t)
  <2>1. Holds(thread[t]) <=> lock[InstanceOf[t]] = t
    BY <1>1 DEF TypeOK, Holds
  <2> QED
    BY <1>2, <1>4, <2>1, FinishTypes DEF Fail
<1>5. CASE Prune(t)
  <2>1. thread' = [thread EXCEPT ![t] = thread[t]]
    BY <1>1, <1>5 DEF Prune, TypeOK
  <2> QED
    BY <1>1, <1>2, <1>5, <2>1, MoveTypes DEF Prune
<1> QED
  BY <1>3, <1>4, <1>5

\* Every store call of every instance keeps the types.
LEMMA TypesInductive == TypeInv /\ [Next]_vars => TypeInv'
<1> SUFFICES ASSUME TypeInv, [Next]_vars PROVE TypeInv'
  OBVIOUS
<1>1. CASE UNCHANGED vars
  BY <1>1 DEF TypeInv, TypeOK, Appenders, Prepared, vars, tables
<1>2. ASSUME NEW t \in Threads, NEW cp \in Checkpoints, SubmitNew(t, cp) \/ SubmitCached(t, cp)
      PROVE  TypeInv'
  BY <1>2, SubmitTypes
<1>3. ASSUME NEW t \in Threads, Step(t)
      PROVE  TypeInv'
  BY <1>3, ReadCachedGradeTypes, CheckTipTypes, ReadSizeTypes, InsertEntryTypes, OthersTypes,
     PutStatementTypes, PutTipTypes, RecordTypes DEF Step
<1>4. ASSUME NEW t \in Threads, Prune(t) \/ Fail(t)
      PROVE  TypeInv'
  BY <1>4, OthersTypes
<1> QED
  BY <1>1, <1>2, <1>3, <1>4 DEF Next

\* The types hold when the first instance starts.
LEMMA InitTypes == Init => TypeInv
<1> SUFFICES ASSUME Init PROVE TypeInv
  OBVIOUS
<1>1. \A t \in Threads : thread[t] = NoRequest
  BY DEF Init
<1>2. Appenders = {}
  BY <1>1, NoRequestTypes DEF Appenders, Appending
<1>3. Cardinality(Appenders) = 0
  BY <1>2, FS_EmptySet
<1>4. \A t \in Threads : Prepared(thread[t])
  BY <1>1, NoRequestTypes
<1>5. thread \in [Threads -> ThreadRecord]
  BY NoRequestTypes DEF Init
<1>6. \A t \in Threads : thread[t].pc \notin {"idle", "record"} <=> lock[InstanceOf[t]] = t
  BY <1>1, ConstantsOK, NoRequestTypes DEF Init
<1>7. TypeOK
  BY <1>5, <1>6, ConstantsOK DEF Init, TypeOK, ThreadRecord
<1> QED
  BY <1>3, <1>4, <1>7, ConstantsOK DEF TypeInv, Init

\* Every table of the witness holds rows of its schema, and each instance's lock
\* has at most one holder, for any instances, threads, faults and retention.
THEOREM CheckpointTypes == Spec => []TypeOK
<1>1. TypeInv => TypeOK
  BY DEF TypeInv
<1> QED
  BY <1>1, InitTypes, TypesInductive, PTL DEF Spec

-----------------------------------------------------------------------------
(* Prefixes of histories.                                                  *)

\* verify_consistency of two roots, leaf by leaf.
LEMMA PrefixLeaves ==
  ASSUME NEW s \in Seq(STRING), NEW r \in Seq(STRING)
  PROVE  IsPrefix(s, r) <=> Len(s) <= Len(r) /\ \A i \in 1 .. Len(s) : s[i] = r[i]
<1>1. Len(s) \in Nat /\ Len(r) \in Nat
  OBVIOUS
<1>2. ASSUME Len(s) <= Len(r)
      PROVE  SubSeq(r, 1, Len(s)) = s <=> \A i \in 1 .. Len(s) : s[i] = r[i]
  <2> DEFINE n == Len(s)
             p == SubSeq(r, 1, n)
  <2>1. p \in Seq(STRING) /\ Len(p) = n /\ \A i \in 1 .. n : p[i] = r[i]
    BY <1>1, <1>2, SubSeqProperties
  <2> HIDE DEF p
  <2>2. ASSUME \A i \in 1 .. n : s[i] = r[i] PROVE p = s
    BY <2>1, <2>2, SeqEqual
  <2>3. ASSUME p = s PROVE \A i \in 1 .. n : s[i] = r[i]
    BY <2>1, <2>3
  <2> QED
    BY <2>2, <2>3 DEF p
<1> QED
  BY <1>2 DEF IsPrefix

\* A history extends itself.
LEMMA PrefixReflexive ==
  ASSUME NEW s \in Seq(STRING)
  PROVE  IsPrefix(s, s)
BY PrefixLeaves

\* What extends an extension of a history extends that history.
LEMMA PrefixTransitive ==
  ASSUME NEW s \in Seq(STRING), NEW r \in Seq(STRING), NEW q \in Seq(STRING),
         IsPrefix(s, r), IsPrefix(r, q)
  PROVE  IsPrefix(s, q)
<1>1. Len(s) \in Nat /\ Len(r) \in Nat /\ Len(q) \in Nat
  OBVIOUS
<1>2. Len(s) <= Len(r) /\ Len(r) <= Len(q)
  BY DEF IsPrefix
<1>3. \A i \in 1 .. Len(s) : i \in 1 .. Len(r) /\ s[i] = r[i]
  BY <1>1, <1>2, PrefixLeaves
<1>4. \A i \in 1 .. Len(r) : r[i] = q[i]
  BY PrefixLeaves
<1>5. \A i \in 1 .. Len(s) : s[i] = q[i]
  BY <1>3, <1>4
<1> QED
  BY <1>1, <1>2, <1>5, PrefixLeaves

\* Two points of one history: one extends the other.
LEMMA PrefixTotal ==
  ASSUME NEW s \in Seq(STRING), NEW r \in Seq(STRING), NEW q \in Seq(STRING),
         IsPrefix(s, q), IsPrefix(r, q)
  PROVE  IsPrefix(s, r) \/ IsPrefix(r, s)
<1>1. Len(s) \in Nat /\ Len(r) \in Nat
  OBVIOUS
<1>2. \A i \in 1 .. Len(s) : s[i] = q[i]
  BY PrefixLeaves
<1>3. \A i \in 1 .. Len(r) : r[i] = q[i]
  BY PrefixLeaves
<1>4. CASE Len(s) <= Len(r)
  <2>1. \A i \in 1 .. Len(s) : i \in 1 .. Len(r)
    BY <1>1, <1>4
  <2>2. \A i \in 1 .. Len(s) : s[i] = r[i]
    BY <1>2, <1>3, <2>1
  <2> QED
    BY <1>4, <2>2, PrefixLeaves
<1>5. CASE Len(r) <= Len(s)
  <2>1. \A i \in 1 .. Len(r) : i \in 1 .. Len(s)
    BY <1>1, <1>5
  <2>2. \A i \in 1 .. Len(r) : r[i] = s[i]
    BY <1>2, <1>3, <2>1
  <2> QED
    BY <1>5, <2>2, PrefixLeaves
<1> QED
  BY <1>1, <1>4, <1>5

-----------------------------------------------------------------------------
(* One instance, the enforce policy, no store error.                       *)

OneInstance ==
  /\ \A t, u \in Threads : InstanceOf[t] = InstanceOf[u]
  /\ Policy = "enforce"
  /\ MaxFaults = 0

\* All accepted checkpoints are points of the history under root.
History(root) == \A c \in Accepted : IsPrefix(c.cp.root, root)

\* A request past append_entry that has not moved the tip to its root yet.
Pending(r) == r.pc \in {"put_statement", "put_tip"} /\ r.grade # Registered

\* A request the gate let through: registered, or a baseline, or an extension
\* of the tip.
Extends(r) ==
  /\ r.pc \in {"size", "insert"} /\ r.grade # Registered /\ tip # None => IsPrefix(tip, r.cp.root)
  /\ r.pc = "put_tip" => r.grade # Registered

\* The end of the accepted history.
OneHistory ==
  /\ \A t \in Threads : Extends(thread[t])
  /\ \A t \in Threads :
       Pending(thread[t]) =>
         /\ History(thread[t].cp.root)
         /\ tip # None => IsPrefix(tip, thread[t].cp.root)
  /\ (\A t \in Threads : ~Pending(thread[t])) =>
       /\ tip = None => Accepted = {}
       /\ tip # None => History(tip)

HInv == TypeInv /\ OneHistory

\* self._lock: one request at a time is between the dedup lookup and the tip's
\* update.
LEMMA Exclusive ==
  ASSUME TypeInv, OneInstance, NEW t \in Threads, NEW u \in Threads,
         Holds(thread[t]), Holds(thread[u])
  PROVE  t = u
BY DEF TypeInv, TypeOK, OneInstance, Holds

\* A root of an accepted checkpoint, the tip and a request's root are histories.
LEMMA HistoryTypes ==
  ASSUME TypeInv
  PROVE  /\ \A c \in Accepted : c.cp.root \in Seq(STRING)
         /\ tip # None => tip \in Seq(STRING)
         /\ \A t \in Threads : thread[t].pc # "idle" => thread[t].cp.root \in Seq(STRING)
<1>1. \A c \in Accepted : c.cp \in Checkpoints
  BY DEF TypeInv, TypeOK, Accepted
<1>2. tip # None => \E cp \in Checkpoints : tip = cp.root
  BY DEF TypeInv, TypeOK, Root
<1>3. \A t \in Threads : thread[t].pc # "idle" => thread[t].cp \in Checkpoints
  BY DEF TypeInv, Prepared
<1> QED
  BY <1>1, <1>2, <1>3, ClaimTypes

\* A store call that co-signs nothing, leaves the tip and moves one request that
\* stays as far from the tip as it was keeps the history.
LEMMA HistoryKept ==
  ASSUME TypeInv, OneHistory, UNCHANGED <<tip, cosigned>>, NEW t \in Threads, NEW r, Extends(r),
         thread' = [thread EXCEPT ![t] = r],
         Pending(r) <=> Pending(thread[t]), Pending(r) => r.cp = thread[t].cp
  PROVE  OneHistory'
<1>1. \A u \in Threads : thread'[u] = IF u = t THEN r ELSE thread[u]
  BY DEF TypeInv, TypeOK
<1>2. \A u \in Threads :
        /\ Pending(thread'[u]) <=> Pending(thread[u])
        /\ Pending(thread[u]) => thread'[u].cp = thread[u].cp
  BY <1>1
<1>3. \A u \in Threads : Extends(thread'[u])
  BY <1>1 DEF OneHistory
<1> QED
  BY <1>2, <1>3 DEF OneHistory, Extends, Pending, History, Accepted

\* A request refused, answered or ended at the record keeps the history.
LEMMA HistoryFinish ==
  ASSUME TypeInv, OneHistory, UNCHANGED <<tip, cosigned>>, NEW t \in Threads, Finish(t),
         ~Pending(thread[t])
  PROVE  OneHistory'
<1>1. Extends(NoRequest) /\ ~Pending(NoRequest)
  BY NoRequestTypes DEF Extends, Pending
<1> QED
  BY <1>1, HistoryKept DEF Finish

\* The dedup lookup and reading back a grade keep the history.
LEMMA LookupsKeepHistory ==
  ASSUME TypeInv, OneHistory, NEW t \in Threads,
         \/ \E cp \in Checkpoints : SubmitNew(t, cp) \/ SubmitCached(t, cp)
         \/ ReadCachedGrade(t)
  PROVE  OneHistory'
<1>1. thread[t] \in ThreadRecord /\ UNCHANGED <<tip, cosigned>>
  BY ThreadTypes DEF SubmitNew, SubmitCached, ReadCachedGrade, tables
<1>2. ~Pending(thread[t])
  BY DEF SubmitNew, SubmitCached, ReadCachedGrade, Idle, Running, Pending
<1>3. CASE UNCHANGED thread
  BY <1>1, <1>3 DEF OneHistory, Extends, Pending, History, Accepted
<1>4. ASSUME NEW q, q \in ThreadRecord, NEW step \in {"tip", "cached_grade", "record"},
             Advance(t, step, q)
      PROVE  OneHistory'
  <2>1. PICK r : r = [q EXCEPT !.pc = step]
    OBVIOUS
  <2>2. r.pc = step /\ thread' = [thread EXCEPT ![t] = r]
    <3>1. r.pc = step
      BY <2>1 DEF ThreadRecord
    <3> QED
      BY <1>4, <2>1, <3>1 DEF Advance
  <2>3. Extends(r) /\ ~Pending(r)
    BY <1>4, <2>2 DEF Extends, Pending
  <2> QED
    BY <1>1, <1>2, <2>2, <2>3, HistoryKept
<1>5. ASSUME NEW cp \in Checkpoints, SubmitNew(t, cp) \/ SubmitCached(t, cp)
      PROVE  OneHistory'
  <2>1. [NoRequest EXCEPT !.cp = cp] \in ThreadRecord
    BY NoRequestTypes DEF ThreadRecord
  <2> QED
    BY <1>3, <1>4, <1>5, <2>1 DEF SubmitNew, SubmitCached
<1>6. CASE ReadCachedGrade(t)
  <2> DEFINE n == Len(thread[t].cp.root)
             g == IF n \in DOMAIN records THEN records[n].grade ELSE None
  <2>1. g \in Grades \cup {None}
    BY DEF TypeInv, TypeOK
  <2>2. Advance(t, "record", [thread[t] EXCEPT !.grade = g])
    BY <1>6 DEF ReadCachedGrade
  <2> HIDE DEF g
  <2>3. [thread[t] EXCEPT !.grade = g] \in ThreadRecord
    BY <1>1, <2>1 DEF ThreadRecord
  <2> QED
    BY <1>4, <2>2, <2>3
<1> QED
  BY <1>5, <1>6

\* Under enforce the gate lets a checkpoint through as a baseline, as a bare
\* registration or as a verified extension of the tip; a legacy statement of a
\* known log is refused.
LEMMA CheckTipKeepsHistory ==
  ASSUME TypeInv, OneHistory, OneInstance, NEW t \in Threads, CheckTip(t)
  PROVE  OneHistory'
<1> DEFINE q == thread[t]
           g == Grade(q.cp, tip)
<1>1. q \in ThreadRecord /\ UNCHANGED <<tip, cosigned>> /\ q.pc = "tip" /\ q.cp \in Checkpoints
  BY ThreadTypes DEF CheckTip, Running, Prepared, tables
<1>2. ~Pending(q)
  BY <1>1 DEF Pending
<1>3. CASE Finish(t)
  BY <1>1, <1>2, <1>3, HistoryFinish
<1>4. CASE g # None /\ Advance(t, "size", [q EXCEPT !.grade = g])
  <2>1. g \in Grades \cup {None}
    BY DEF Grade, Grades
  <2>2. tip # None /\ g # Registered => IsPrefix(tip, q.cp.root)
    <3> SUFFICES ASSUME tip # None, g # Registered PROVE IsPrefix(tip, q.cp.root)
      OBVIOUS
    <3>1. q.cp.form = "legacy" => ProofRequired(q.cp)
      BY DEF ProofRequired, OneInstance
    <3>2. q.cp.form # "legacy"
      BY <1>4, <3>1 DEF Grade
    <3>3. q.cp.proof
      BY <1>4, <3>2 DEF Grade
    <3>4. g = IF MatchesTip(q.cp, tip) /\ VerifyConsistency(tip, q.cp.root) THEN Witnessed ELSE None
      BY <3>2, <3>3 DEF Grade
    <3> QED
      BY <1>4, <3>4 DEF VerifyConsistency
  <2> DEFINE r0 == [q EXCEPT !.grade = g]
             r == [r0 EXCEPT !.pc = "size"]
  <2>3. thread' = [thread EXCEPT ![t] = r]
    BY <1>4 DEF Advance
  <2> HIDE DEF g
  <2>4. r0 \in ThreadRecord /\ r0.cp = q.cp /\ r0.grade = g
    BY <1>1, <2>1 DEF ThreadRecord
  <2> HIDE DEF r0
  <2>5. r.pc = "size" /\ r.cp = q.cp /\ r.grade = g
    BY <2>4, ThreadFields DEF Pcs
  <2> HIDE DEF r
  <2>6. Extends(r) /\ ~Pending(r)
    BY <2>2, <2>5 DEF Extends, Pending
  <2> QED
    BY <1>1, <1>2, <2>3, <2>6, HistoryKept
<1> QED
  BY <1>3, <1>4 DEF CheckTip

\* _append_log's size query keeps the history.
LEMMA ReadSizeKeepsHistory ==
  ASSUME TypeInv, OneHistory, NEW t \in Threads, ReadSize(t)
  PROVE  OneHistory'
<1> DEFINE q == thread[t]
           r0 == [q EXCEPT !.idx = logSize]
           r == [r0 EXCEPT !.pc = "insert"]
<1>1. q \in ThreadRecord /\ UNCHANGED <<tip, cosigned>> /\ q.pc = "size" /\ logSize \in 0 .. MaxLog
  BY ThreadTypes DEF ReadSize, Running, tables, TypeOK
<1>2. thread' = [thread EXCEPT ![t] = r]
  BY DEF ReadSize, Advance
<1>3. r0 \in ThreadRecord /\ r0.cp = q.cp /\ r0.grade = q.grade
  BY <1>1 DEF ThreadRecord
<1> HIDE DEF r0
<1>4. r.pc = "insert" /\ r.cp = q.cp /\ r.grade = q.grade
  BY <1>3, ThreadFields DEF Pcs
<1> HIDE DEF r
<1>5. Extends(r) /\ ~Pending(r) /\ ~Pending(q)
  BY <1>1, <1>4 DEF OneHistory, Extends, Pending
<1> QED
  BY <1>1, <1>2, <1>5, HistoryKept

\* append_entry: the new checkpoint extends the tip, the tip all accepted ones,
\* and nobody else is between the append and the tip's update.
LEMMA InsertEntryKeepsHistory ==
  ASSUME TypeInv, OneHistory, OneInstance, NEW t \in Threads, InsertEntry(t)
  PROVE  OneHistory'
<1> DEFINE q == thread[t]
           c0 == Graded(q.cp, q.grade)
           r == [q EXCEPT !.pc = "put_statement"]
<1>1. q \in ThreadRecord /\ q.pc = "insert" /\ Holds(q) /\ Extends(q)
  BY ThreadTypes DEF InsertEntry, Running, Holds, OneHistory
<1>2. \A u \in Threads : u # t => ~Holds(thread[u])
  BY <1>1, Exclusive
<1>3. \A u \in Threads : ~Pending(thread[u])
  BY <1>1, <1>2 DEF Pending, Holds
<1>4. (tip = None => Accepted = {}) /\ (tip # None => History(tip))
  BY <1>3 DEF OneHistory
<1>5. r.pc = "put_statement" /\ r.cp = q.cp /\ r.grade = q.grade
  BY <1>1, ThreadFields DEF Pcs
<1>6. \A u \in Threads : thread'[u] = IF u = t THEN r ELSE thread[u]
  BY DEF InsertEntry, Advance, TypeInv, TypeOK
<1>7. UNCHANGED tip /\ cosigned' = cosigned \cup {c0} /\ c0.cp = q.cp /\ c0.grade = q.grade
  BY DEF InsertEntry, Graded
<1> HIDE DEF r, c0
<1>8. \A u \in Threads : Extends(thread[u])'
  <2>1. Extends(r)'
    BY <1>5 DEF Extends, r
  <2>2. ASSUME NEW u \in Threads
        PROVE  Extends(thread[u])'
    <3>1. CASE u = t
      <4>1. thread'[u] = r
        BY <1>6, <3>1
      <4> QED
        BY <1>5, <4>1 DEF Extends
    <3>2. CASE u # t
      <4>1. thread'[u] = thread[u] /\ thread[u].pc \notin {"size", "insert", "put_tip"}
        BY <1>2, <1>6, <3>2 DEF Holds
      <4> QED
        BY <4>1 DEF Extends
    <3> QED
      BY <3>1, <3>2
  <2> QED
    BY <2>2
<1>9. \A u \in Threads : u # t => ~Pending(thread'[u])
  BY <1>3, <1>6
<1>10. CASE q.grade = Registered
  <2>1. Accepted' = Accepted
    BY <1>7, <1>10 DEF Accepted
  <2>2. \A u \in Threads : ~Pending(thread'[u])
    BY <1>5, <1>6, <1>9, <1>10 DEF Pending
  <2>3. \A u \in Threads : ~Pending(thread[u])'
    BY <2>2 DEF Pending
  <2>4. (tip' = None => Accepted' = {}) /\ (tip' # None => History(tip)')
    BY <1>4, <1>7, <2>1 DEF History
  <2> QED
    BY <1>8, <2>3, <2>4 DEF OneHistory
<1>11. CASE q.grade # Registered
  <2>1. thread'[t] = r /\ Pending(thread[t])'
    BY <1>5, <1>6, <1>11 DEF Pending
  <2>2. q.cp.root \in Seq(STRING)
    BY <1>1, HistoryTypes
  <2>3. tip # None => IsPrefix(tip, q.cp.root)
    BY <1>1, <1>11 DEF Extends
  <2>4. ASSUME NEW c \in Accepted'
        PROVE  IsPrefix(c.cp.root, q.cp.root)
    <3>1. CASE c \in Accepted
      <4>1. tip # None /\ IsPrefix(c.cp.root, tip)
        BY <1>4, <3>1 DEF History
      <4>2. c.cp.root \in Seq(STRING) /\ tip \in Seq(STRING)
        BY <3>1, <4>1, HistoryTypes
      <4> QED
        BY <2>2, <2>3, <4>1, <4>2, PrefixTransitive
    <3>2. CASE c = c0
      BY <1>7, <2>2, <3>2, PrefixReflexive
    <3> QED
      BY <1>7, <3>1, <3>2 DEF Accepted
  <2>5. ASSUME NEW u \in Threads, Pending(thread[u])'
        PROVE  History(thread[u].cp.root)' /\ (tip' # None => IsPrefix(tip', thread'[u].cp.root))
    <3>1. u = t
      BY <1>9, <2>5 DEF Pending
    <3>2. thread'[u].cp.root = q.cp.root
      BY <1>5, <2>1, <3>1
    <3> QED
      BY <1>7, <2>3, <2>4, <3>2 DEF History
  <2> QED
    BY <1>8, <2>1, <2>5 DEF OneHistory, IsPrefix
<1> QED
  BY <1>10, <1>11

\* put_statement keeps the history: a pending request stays pending.
LEMMA PutStatementKeepsHistory ==
  ASSUME TypeInv, OneHistory, NEW t \in Threads, PutStatement(t)
  PROVE  OneHistory'
<1> DEFINE q == thread[t]
           r(step) == [q EXCEPT !.pc = step]
<1>1. q \in ThreadRecord /\ UNCHANGED <<tip, cosigned>> /\ q.pc = "put_statement"
  BY ThreadTypes DEF PutStatement, Running
<1>2. PICK step \in {"put_tip", "record"} :
        thread' = [thread EXCEPT ![t] = r(step)] /\ (step = "put_tip" <=> MovesTip(q.grade))
  BY DEF PutStatement, Advance
<1>3. r(step).pc = step /\ r(step).cp = q.cp /\ r(step).grade = q.grade
  BY <1>1, ThreadFields DEF Pcs
<1> HIDE DEF r
<1>4. Extends(r(step)) /\ (Pending(r(step)) <=> Pending(q))
  BY <1>1, <1>2, <1>3 DEF Extends, Pending, MovesTip
<1> QED
  BY <1>1, <1>2, <1>3, <1>4, HistoryKept

\* put_checkpoint_witness moves the tip to the end of the accepted history.
LEMMA PutTipKeepsHistory ==
  ASSUME TypeInv, OneHistory, OneInstance, NEW t \in Threads, PutTip(t)
  PROVE  OneHistory'
<1> DEFINE q == thread[t]
<1>1. q \in ThreadRecord /\ q.pc = "put_tip" /\ Holds(q) /\ Pending(q) /\ q.cp \in Checkpoints
  BY ThreadTypes DEF PutTip, Running, Holds, OneHistory, Extends, Pending, Prepared
<1>2. History(q.cp.root) /\ q.cp.root # None
  BY <1>1, ClaimTypes DEF OneHistory
<1>3. \A u \in Threads : u # t => ~Holds(thread[u])
  BY <1>1, Exclusive
<1>4. PICK r : thread' = [thread EXCEPT ![t] = r] /\ ~Holds(r)
  <2>1. CASE Finish(t)
    BY <2>1, NoRequestTypes DEF Finish
  <2>2. CASE Advance(t, "record", q)
    <3>1. [q EXCEPT !.pc = "record"].pc = "record"
      BY <1>1 DEF ThreadRecord
    <3>2. ~Holds([q EXCEPT !.pc = "record"])
      BY <3>1 DEF Holds
    <3> QED
      BY <2>2, <3>2 DEF Advance
  <2> QED
    BY <2>1, <2>2 DEF PutTip
<1>5. \A u \in Threads : ~Holds(thread'[u])
  BY <1>3, <1>4 DEF TypeInv, TypeOK
<1>6. \A u \in Threads : thread'[u].pc \in {"idle", "record"}
  BY <1>5 DEF Holds
<1>7. \A u \in Threads : Extends(thread[u])' /\ ~Pending(thread[u])'
  BY <1>6 DEF Extends, Pending
<1>8. tip' = q.cp.root /\ Accepted' = Accepted
  BY DEF PutTip, Accepted
<1>9. tip' # None /\ History(tip)'
  BY <1>2, <1>8 DEF History
<1> QED
  BY <1>7, <1>9 DEF OneHistory

\* The read surface, a refused insert and retention keep the history; without
\* store errors nothing else ends a request.
LEMMA OthersKeepHistory ==
  ASSUME TypeInv, OneHistory, OneInstance, NEW t \in Threads,
         Record(t) \/ InsertConflict(t) \/ Prune(t) \/ Fail(t)
  PROVE  OneHistory'
<1>1. ~Fail(t)
  BY DEF Fail, OneInstance, TypeInv
<1>2. UNCHANGED <<tip, cosigned>>
  BY <1>1 DEF Record, InsertConflict, Prune, tables
<1>3. CASE Prune(t)
  BY <1>2, <1>3 DEF Prune, OneHistory, Extends, Pending, History, Accepted
<1>4. CASE Record(t) \/ InsertConflict(t)
  <2>1. ~Pending(thread[t]) /\ Finish(t)
    BY <1>4 DEF Record, InsertConflict, Running, Pending
  <2> QED
    BY <1>2, <2>1, HistoryFinish
<1> QED
  BY <1>1, <1>3, <1>4

\* Every store call of one instance keeps the accepted checkpoints on one history.
LEMMA HistoryInductive ==
  ASSUME OneInstance
  PROVE  HInv /\ [Next]_vars => HInv'
<1> SUFFICES ASSUME HInv, [Next]_vars PROVE HInv'
  OBVIOUS
<1>1. TypeInv /\ OneHistory /\ TypeInv'
  BY TypesInductive DEF HInv
<1>2. CASE UNCHANGED vars
  BY <1>1, <1>2 DEF HInv, OneHistory, Extends, Pending, History, Accepted, vars, tables
<1>3. ASSUME NEW t \in Threads, NEW cp \in Checkpoints, SubmitNew(t, cp) \/ SubmitCached(t, cp)
      PROVE  OneHistory'
  BY <1>1, <1>3, LookupsKeepHistory
<1>4. ASSUME NEW t \in Threads, Step(t)
      PROVE  OneHistory'
  BY <1>1, <1>4, LookupsKeepHistory, CheckTipKeepsHistory, ReadSizeKeepsHistory,
     InsertEntryKeepsHistory, OthersKeepHistory, PutStatementKeepsHistory, PutTipKeepsHistory
     DEF Step
<1>5. ASSUME NEW t \in Threads, Prune(t) \/ Fail(t)
      PROVE  OneHistory'
  BY <1>1, <1>5, OthersKeepHistory
<1> QED
  BY <1>1, <1>2, <1>3, <1>4, <1>5 DEF HInv, Next

\* A witness that has seen nothing has accepted nothing.
LEMMA InitHistory == Init => HInv
<1> SUFFICES ASSUME Init PROVE HInv
  OBVIOUS
<1>1. \A t \in Threads : thread[t] = NoRequest
  BY DEF Init
<1>2. OneHistory
  BY <1>1, NoRequestTypes DEF Init, OneHistory, Extends, Pending, Accepted
<1> QED
  BY <1>2, InitTypes DEF HInv

\* "never co-sign a rollback or fork": one instance, under the enforce policy and
\* without store errors, keeps all it accepted on one history, for any number of
\* threads submitting any checkpoints.
THEOREM NoForkIsAccepted ==
  ASSUME OneInstance
  PROVE  Spec => []NoForkAccepted
<1>1. HInv => NoForkAccepted
  <2> SUFFICES ASSUME HInv, NEW c \in Accepted, NEW d \in Accepted
               PROVE  IsPrefix(c.cp.root, d.cp.root) \/ IsPrefix(d.cp.root, c.cp.root)
    BY DEF NoForkAccepted
  <2>1. TypeInv /\ OneHistory /\ c.cp.root \in Seq(STRING) /\ d.cp.root \in Seq(STRING)
    BY HistoryTypes DEF HInv
  <2>2. PICK root \in Seq(STRING) : History(root)
    <3>1. CASE \E t \in Threads : Pending(thread[t])
      <4>1. PICK t \in Threads : Pending(thread[t])
        BY <3>1
      <4>2. History(thread[t].cp.root) /\ thread[t].cp.root \in Seq(STRING)
        BY <2>1, <4>1, HistoryTypes DEF OneHistory, Pending
      <4> QED
        BY <4>2
    <3>2. CASE \A t \in Threads : ~Pending(thread[t])
      <4>1. tip # None /\ History(tip)
        BY <2>1, <3>2 DEF OneHistory
      <4> QED
        BY <2>1, <4>1, HistoryTypes
    <3> QED
      BY <3>1, <3>2
  <2> QED
    BY <2>1, <2>2, PrefixTotal DEF History
<1> QED
  BY <1>1, InitHistory, HistoryInductive, PTL DEF Spec

\* put_checkpoint_witness never moves the tip of one instance back, nor to another
\* history.
THEOREM TipOnlyExtends ==
  ASSUME OneInstance
  PROVE  Spec => TipExtends
<1> DEFINE Forward == tip # None => IsPrefix(tip, tip')
<1>1. HInv /\ [Next]_vars => [Forward]_vars
  <2> SUFFICES ASSUME HInv, [Next]_vars, tip # None PROVE IsPrefix(tip, tip')
    OBVIOUS
  <2>1. TypeInv /\ OneHistory /\ tip \in Seq(STRING)
    BY HistoryTypes DEF HInv
  <2>2. CASE UNCHANGED tip
    BY <2>1, <2>2, PrefixReflexive
  <2>3. ASSUME NEW t \in Threads, PutTip(t)
        PROVE  IsPrefix(tip, tip')
    <3>1. Pending(thread[t])
      BY <2>1, <2>3 DEF PutTip, Running, OneHistory, Extends, Pending
    <3>2. IsPrefix(tip, thread[t].cp.root)
      BY <2>1, <3>1 DEF OneHistory
    <3> QED
      BY <2>3, <3>2 DEF PutTip
  <2>4. UNCHANGED tip \/ \E t \in Threads : PutTip(t)
    BY DEF Next, Step, vars, tables, SubmitNew, SubmitCached, ReadCachedGrade, CheckTip, ReadSize,
       InsertEntry, InsertConflict, PutStatement, Record, Prune, Fail
  <2> QED
    BY <2>2, <2>3, <2>4
<1> QED
  BY <1>1, InitHistory, HistoryInductive, PTL DEF Spec, TipExtends, Forward
===============================================================================
