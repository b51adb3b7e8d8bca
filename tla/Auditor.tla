------------------------------ MODULE Auditor ------------------------------
(***************************************************************************)
(* A monitor of the service, beside PublicLog: it reads the published      *)
(* heads from the public log, asks an instance for consistency proofs and  *)
(* keeps the last head it could connect to the one before.                 *)
(*                                                                         *)
(* Each log appends its own leaves <<l, 1>>, <<l, 2>>, ...  Trees, proofs  *)
(* and verifications are CtTree's; the tables below are their values.      *)
(***************************************************************************)
EXTENDS PublicLog, CtTree

CONSTANT MaxTree   \* bound: trees for which every proof is checked

ASSUME AuditorConstants ==
  /\ MaxTree \in Nat /\ Sizes \subseteq 1 .. MaxTree
  /\ None \notin Logs

VARIABLES
  pinned,   \* the head the monitor holds; size 0 before its first
  alarmed   \* a proof for a published head did not verify

auditorVars == <<vars, pinned, alarmed>>

Leaves(l, n) == [k \in 1 .. n |-> Leaf(<<l, k>>)]

Root == [l \in Logs |-> [n \in 0 .. MaxTree |-> MerkleTreeHash(Leaves(l, n))]]

\* What an instance over log l answers, by what the monitor has and wants.
Proof ==
  [l \in Logs |-> [n \in Sizes \cup {0} |-> [old \in Sizes \cup {0} |-> [new \in Sizes |->
     ConsistencyProof(Leaves(l, n), old, new)]]]]

\* RekorPublicLog.verify: the entry a row names exists.
RekorVerify(row) == row.uuid \in entries

AuditorInit ==
  /\ Init
  /\ pinned = [log |-> None, size |-> 0]
  /\ alarmed = FALSE

\* The monitor verifies the path between two roots of its own: the one it holds
\* and the one in the public log.
Judge(answer, p, e) ==
  LET held == IF p.size = 0 THEN EmptyRoot ELSE Root[p.log][p.size]
      proof == [answer EXCEPT !.first_root = held, !.second_root = Root[e.log][e.size]]
  IN IF answer.status # 200 THEN "unanswered"
     ELSE IF VerifyConsistency(proof) THEN "consistent" ELSE "inconsistent"

Verdict ==
  [l \in Logs |-> [n \in Sizes \cup {0} |->
    [p \in [log : Logs \cup {None}, size : Sizes \cup {0}] |-> [e \in [log : Logs, size : Sizes] |->
       Judge(Proof[l][n][p.size][e.size], p, e)]]]]

\* The monitor takes any row instance i lists, in any order, and connects the
\* entry of the public log to the head it holds.
Follow(i) ==
  /\ Up(i) /\ ~ alarmed
  /\ \E row \in PublicLogEntries(i, pinned.size) :
       /\ RekorVerify(row)
       /\ LET e == [log |-> row.uuid.log, size |-> row.uuid.size]
              verdict == Verdict[proc[i].log][size[proc[i].log]][pinned][e]
          IN /\ verdict # "unanswered"
             /\ pinned' = IF verdict = "consistent" THEN e ELSE pinned
             /\ alarmed' = (verdict = "inconsistent")
  /\ UNCHANGED vars

AuditorNext ==
  \/ Next /\ UNCHANGED <<pinned, alarmed>>
  \/ \E i \in Instances : Follow(i)

AuditorSpec == AuditorInit /\ [][AuditorNext]_auditorVars /\ PublisherFairness
-----------------------------------------------------------------------------
(* Properties. *)

\* A monitor that holds a head is never led to a head of another log, by any
\* instance and after any restart, and never back (service.py:1117-1129).
OneLogPinned ==
  [][pinned.size > 0 => pinned'.log = pinned.log /\ pinned'.size >= pinned.size]_auditorVars

\* The monitor raises no alarm while it is served by the log it follows: every
\* consistency proof the service builds verifies, for whichever heads were
\* published (service.py:1092-1115).
AlarmsJustified ==
  [][alarmed' /\ ~ alarmed =>
       \E i \in Instances : Up(i) /\ proc[i].log # pinned.log]_auditorVars

\* Every leaf of a log has an inclusion proof under every head that covers it.
Provable == [n \in 1 .. MaxTree |->
  \A index \in 0 .. n - 1 : \A at \in index + 1 .. n :
    LET proof == InclusionProofCt(Leaves(Db, n), index, at)
    IN proof.status = 200 /\ VerifyInclusion(proof, Root[Db][at])]

\* What a dishonest path can be made of: the hashes of the honest one.
Paths(path, other) ==
  LET hashes == {path[k] : k \in 1 .. Len(path)} \cup {other, EmptyRoot}
  IN {path, <<other>> \o path} \cup
     (IF path = <<>> THEN {} ELSE {Tail(path), First(path, Len(path) - 1)}) \cup
     {Append(path, h) : h \in hashes} \cup
     UNION {{[path EXCEPT ![k] = h] : h \in hashes} : k \in 1 .. Len(path)}

\* Under the root of a log's head no path proves a leaf at a place that is not
\* its own, and none proves a leaf the log does not hold.
Unforgeable == [n \in 1 .. MaxTree |->
  LET leaves == Leaves(Db, n)
      forged == Leaf(<<None, 0>>)
  IN \A index \in 0 .. n + 1, at \in 0 .. n - 1, k \in 0 .. n :
       LET claimed == IF k = n THEN forged ELSE leaves[k + 1]
       IN \A path \in Paths(InclusionAuditPath(at, leaves), forged) :
            VerifyInclusionPath(claimed, index, n, path, Root[Db][n]) => k = index]

\* The service proves exactly what its log holds: each leaf under each head
\* that covers it, at its own place and no other (ct.py:77, 96;
\* service.py:1038).
InclusionExact ==
  \A i \in Instances : Up(i) =>
    \A n \in 1 .. size[proc[i].log] : Provable[n] /\ Unforgeable[n]

\* A log that agrees with Db up to its first d leaves.
Forked(d, n) == [k \in 1 .. n |-> IF k <= d THEN Leaf(<<Db, k>>) ELSE Leaf(<<None, k>>)]

\* A path connects the first m leaves of Db to a later head just when that
\* head's tree holds them, and it is the service's own path.
Connected == [n \in 1 .. MaxTree |->
  \A m \in 1 .. n : \A d \in 0 .. n :
    LET proof == ConsistencyProof(Forked(d, n), m, n)
    IN \A path \in Paths(proof.proof, Root[Db][m]) :
         VerifyConsistencyProof(m, n, Root[Db][m], proof.second_root, path)
           <=> d >= m /\ path = proof.proof]

\* The service proves exactly the extensions: every head to every later one of
\* its log, and none to a head whose first leaves differ (ct.py:136, 163).
ConsistencyExact ==
  \A i \in Instances : Up(i) =>
    \A n \in 1 .. size[proc[i].log] : Connected[n]
=============================================================================
