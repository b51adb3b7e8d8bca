----------------------------- MODULE MCCheckpoint -----------------------------
(***************************************************************************)
(* Instances of Checkpoint for TLC: a log whose history is a, a, a and the *)
(* forks and rewrites of it that its operator may also sign.               *)
(***************************************************************************)
EXTENDS Checkpoint, TLC

CONSTANTS i1, i2, t1, t2

a == "a"
b == "b"

Native(prev, root, proof) == [form |-> "native", prev |-> prev, root |-> root, proof |-> proof]
Legacy(prev, root) == [form |-> "legacy", prev |-> prev, root |-> root, proof |-> FALSE]
Foreign(prev, root) == [form |-> "foreign", prev |-> prev, root |-> root, proof |-> FALSE]

First     == Native(<<>>, <<a>>, FALSE)
Second    == Native(<<a>>, <<a, a>>, TRUE)
Third     == Native(<<a, a>>, <<a, a, a>>, TRUE)
Skipped   == Native(<<>>, <<a, a>>, TRUE)           \* not from the tip
Forked    == Native(<<a>>, <<a, b>>, TRUE)          \* a valid proof of another history
Rewritten == Native(<<a>>, <<b, b>>, TRUE)          \* a copied prior root, no valid proof
Unproven  == Native(<<a>>, <<a, b>>, FALSE)

\* Every kind of checkpoint, for one instance without faults.  The foreign one
\* has the claims, hence the digest, of Second.
EveryKind ==
  {First, Second, Third, Skipped, Forked, Rewritten, Unproven, Foreign(<<a>>, <<a, a>>),
   Legacy(<<>>, <<a>>), Legacy(<<a>>, <<a, b>>)}

\* All three forms, for instances that share the tables and crash.
MixedLog == {First, Skipped, Forked, Legacy(<<a>>, <<a, b>>), Foreign(<<a>>, <<a, a>>)}

OneHistory == {First, Second}
ForkedLog == {First, Second, Forked}
SlotLog == {First, Second, Unproven}

OneInstance == [t \in Threads |-> i1]
TwoInstances == [t \in Threads |-> IF t = t1 THEN i1 ELSE i2]

ThreadSymmetry == Permutations(Threads)

\* The two instances, each with its thread, are interchangeable.
PairSymmetry == {[x \in {t1, t2, i1, i2} |-> CASE x = t1 -> t2 [] x = t2 -> t1
                                               [] x = i1 -> i2 [] x = i2 -> i1]}
=============================================================================
