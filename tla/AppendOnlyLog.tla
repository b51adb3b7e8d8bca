---------------------------- MODULE AppendOnlyLog ----------------------------
(***************************************************************************)
(* What the witness promises monitors: one log that only grows, and signed *)
(* heads that each commit to a prefix of it.  A head is represented by the *)
(* sequence of leaves under its root, so its tree size is its length.      *)
(***************************************************************************)
EXTENDS Naturals, Sequences

VARIABLES
  log,    \* the leaves of the log
  heads   \* every root signed and made public, in a receipt or a tree head

avars == <<log, heads>>

Prefix(n) == SubSeq(log, 1, n)

Init == heads \subseteq {Prefix(n) : n \in 0 .. Len(log)}

\* The log grows by one leaf and keeps all it had.
Grow ==
  /\ Len(log') = Len(log) + 1
  /\ SubSeq(log', 1, Len(log)) = log
  /\ UNCHANGED heads

\* Signed roots become public; each may have been signed at an earlier size.
Publish ==
  /\ heads' \subseteq heads \cup {Prefix(n) : n \in 0 .. Len(log)}
  /\ heads \subseteq heads'
  /\ UNCHANGED log

Next == Grow \/ Publish

Spec == Init /\ [][Next]_avars
=============================================================================
