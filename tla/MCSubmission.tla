---------------------------- MODULE MCSubmission ----------------------------
(***************************************************************************)
(* An instance of Watcher for TLC: log A enrolled as a foreign COSE log    *)
(* and J as a JSON log, or only A, or nobody, and submissions that pass or *)
(* fail each check of the two wire forms.                                  *)
(***************************************************************************)
EXTENDS Watcher

CONSTANTS A, J, ka, kj, ks

Item(log, key, accumulator, rate, form, map) ==
  [log_id |-> log, pubkey |-> key, accumulator |-> accumulator, rate_limit |-> rate,
   wire_form |-> form, field_map |-> map]

EnrollA == Item(A, ka, "foreign", 1, "cose", "none")
EnrollJ == Item(J, kj, "native", 2, "json", "distinct")

\* The last three end the start of the process.
Files ==
  {<<>>, <<EnrollA, EnrollJ>>, <<EnrollA, EnrollA>>,
   <<[EnrollA EXCEPT !.rate_limit = 0]>>, <<[EnrollJ EXCEPT !.field_map = "clashing"]>>}

Claims(size, root, prevSize, prevRoot, proof) ==
  [size |-> size, root |-> root, prev_size |-> prevSize, prev_root |-> prevRoot,
   proof |-> IF proof THEN <<prevSize, size>> ELSE None, subject |-> size]

Cose(log, key, claims) ==
  [header |-> "cose", body |-> "bytes", form |-> "cose", content_type |-> "cll-checkpoint",
   log_id |-> log, kid |-> key, signer |-> key, claims |-> claims]

Json(log, key, claims) ==
  [Cose(log, key, claims) EXCEPT !.header = "json", !.form = "json", !.content_type = "none"]

First == Claims(1, "r1", 0, "", FALSE)
Second == Claims(2, "r2", 1, "r1", TRUE)
Other == Claims(1, "s1", 0, "", FALSE)

A1 == Cose(A, ka, First)
J1 == Json(J, kj, First)

Posted ==
  {A1, Cose(A, ka, Second),
   J1, Cose(J, kj, First),
   Cose(A, ks, Other),                             \* a stranger's, of its own kid
   [A1 EXCEPT !.kid = ks],                         \* the pinned key beside a kid
   [A1 EXCEPT !.header = "json"],
   [J1 EXCEPT !.signer = ks],
   [A1 EXCEPT !.body = "empty"]}

PostedDigests == {A1, Cose(A, ka, Second)}
=============================================================================
