-------------------------- MODULE AdmissionProofs --------------------------
(***************************************************************************)
(* Theorems about Admission and Watcher, for every set of submissions and  *)
(* of submitters files, every limit, window and lag, and every number of   *)
(* deployments.                                                            *)
(*                                                                         *)
(* The deque of a limiter and the history of the calls it allowed are both *)
(* ends of one and the same list of calls, one with the clock each call    *)
(* had read, the other with the time it was allowed at.  Aligned says how  *)
(* the two clocks differ where both have the call, and that a call which   *)
(* only one of them still has is too old to matter to the other; the       *)
(* budget follows from it.                                                 *)
(***************************************************************************)
EXTENDS Watcher, FiniteSetTheorems, SequenceTheorems, WellFoundedInduction, TLAPS

\* What MaxLag and Window are.
LEMMA Numbers ==
  /\ MaxCalls \in Nat \ {0} /\ Window \in Nat /\ MaxLag \in Nat /\ MaxLag <= Window
  /\ MaxTime \in Nat /\ MaxDeploys \in Nat /\ "global" \notin Logs
  BY AdmissionConstants
-----------------------------------------------------------------------------
(* The end of a sequence. *)

\* Suffix returns the last n elements.
LEMMA SuffixProperties ==
  ASSUME NEW S, NEW s \in Seq(S), NEW n \in 0 .. Len(s)
  PROVE  /\ Suffix(s, n) \in Seq(S) /\ Len(Suffix(s, n)) = n
         /\ \A k \in 1 .. n : Suffix(s, n)[k] = s[k + (Len(s) - n)]
<1> DEFINE m == Len(s) - n + 1
<1>1. m \in Int /\ Len(s) \in Int /\ \A k \in m .. Len(s) : s[k] \in S
  BY LenProperties, ElementOfSeq
<1>2. /\ Suffix(s, n) \in Seq(S)
      /\ Len(Suffix(s, n)) = IF m <= Len(s) THEN Len(s) - m + 1 ELSE 0
      /\ \A k \in 1 .. Len(s) - m + 1 : Suffix(s, n)[k] = s[m + k - 1]
  BY <1>1, SubSeqProperties DEF Suffix
<1>3. Len(s) - m + 1 = n /\ \A k \in 1 .. n : m + k - 1 = k + (Len(s) - n)
  BY <1>1
<1> QED BY <1>1, <1>2, <1>3

\* A set of naturals that is not empty has a smallest.
LEMMA LeastNatural ==
  ASSUME NEW S \in SUBSET Nat, S # {}
  PROVE  \E m \in S : \A n \in S : m <= n
<1>1. IsWellFoundedOn(OpToRel(<, Nat), Nat)
  BY NatLessThanWellFounded, Zenon
<1>2. PICK m \in S : \A n \in S : <<n, m>> \notin OpToRel(<, Nat)
  BY <1>1, WFMin, Zenon
<1>3. \A n \in S : ~ (n < m)
  BY <1>2, Zenon DEF OpToRel
<1> QED BY <1>3

\* Indices that go on to the end are as many as their number says.
LEMMA UpperIndices ==
  ASSUME NEW n \in Nat, NEW S \in SUBSET (1 .. n),
         \A j, k \in 1 .. n : j \in S /\ j <= k => k \in S
  PROVE  /\ Cardinality(S) \in 0 .. n
         /\ \A k \in 1 .. n : k \in S <=> k > n - Cardinality(S)
<1>1. CASE S = {}
  <2>1. Cardinality(S) = 0
    BY <1>1, FS_EmptySet
  <2> QED BY <1>1, <2>1
<1>2. CASE S # {}
  <2>1. PICK m \in S : \A k \in S : m <= k
    BY <1>2, LeastNatural
  <2>2. m \in 1 .. n
    BY <2>1
  <2>3. \A k \in 1 .. n : m <= k => k \in S
    BY <2>1, <2>2
  <2>4. S = m .. n
    <3>1. \A k \in S : k \in m .. n
      BY <2>1, <2>2
    <3>2. \A k \in m .. n : k \in S
      BY <2>2, <2>3
    <3> QED BY <3>1, <3>2
  <2>5. Cardinality(S) = n - m + 1
    BY <2>2, <2>4, FS_Interval
  <2> QED BY <2>2, <2>4, <2>5
<1> QED BY <1>1, <1>2

\* A set of indices no larger than an interval it lies in.
LEMMA IndicesWithin ==
  ASSUME NEW a \in Int, NEW b \in Int, NEW S \in SUBSET (a .. b)
  PROVE  Cardinality(S) \in Nat /\ Cardinality(S) <= IF a > b THEN 0 ELSE b - a + 1
<1>1. IsFiniteSet(a .. b) /\ Cardinality(a .. b) = IF a > b THEN 0 ELSE b - a + 1
  BY FS_Interval
<1>2. IsFiniteSet(S) /\ Cardinality(S) <= Cardinality(a .. b)
  BY <1>1, FS_Subset, Zenon
<1>3. Cardinality(S) \in Nat
  BY <1>2, FS_CardinalityType, Zenon
<1> QED BY <1>1, <1>2, <1>3
-----------------------------------------------------------------------------
(* A deque and the history of its calls, at time n. *)

\* Times up to n.
Past(s, n) == s \in Seq(Nat) /\ \A k \in 1 .. Len(s) : s[k] <= n

Sorted(a) == \A j, k \in 1 .. Len(a) : j <= k => a[j] <= a[k]

\* Counted from the end, the call w has at j is the one a has at k.
Matched(w, a) ==
  \A j \in 1 .. Len(w), k \in 1 .. Len(a) :
    j - Len(w) = k - Len(a) => w[j] <= a[k] /\ a[k] <= w[j] + MaxLag

\* What w has and a has not, and what a has and w has not.
Forgotten(w, a, n) ==
  \A j \in 1 .. Len(w) : j <= Len(w) - Len(a) => w[j] + Window + MaxLag < n

Dropped(w, a, n) ==
  \A k \in 1 .. Len(a) : k <= Len(a) - Len(w) => a[k] + Window - MaxLag < n

\* w is a deque, a the history of the calls it allowed.
Aligned(w, a, n) ==
  /\ Past(w, n) /\ Past(a, n) /\ Sorted(a)
  /\ Matched(w, a) /\ Forgotten(w, a, n) /\ Dropped(w, a, n)

\* What Past says of a sequence, element by element.
LEMMA PastTyped ==
  ASSUME NEW s, NEW n, Past(s, n)
  PROVE  s \in Seq(Nat) /\ Len(s) \in Nat /\ \A k \in 1 .. Len(s) : s[k] \in Nat /\ s[k] <= n
  BY LenProperties, ElementOfSeq DEF Past

\* The indices the popleft loop leaves.
Kept(w, at) == {k \in 1 .. Len(w) : \E j \in 1 .. k : Counts(w[j], at)}

\* The indices the popleft loop leaves go on to the end of the deque.
LEMMA KeptUpper ==
  ASSUME NEW w \in Seq(Nat), NEW at \in Nat
  PROVE  /\ Cardinality(Kept(w, at)) \in 0 .. Len(w)
         /\ \A k \in 1 .. Len(w) : k \in Kept(w, at) <=> k > Len(w) - Cardinality(Kept(w, at))
<1>1. Len(w) \in Nat /\ Kept(w, at) \in SUBSET (1 .. Len(w))
  BY LenProperties DEF Kept
<1>2. \A j, k \in 1 .. Len(w) : j \in Kept(w, at) /\ j <= k => k \in Kept(w, at)
  BY DEF Kept
<1> HIDE DEF Kept
<1> QED BY <1>1, <1>2, UpperIndices

\* The popleft loop keeps the alignment: what it drops is too old to be in the
\* history of a window less the lag.
LEMMA TrimAligned ==
  ASSUME NEW n \in Nat, NEW w, NEW a, Aligned(w, a, n), NEW at \in Nat, at <= n
  PROVE  Aligned(Suffix(w, Cardinality(Kept(w, at))), a, n)
<1> DEFINE m == Cardinality(Kept(w, at))
           v == Suffix(w, m)
           p == Len(w)
           q == Len(a)
<1>1. /\ w \in Seq(Nat) /\ p \in Nat /\ \A k \in 1 .. p : w[k] \in Nat /\ w[k] <= n
      /\ a \in Seq(Nat) /\ q \in Nat /\ \A k \in 1 .. q : a[k] \in Nat /\ a[k] <= n
  BY PastTyped DEF Aligned
<1>2. m \in 0 .. p /\ \A k \in 1 .. p : k \in Kept(w, at) <=> k > p - m
  BY <1>1, KeptUpper
<1>3. v \in Seq(Nat) /\ Len(v) = m /\ \A k \in 1 .. m : v[k] = w[k + (p - m)]
  BY <1>1, <1>2, SuffixProperties
<1>4. \A k \in 1 .. p : k <= p - m => w[k] < at - Window
  <2> SUFFICES ASSUME NEW k \in 1 .. p, k <= p - m PROVE w[k] < at - Window
    OBVIOUS
  <2>1. k \notin Kept(w, at)
    BY <1>1, <1>2
  <2>2. ~ Counts(w[k], at)
    BY <2>1 DEF Kept
  <2> QED BY <1>1, <2>2, Numbers DEF Counts
<1>5. p \in Nat /\ q \in Nat /\ m \in Nat /\ m <= p
  BY <1>1, <1>2
<1>6. Matched(w, a) /\ Forgotten(w, a, n) /\ Dropped(w, a, n) /\ Past(a, n) /\ Sorted(a)
  BY DEF Aligned
<1>7. Past(v, n)
  <2>1. \A k \in 1 .. m : k + (p - m) \in 1 .. p
    BY <1>5
  <2> QED BY <1>1, <1>3, <2>1 DEF Past
<1>8. Matched(v, a)
  <2> SUFFICES ASSUME NEW j \in 1 .. m, NEW k \in 1 .. q, j - m = k - q
               PROVE  v[j] <= a[k] /\ a[k] <= v[j] + MaxLag
    BY <1>3 DEF Matched
  <2>1. j + (p - m) \in 1 .. p /\ (j + (p - m)) - p = k - q
    BY <1>5
  <2>2. w[j + (p - m)] <= a[k] /\ a[k] <= w[j + (p - m)] + MaxLag
    BY <1>6, <2>1 DEF Matched
  <2> QED BY <1>3, <2>2
<1>9. Forgotten(v, a, n)
  <2> SUFFICES ASSUME NEW j \in 1 .. m, j <= m - q PROVE v[j] + Window + MaxLag < n
    BY <1>3 DEF Forgotten
  <2>1. j + (p - m) \in 1 .. p /\ j + (p - m) <= p - q
    BY <1>5
  <2> QED BY <1>3, <1>6, <2>1 DEF Forgotten
<1>10. Dropped(v, a, n)
  <2> SUFFICES ASSUME NEW k \in 1 .. q, k <= q - m PROVE a[k] + Window - MaxLag < n
    BY <1>3 DEF Dropped
  <2>1. CASE k <= q - p
    BY <1>6, <2>1 DEF Dropped
  <2>2. CASE ~ (k <= q - p)
    <3> DEFINE j == k - q + p
    <3>1. j \in 1 .. p /\ j <= p - m /\ j - p = k - q
      BY <1>5, <2>2
    <3>2. w[j] < at - Window /\ a[k] <= w[j] + MaxLag /\ w[j] \in Nat /\ a[k] \in Nat
      BY <1>1, <1>4, <1>6, <3>1 DEF Matched
    <3> HIDE DEF j
    <3> QED BY <3>2, Numbers
  <2> QED BY <2>1, <2>2
<1> QED BY <1>6, <1>7, <1>8, <1>9, <1>10 DEF Aligned

\* A call that is allowed joins both.
LEMMA AppendAligned ==
  ASSUME NEW n \in Nat, NEW w, NEW a, Aligned(w, a, n),
         NEW at \in Nat, at <= n, n <= at + MaxLag
  PROVE  Aligned(Append(w, at), Append(a, n), n)
<1> DEFINE v == Append(w, at)
           b == Append(a, n)
           p == Len(w)
           q == Len(a)
<1>1. /\ w \in Seq(Nat) /\ p \in Nat /\ \A k \in 1 .. p : w[k] \in Nat /\ w[k] <= n
      /\ a \in Seq(Nat) /\ q \in Nat /\ \A k \in 1 .. q : a[k] \in Nat /\ a[k] <= n
  BY PastTyped DEF Aligned
<1>2. v \in Seq(Nat) /\ Len(v) = p + 1 /\ v[p + 1] = at /\ \A k \in 1 .. p : v[k] = w[k]
  BY <1>1, AppendProperties
<1>3. b \in Seq(Nat) /\ Len(b) = q + 1 /\ b[q + 1] = n /\ \A k \in 1 .. q : b[k] = a[k]
  BY <1>1, AppendProperties
<1>4. p \in Nat /\ q \in Nat
  BY <1>1
<1>5. Matched(w, a) /\ Forgotten(w, a, n) /\ Dropped(w, a, n) /\ Sorted(a)
  BY DEF Aligned
<1>6. \A k \in 1 .. p + 1 : k \in 1 .. p \/ k = p + 1
  BY <1>4
<1>7. \A k \in 1 .. q + 1 : k \in 1 .. q \/ k = q + 1
  BY <1>4
<1> HIDE DEF v, b, p, q
<1>8. Past(v, n) /\ Past(b, n)
  <2>1. \A k \in 1 .. p + 1 : v[k] <= n
    BY <1>1, <1>2, <1>6
  <2>2. \A k \in 1 .. q + 1 : b[k] <= n
    BY <1>1, <1>3, <1>7
  <2> QED BY <1>2, <1>3, <2>1, <2>2 DEF Past
<1>9. Sorted(b)
  <2> SUFFICES ASSUME NEW j \in 1 .. q + 1, NEW k \in 1 .. q + 1, j <= k PROVE b[j] <= b[k]
    BY <1>3 DEF Sorted
  <2>1. CASE k = q + 1
    BY <1>3, <1>8, <2>1 DEF Past
  <2>2. CASE k \in 1 .. q
    <3>1. j \in 1 .. q
      BY <1>4, <2>2
    <3> QED BY <1>3, <1>5, <2>2, <3>1 DEF Sorted, q
  <2> QED BY <1>7, <2>1, <2>2
<1>10. Matched(v, b)
  <2> SUFFICES ASSUME NEW j \in 1 .. p + 1, NEW k \in 1 .. q + 1, j - (p + 1) = k - (q + 1)
               PROVE  v[j] <= b[k] /\ b[k] <= v[j] + MaxLag
    BY <1>2, <1>3 DEF Matched
  <2>1. CASE j = p + 1
    <3>1. k = q + 1
      BY <1>4, <2>1
    <3> QED BY <1>2, <1>3, <2>1, <3>1
  <2>2. CASE j \in 1 .. p
    <3>1. k \in 1 .. q /\ j - p = k - q
      BY <1>4, <2>2
    <3> QED BY <1>2, <1>3, <1>5, <2>2, <3>1 DEF Matched, p, q
  <2> QED BY <1>6, <2>1, <2>2
<1>11. Forgotten(v, b, n)
  <2> SUFFICES ASSUME NEW j \in 1 .. p + 1, j <= (p + 1) - (q + 1)
               PROVE  v[j] + Window + MaxLag < n
    BY <1>2, <1>3 DEF Forgotten
  <2>1. j \in 1 .. p /\ j <= p - q
    BY <1>4
  <2> QED BY <1>2, <1>5, <2>1 DEF Forgotten, p, q
<1>12. Dropped(v, b, n)
  <2> SUFFICES ASSUME NEW k \in 1 .. q + 1, k <= (q + 1) - (p + 1)
               PROVE  b[k] + Window - MaxLag < n
    BY <1>2, <1>3 DEF Dropped
  <2>1. k \in 1 .. q /\ k <= q - p
    BY <1>4
  <2> QED BY <1>3, <1>5, <2>1 DEF Dropped, p, q
<1>13. Aligned(v, b, n)
  BY <1>8, <1>9, <1>10, <1>11, <1>12 DEF Aligned
<1> QED BY <1>13 DEF v, b

\* Time passes: the history forgets what is older than a window and the lag.
LEMMA TickAligned ==
  ASSUME NEW n \in Nat, NEW w, NEW a, Aligned(w, a, n)
  PROVE  LET recent == {k \in 1 .. Len(a) : a[k] + Window + MaxLag > n}
         IN Aligned(w, Suffix(a, Cardinality(recent)), n + 1)
<1> DEFINE recent == {k \in 1 .. Len(a) : a[k] + Window + MaxLag > n}
           m == Cardinality(recent)
           b == Suffix(a, m)
           p == Len(w)
           q == Len(a)
<1>1. /\ w \in Seq(Nat) /\ p \in Nat /\ \A k \in 1 .. p : w[k] \in Nat /\ w[k] <= n
      /\ a \in Seq(Nat) /\ q \in Nat /\ \A k \in 1 .. q : a[k] \in Nat /\ a[k] <= n
  BY PastTyped DEF Aligned
<1>2. Matched(w, a) /\ Forgotten(w, a, n) /\ Dropped(w, a, n) /\ Sorted(a)
  BY DEF Aligned
<1>3. \A j, k \in 1 .. q : j \in recent /\ j <= k => k \in recent
  <2> SUFFICES ASSUME NEW j \in 1 .. q, NEW k \in 1 .. q, a[j] + Window + MaxLag > n, j <= k
               PROVE  a[k] + Window + MaxLag > n
    OBVIOUS
  <2>1. a[j] <= a[k] /\ a[j] \in Nat /\ a[k] \in Nat
    BY <1>1, <1>2 DEF Sorted
  <2> QED BY <2>1, Numbers
<1>4. m \in 0 .. q /\ \A k \in 1 .. q : k \in recent <=> k > q - m
  BY <1>1, <1>3, UpperIndices
<1>5. b \in Seq(Nat) /\ Len(b) = m /\ \A k \in 1 .. m : b[k] = a[k + (q - m)]
  BY <1>1, <1>4, SuffixProperties
<1>6. p \in Nat /\ q \in Nat /\ m \in Nat /\ m <= q
  BY <1>1, <1>4
<1>7. \A k \in 1 .. q : k <= q - m => a[k] + Window + MaxLag <= n
  <2> SUFFICES ASSUME NEW k \in 1 .. q, k <= q - m PROVE a[k] + Window + MaxLag <= n
    OBVIOUS
  <2>1. k \notin recent
    BY <1>4, <1>6
  <2> QED BY <1>1, <2>1, Numbers
<1> HIDE DEF recent, m, b
<1>8. \A k \in 1 .. m : k + (q - m) \in 1 .. q
  BY <1>6
<1>9. \A k \in 1 .. m : b[k] \in Nat /\ b[k] <= n
  BY <1>1, <1>5, <1>8
<1>10. Past(w, n + 1) /\ Past(b, n + 1)
  BY <1>1, <1>5, <1>9 DEF Past
<1>11. Sorted(b)
  <2> SUFFICES ASSUME NEW j \in 1 .. m, NEW k \in 1 .. m, j <= k PROVE b[j] <= b[k]
    BY <1>5 DEF Sorted
  <2>1. j + (q - m) <= k + (q - m) /\ j + (q - m) \in 1 .. q /\ k + (q - m) \in 1 .. q
    BY <1>6
  <2> QED BY <1>2, <1>5, <2>1 DEF Sorted
<1>12. Matched(w, b)
  <2> SUFFICES ASSUME NEW j \in 1 .. p, NEW k \in 1 .. m, j - p = k - m
               PROVE  w[j] <= b[k] /\ b[k] <= w[j] + MaxLag
    BY <1>5 DEF Matched
  <2>1. k + (q - m) \in 1 .. q /\ j - p = (k + (q - m)) - q
    BY <1>6
  <2>2. w[j] <= a[k + (q - m)] /\ a[k + (q - m)] <= w[j] + MaxLag
    BY <1>2, <2>1 DEF Matched
  <2> QED BY <1>5, <2>2
<1>13. Forgotten(w, b, n + 1)
  <2> SUFFICES ASSUME NEW j \in 1 .. p, j <= p - m PROVE w[j] + Window + MaxLag < n + 1
    BY <1>5 DEF Forgotten
  <2>1. CASE j <= p - q
    <3>1. w[j] + Window + MaxLag < n /\ w[j] \in Nat
      BY <1>1, <1>2, <2>1 DEF Forgotten
    <3> QED BY <3>1, Numbers
  <2>2. CASE ~ (j <= p - q)
    <3> DEFINE k == j - p + q
    <3>1. k \in 1 .. q /\ k <= q - m /\ j - p = k - q
      BY <1>6, <2>2
    <3>2. a[k] + Window + MaxLag <= n /\ w[j] <= a[k] /\ a[k] \in Nat /\ w[j] \in Nat
      BY <1>1, <1>2, <1>7, <3>1 DEF Matched
    <3> HIDE DEF k
    <3> QED BY <3>2, Numbers
  <2> QED BY <2>1, <2>2
<1>14. Dropped(w, b, n + 1)
  <2> SUFFICES ASSUME NEW k \in 1 .. m, k <= m - p PROVE b[k] + Window - MaxLag < n + 1
    BY <1>5 DEF Dropped
  <2>1. k + (q - m) \in 1 .. q /\ k + (q - m) <= q - p
    BY <1>6
  <2>2. b[k] + Window - MaxLag < n /\ b[k] \in Nat
    BY <1>2, <1>5, <1>9, <2>1 DEF Dropped
  <2> QED BY <2>2, Numbers
<1>15. Aligned(w, b, n + 1)
  BY <1>10, <1>11, <1>12, <1>13, <1>14 DEF Aligned
<1> QED BY <1>15 DEF recent, m, b

\* The times of the history from some moment on.
Since(a, span, n) == {k \in 1 .. Len(a) : a[k] + span >= n}

\* The calls of a stretch are finitely many.
LEMMA SinceNumber ==
  ASSUME NEW a \in Seq(Nat), NEW span, NEW n PROVE Cardinality(Since(a, span, n)) \in Nat
<1> DEFINE S == Since(a, span, n)
<1>1. Len(a) \in Int /\ 1 \in Int /\ S \in SUBSET (1 .. Len(a))
  BY LenProperties DEF Since
<1> HIDE DEF S
<1>2. Cardinality(S) \in Nat
  BY <1>1, IndicesWithin
<1> QED BY <1>2 DEF S

\* A stretch that reaches back to a call reaches back to later ones.
LEMMA LaterReaches ==
  ASSUME NEW n \in Nat, NEW x \in Nat, NEW y \in Nat, NEW z \in Nat,
         x + Window + MaxLag >= n, x <= y, y <= z
  PROVE  z + (Window + MaxLag) >= n
BY Numbers

\* A stretch shorter than a window by the lag has no more calls than the deque.
LEMMA AtMost ==
  ASSUME NEW n \in Nat, NEW w, NEW a, Aligned(w, a, n)
  PROVE  Cardinality(Since(a, Window - MaxLag, n)) <= Len(w)
<1> DEFINE p == Len(w)
           q == Len(a)
           S == Since(a, Window - MaxLag, n)
<1>1. p \in Nat /\ q \in Nat /\ \A k \in 1 .. q : a[k] \in Nat
  BY PastTyped DEF Aligned
<1>2. Dropped(w, a, n)
  BY DEF Aligned
<1>3. \A k \in S : k \in 1 .. q /\ ~ (k <= q - p)
  <2> SUFFICES ASSUME NEW k \in 1 .. q, a[k] + (Window - MaxLag) >= n PROVE ~ (k <= q - p)
    BY DEF Since
  <2>1. k <= q - p => a[k] + Window - MaxLag < n
    BY <1>2 DEF Dropped
  <2> QED BY <1>1, <2>1, Numbers
<1> HIDE DEF S
<1>4. CASE q >= p
  <2> DEFINE g == q - p + 1
  <2>1. S \in SUBSET (g .. q) /\ g \in Int /\ q \in Int
    BY <1>1, <1>3
  <2>2. IF g > q THEN p = 0 ELSE q - g + 1 = p
    BY <1>1, <1>4
  <2> HIDE DEF g, p, q
  <2>3. Cardinality(S) \in Nat /\ Cardinality(S) <= IF g > q THEN 0 ELSE q - g + 1
    BY <2>1, IndicesWithin
  <2> QED BY <2>2, <2>3 DEF S, p
<1>5. CASE ~ (q >= p)
  <2>1. S \in SUBSET (1 .. q)
    BY <1>3
  <2>2. 1 \in Int /\ q \in Int
    BY <1>1
  <2> HIDE DEF q
  <2>3. Cardinality(S) \in Nat /\ Cardinality(S) <= IF 1 > q THEN 0 ELSE q - 1 + 1
    BY <2>1, <2>2, IndicesWithin, Zenon
  <2> QED BY <1>1, <1>5, <2>3 DEF S, q
<1> QED BY <1>4, <1>5

\* A stretch longer than a window by the lag has all the calls that a deque
\* keeps when it has just been trimmed.
LEMMA AtLeast ==
  ASSUME NEW n \in Nat, NEW w, NEW a, Aligned(w, a, n),
         NEW at \in Nat, at <= n, n <= at + MaxLag
  PROVE  Cardinality(Since(a, Window + MaxLag, n)) >= Len(Suffix(w, Cardinality(Kept(w, at))))
<1> DEFINE m == Cardinality(Kept(w, at))
           p == Len(w)
           q == Len(a)
           f == p - m + 1
           S == Since(a, Window + MaxLag, n)
<1>1. /\ w \in Seq(Nat) /\ p \in Nat /\ \A k \in 1 .. p : w[k] \in Nat
      /\ q \in Nat /\ \A k \in 1 .. q : a[k] \in Nat
  BY PastTyped DEF Aligned
<1>2. m \in 0 .. p /\ \A k \in 1 .. p : k \in Kept(w, at) <=> k > p - m
  BY <1>1, KeptUpper
<1>3. Len(Suffix(w, m)) = m
  BY <1>1, <1>2, SuffixProperties
<1>4. S \in SUBSET (1 .. q) /\ IsFiniteSet(1 .. q)
  BY <1>1, FS_Interval DEF Since
<1>5. IsFiniteSet(S) /\ Cardinality(S) \in Nat
  BY <1>4, FS_Subset, FS_CardinalityType
<1>6. CASE m = 0
  BY <1>3, <1>5, <1>6
<1>7. CASE m # 0
  <2>1. f \in 1 .. p /\ f > p - m /\ m \in Nat /\ m <= p
    BY <1>1, <1>2, <1>7
  <2>2. f \in Kept(w, at)
    BY <1>2, <2>1
  <2>3. PICK j \in 1 .. f : Counts(w[j], at)
    BY <2>2 DEF Kept
  <2>4. j \in 1 .. p /\ j \in Kept(w, at)
    <3>1. j \in 1 .. p /\ j \in 1 .. j
      BY <1>1, <2>1
    <3> QED BY <2>3, <3>1 DEF Kept
  <2>5. j > p - m
    BY <1>2, <2>4
  <2>6. j = f
    BY <1>1, <2>1, <2>3, <2>5
  <2>7. w[f] \in Nat /\ w[f] + Window + MaxLag >= n
    <3>1. w[f] \in Nat /\ w[f] >= at - Window
      BY <1>1, <2>1, <2>3, <2>6 DEF Counts
    <3> QED BY <3>1, Numbers
  <2>8. ~ (f <= p - q)
    <3>1. f <= p - q => w[f] + Window + MaxLag < n
      BY <2>1 DEF Aligned, Forgotten
    <3> QED BY <2>7, <3>1, Numbers
  <2> DEFINE g == q - m + 1
  <2>9. g \in 1 .. q /\ f - p = g - q
    <3>1. p \in Nat /\ q \in Nat /\ m \in Nat /\ f = p - m + 1 /\ m # 0 /\ f > p - q
      BY <1>1, <1>7, <2>1, <2>8
    <3> HIDE DEF p, q, m, f
    <3> QED BY <3>1
  <2>10. w[f] <= a[g]
    BY <2>1, <2>9 DEF Aligned, Matched
  <2>11. \A k \in g .. q : k \in S
    <3> SUFFICES ASSUME NEW k \in g .. q PROVE k \in S
      OBVIOUS
    <3>1. k \in 1 .. q /\ g <= k
      BY <1>1, <2>9
    <3>2. a[g] <= a[k] /\ a[g] \in Nat /\ a[k] \in Nat
      BY <1>1, <2>9, <3>1 DEF Aligned, Sorted
    <3>3. a[k] + (Window + MaxLag) >= n
      BY <1>1, <2>7, <2>10, <3>2, LaterReaches
    <3> QED BY <3>1, <3>3 DEF Since
  <2>12. IsFiniteSet(g .. q) /\ Cardinality(g .. q) = m
    <3>1. g \in Int /\ q \in Int /\ ~ (g > q) /\ q - g + 1 = m
      <4>1. p \in Nat /\ q \in Nat /\ m \in Nat
        BY <1>1, <2>1
      <4> HIDE DEF p, q, m
      <4> QED BY <2>9, <4>1
    <3> HIDE DEF g, m
    <3> QED BY <3>1, FS_Interval
  <2>13. m <= Cardinality(S)
    BY <1>5, <2>11, <2>12, FS_Subset
  <2> QED BY <1>3, <2>13, <1>5, <2>1
<1> QED BY <1>6, <1>7
-----------------------------------------------------------------------------
(* The inductive invariant. *)

\* Who has a limiter.
Enrolled == {"global"} \cup DOMAIN allowlist

\* The allowlist is one that a valid file makes.
Listed ==
  /\ DOMAIN allowlist \subseteq Logs
  /\ \A l \in DOMAIN allowlist : allowlist[l].rate_limit \in Nat \ {0} /\ allowlist[l].pubkey \in Keys

Typed ==
  /\ now \in 0 .. MaxTime /\ deploys \in 0 .. MaxDeploys
  /\ DOMAIN windows = Callers /\ DOMAIN allowed = Callers
  /\ DOMAIN tip = Logs
  /\ \A l \in Logs : tip[l] # None => tip[l].size > 0 /\ tip[l].signer \in Keys
  /\ refused \in Callers \cup {None}

\* Deques and histories agree, and no deque is over its limit.
Windowed ==
  \A c \in Callers :
    /\ Aligned(windows[c], allowed[c], now)
    /\ c \in Enrolled => Len(windows[c]) <= Limit(c)
    /\ c \notin Enrolled => windows[c] = <<>> /\ allowed[c] = <<>>

\* Who was refused has used its budget.
Spent == refused # None => refused \in Enrolled /\ Calls(refused, Window + MaxLag) >= Limit(refused)

IInv == Typed /\ Listed /\ Windowed /\ Spent

\* A limiter that has just been made.
LEMMA EmptyAligned ==
  ASSUME NEW n PROVE Aligned(<<>>, <<>>, n)
<1>1. <<>> \in Seq(Nat) /\ Len(<<>>) = 0
  OBVIOUS
<1>2. \A k \in 1 .. Len(<<>>) : FALSE
  BY <1>1
<1> QED BY <1>1, <1>2 DEF Aligned, Past, Sorted, Matched, Forgotten, Dropped

\* Every entry of a valid file, and only such, is in the allowlist.
LEMMA AllowlistListed ==
  ASSUME NEW items, ValidConfig(items)
  PROVE  /\ DOMAIN Allowlist(items) \subseteq Logs
         /\ \A l \in DOMAIN Allowlist(items) :
              /\ Allowlist(items)[l].rate_limit \in Nat \ {0}
              /\ Allowlist(items)[l].pubkey \in Keys
<1>1. \A k \in 1 .. Len(items) :
        /\ items[k].log_id \in Logs /\ items[k].pubkey \in Keys
        /\ items[k].rate_limit \in Nat \ {0}
  BY DEF ValidConfig, ValidItem
<1> DEFINE ids == {items[k].log_id : k \in 1 .. Len(items)}
           at(l) == CHOOSE k \in 1 .. Len(items) : items[k].log_id = l
<1>2. \A l \in ids : at(l) \in 1 .. Len(items)
  OBVIOUS
<1>3. DOMAIN Allowlist(items) = ids /\ \A l \in ids : Allowlist(items)[l] = items[at(l)]
  BY DEF Allowlist
<1> HIDE DEF at
<1>4. ids \subseteq Logs
  BY <1>1
<1> QED BY <1>1, <1>2, <1>3, <1>4

\* Who has a limiter has a limit of at least one call.
LEMMA LimitTyped ==
  ASSUME Listed, NEW c \in Enrolled PROVE Limit(c) \in Nat \ {0} /\ c \in Callers
  BY Numbers DEF Listed, Enrolled, Limit, Callers

\* The first process starts with empty windows and a valid file.
LEMMA InitInv == Init => IInv
<1> SUFFICES ASSUME Init PROVE IInv
  OBVIOUS
<1>1. Listed
  BY AllowlistListed DEF Init, Listed
<1>2. Typed
  BY Numbers DEF Init, Typed, NoCalls
<1>3. Windowed
  <2> SUFFICES ASSUME NEW c \in Callers
               PROVE  /\ Aligned(windows[c], allowed[c], now)
                      /\ c \in Enrolled => Len(windows[c]) <= Limit(c)
                      /\ c \notin Enrolled => windows[c] = <<>> /\ allowed[c] = <<>>
    BY DEF Windowed
  <2>1. windows[c] = <<>> /\ allowed[c] = <<>>
    BY DEF Init, NoCalls
  <2>2. c \in Enrolled => Len(windows[c]) <= Limit(c)
    BY <1>1, <2>1, LimitTyped
  <2> QED BY <2>1, <2>2, EmptyAligned
<1>4. Spent
  BY DEF Init, Spent
<1> QED BY <1>1, <1>2, <1>3, <1>4 DEF IInv
-----------------------------------------------------------------------------
(* The steps. *)

\* Calls counts what Since lists.
LEMMA CallsSince ==
  ASSUME NEW c, NEW span, NEW n, Aligned(windows[c], allowed[c], n)
  PROVE  Calls(c, span) = Cardinality(Since(allowed[c], span, now))
<1>1. DOMAIN allowed[c] = 1 .. Len(allowed[c])
  BY PastTyped, LenProperties DEF Aligned
<1> QED BY <1>1 DEF Calls, Since

\* Trimmed is the suffix that Kept counts.
LEMMA TrimmedKept ==
  ASSUME NEW c, NEW at
  PROVE  Trimmed(c, at) = Suffix(windows[c], Cardinality(Kept(windows[c], at)))
  BY DEF Trimmed, Kept

\* What a clock may show.
LEMMA ClockRead ==
  ASSUME NEW at \in Clock PROVE at \in Nat /\ at <= now /\ now <= at + MaxLag
  BY DEF Clock

\* A call of the limiters asked, whatever becomes of the request.
LEMMA ChargeInv ==
  ASSUME IInv, NEW callers \in SUBSET Enrolled, NEW at \in Clock, Charge(callers, at),
         UNCHANGED <<now, allowlist>>
  PROVE  /\ Windowed' /\ Spent' /\ refused' \in Callers \cup {None}
         /\ DOMAIN windows' = Callers /\ DOMAIN allowed' = Callers
<1>1. now \in Nat /\ at \in Nat /\ at <= now /\ now <= at + MaxLag
  BY ClockRead, Numbers DEF IInv, Typed
<1>2. Listed /\ Windowed /\ Enrolled' = Enrolled /\ \A c : Limit(c)' = Limit(c)
  BY DEF IInv, Enrolled, Limit
<1>3. \A c \in Enrolled : c \in Callers /\ Limit(c) \in Nat \ {0}
  BY <1>2, LimitTyped
<1>4. \A c \in Callers :
        /\ windows'[c] = IF c \notin callers THEN windows[c]
                         ELSE IF IsAllowed(c, at) THEN Append(Trimmed(c, at), at)
                         ELSE Trimmed(c, at)
        /\ allowed'[c] = IF c \in callers /\ IsAllowed(c, at)
                         THEN Append(allowed[c], now) ELSE allowed[c]
  BY DEF Charge
<1>5. DOMAIN windows' = Callers /\ DOMAIN allowed' = Callers
  BY DEF Charge
<1>6. \A c \in callers : c \in Callers /\ Aligned(Trimmed(c, at), allowed[c], now)
  BY <1>1, <1>2, <1>3, TrimAligned, TrimmedKept DEF Windowed
<1>7. \A c \in Callers : Aligned(windows'[c], allowed'[c], now)
  <2> SUFFICES ASSUME NEW c \in Callers PROVE Aligned(windows'[c], allowed'[c], now)
    OBVIOUS
  <2>1. CASE c \notin callers
    BY <1>2, <1>4, <2>1 DEF Windowed
  <2>2. CASE c \in callers /\ IsAllowed(c, at)
    BY <1>1, <1>4, <1>6, <2>2, AppendAligned
  <2>3. CASE c \in callers /\ ~ IsAllowed(c, at)
    BY <1>4, <1>6, <2>3
  <2> QED BY <2>1, <2>2, <2>3
<1>8. \A c \in callers : /\ Trimmed(c, at) \in Seq(Nat) /\ Len(Trimmed(c, at)) \in Nat
                         /\ Len(Trimmed(c, at)) <= Len(windows[c]) /\ Len(windows[c]) <= Limit(c)
  <2> SUFFICES ASSUME NEW c \in callers
               PROVE  /\ Trimmed(c, at) \in Seq(Nat) /\ Len(Trimmed(c, at)) \in Nat
                      /\ Len(Trimmed(c, at)) <= Len(windows[c]) /\ Len(windows[c]) <= Limit(c)
    OBVIOUS
  <2>1. windows[c] \in Seq(Nat) /\ Len(windows[c]) \in Nat /\ Len(windows[c]) <= Limit(c)
    BY <1>2, <1>3, PastTyped DEF Windowed, Aligned
  <2>2. Cardinality(Kept(windows[c], at)) \in 0 .. Len(windows[c])
    BY <1>1, <2>1, KeptUpper
  <2> QED BY <2>1, <2>2, SuffixProperties, TrimmedKept
<1>9. Windowed'
  <2> SUFFICES ASSUME NEW c \in Callers
               PROVE  /\ c \in Enrolled => Len(windows'[c]) <= Limit(c)
                      /\ c \notin Enrolled => windows'[c] = <<>> /\ allowed'[c] = <<>>
    BY <1>2, <1>7 DEF Windowed
  <2>1. CASE c \notin callers
    BY <1>2, <1>4, <2>1 DEF Windowed
  <2>2. CASE c \in callers /\ IsAllowed(c, at)
    <3>1. windows'[c] = Append(Trimmed(c, at), at) /\ Trimmed(c, at) \in Seq(Nat)
      BY <1>4, <1>8, <2>2
    <3>2. Len(windows'[c]) = Len(Trimmed(c, at)) + 1
      BY <1>1, <3>1, AppendProperties
    <3>3. Len(Trimmed(c, at)) < Limit(c) /\ Len(Trimmed(c, at)) \in Nat /\ Limit(c) \in Nat
      BY <1>3, <1>8, <2>2 DEF IsAllowed
    <3> QED BY <2>2, <3>2, <3>3
  <2>3. CASE c \in callers /\ ~ IsAllowed(c, at)
    BY <1>3, <1>4, <1>8, <2>3
  <2> QED BY <2>1, <2>2, <2>3
<1>10. CASE \A c \in callers : IsAllowed(c, at)
  <2>1. refused' = None
    BY <1>10 DEF Charge
  <2> QED BY <1>5, <1>9, <2>1 DEF Spent
<1>11. CASE \E c \in callers : ~ IsAllowed(c, at)
  <2>1. PICK c \in callers : c = refused' /\ ~ IsAllowed(c, at)
    BY <1>11 DEF Charge
  <2>2. c \in Callers /\ c \in Enrolled /\ allowed'[c] = allowed[c]
    BY <1>3, <1>4, <2>1
  <2>3. Cardinality(Since(allowed[c], Window + MaxLag, now)) >= Len(Trimmed(c, at))
    BY <1>1, <1>2, <2>2, AtLeast, TrimmedKept DEF Windowed
  <2>4. Calls(c, Window + MaxLag)' = Cardinality(Since(allowed[c], Window + MaxLag, now))
    <3>1. Aligned(windows[c], allowed[c], now) /\ DOMAIN allowed[c] = 1 .. Len(allowed[c])
      BY <1>2, <2>2, PastTyped, LenProperties DEF Windowed, Aligned
    <3> QED BY <2>2, <3>1 DEF Calls, Since
  <2>5. Cardinality(Since(allowed[c], Window + MaxLag, now)) \in Nat
    BY <1>2, <2>2, SinceNumber, PastTyped DEF Windowed, Aligned
  <2>6. ~ (Len(Trimmed(c, at)) < Limit(c)) /\ Limit(c) \in Nat /\ Len(Trimmed(c, at)) \in Nat
    BY <1>3, <1>8, <2>1, <2>2 DEF IsAllowed
  <2>7. Calls(c, Window + MaxLag)' >= Limit(c)
    BY <2>3, <2>4, <2>5, <2>6
  <2>8. Spent'
    BY <1>2, <2>1, <2>2, <2>7 DEF Spent, Calls
  <2> QED BY <1>5, <1>9, <2>1, <2>2, <2>8
<1> QED BY <1>10, <1>11

\* Time passes: nothing but the history changes.
LEMMA TickInv == ASSUME IInv, Tick PROVE IInv'
<1>1. /\ now \in Nat /\ now + 1 \in 0 .. MaxTime /\ now' = now + 1 /\ refused' = None
      /\ UNCHANGED <<allowlist, windows, registered, tip, deploys>>
  BY Numbers DEF Tick, IInv, Typed
<1>2. Listed' /\ Enrolled' = Enrolled /\ \A c : Limit(c)' = Limit(c)
  BY <1>1 DEF IInv, Listed, Enrolled, Limit
<1>3. DOMAIN allowed' = Callers /\ \A c \in Callers :
        allowed'[c] = Suffix(allowed[c], Cardinality(
                        {k \in 1 .. Len(allowed[c]) : allowed[c][k] + Window + MaxLag > now}))
  BY DEF Tick, Recent
<1>4. \A c \in Callers : Aligned(windows[c], allowed'[c], now + 1)
  <2> SUFFICES ASSUME NEW c \in Callers PROVE Aligned(windows[c], allowed'[c], now + 1)
    OBVIOUS
  <2> DEFINE recent == {k \in 1 .. Len(allowed[c]) : allowed[c][k] + Window + MaxLag > now}
  <2>1. Aligned(windows[c], allowed[c], now)
    BY DEF IInv, Windowed
  <2>2. Aligned(windows[c], Suffix(allowed[c], Cardinality(recent)), now + 1)
    BY <1>1, <2>1, TickAligned
  <2>3. allowed'[c] = Suffix(allowed[c], Cardinality(recent))
    BY <1>3
  <2> QED BY <2>2, <2>3
<1>5. \A c \in Callers : c \notin Enrolled => allowed'[c] = <<>>
  <2> SUFFICES ASSUME NEW c \in Callers, c \notin Enrolled PROVE allowed'[c] = <<>>
    OBVIOUS
  <2> DEFINE recent == {k \in 1 .. Len(allowed[c]) : allowed[c][k] + Window + MaxLag > now}
  <2>1. allowed[c] = <<>>
    BY DEF IInv, Windowed
  <2>2. Len(allowed[c]) = 0 /\ recent = {}
    BY <2>1
  <2>3. Cardinality(recent) = 0
    BY <2>2, FS_EmptySet
  <2>4. allowed'[c] = SubSeq(allowed[c], 1, 0)
    <3>1. allowed'[c] = Suffix(allowed[c], Cardinality(recent))
      BY <1>3
    <3> QED BY <2>2, <2>3, <3>1 DEF Suffix
  <2> QED BY <2>4, SubSeqEmpty
<1>6. Windowed'
  BY <1>1, <1>2, <1>4, <1>5 DEF IInv, Windowed
<1>7. Typed'
  BY <1>1, <1>3 DEF IInv, Typed
<1>8. Spent'
  BY <1>1 DEF Spent
<1> QED BY <1>2, <1>6, <1>7, <1>8 DEF IInv

\* An empty deque is within every limit.
Roomy == \A c \in Callers : c \in Enrolled => Len(<<>>) <= Limit(c)

\* And so it is under every allowlist of a valid file.
LEMMA EmptyWithin == Listed => Roomy
  BY LimitTyped DEF Roomy

\* A new process begins with empty windows and its own allowlist.
LEMMA DeployInv == ASSUME IInv, NEW items, Deploy(items) PROVE IInv'
<1>1. /\ deploys' = deploys + 1 /\ deploys' \in 0 .. MaxDeploys
      /\ allowlist' = Allowlist(items) /\ ValidConfig(items)
      /\ windows' = NoCalls /\ allowed' = NoCalls /\ refused' = None
      /\ UNCHANGED <<now, registered, tip>>
  BY Numbers DEF Deploy, IInv, Typed
<1>2. Listed'
  BY <1>1, AllowlistListed DEF Listed
<1>3. \A c \in Callers : windows'[c] = <<>> /\ allowed'[c] = <<>>
  BY <1>1 DEF NoCalls
<1>4. Listed' => Roomy'
  BY EmptyWithin, PTL
<1>5. Windowed'
  BY <1>1, <1>2, <1>3, <1>4, EmptyAligned DEF Windowed, Roomy
<1>6. Typed'
  BY <1>1 DEF IInv, Typed, NoCalls
<1>7. Spent'
  BY <1>1 DEF Spent
<1> QED BY <1>2, <1>5, <1>6, <1>7 DEF IInv

\* A submission that parses: who signed it and what it moves.
LEMMA ParsedSubmission ==
  ASSUME Listed, NEW e, Parse(e).status = 200
  PROVE  /\ Parse(e).log_id = e.log_id /\ Parse(e).size > 0 /\ e.signer \in Keys
         /\ e.log_id \in DOMAIN allowlist => e.signer = allowlist[e.log_id].pubkey
         /\ Parse(e).grade # None => e.log_id \in DOMAIN allowlist
<1>1. ASSUME ParseJson(allowlist, e).status = 200
      PROVE  /\ ParseJson(allowlist, e).log_id = e.log_id /\ ParseJson(allowlist, e).size > 0
             /\ e.log_id \in DOMAIN allowlist /\ e.signer = allowlist[e.log_id].pubkey
  <2> DEFINE bad == e.form # "json" \/ JsonEntries(allowlist, e) = {} \/ ~ JsonClaimsValid(e)
             entry == allowlist[e.log_id]
  <2>1. ParseJson(allowlist, e) =
          IF bad THEN NotACheckpoint
          ELSE IF e.signer # entry.pubkey THEN BadSignature
          ELSE Parsed(e, e.kid, GradeOf(entry), FALSE)
    BY DEF ParseJson
  <2>2. NotACheckpoint.status # 200 /\ BadSignature.status # 200
    BY DEF NotACheckpoint, BadSignature
  <2> HIDE DEF bad, entry
  <2>3. ~ bad
    BY <1>1, <2>1, <2>2
  <2>4. e.log_id \in DOMAIN allowlist
    BY <2>3 DEF JsonEntries, bad
  <2>5. e.signer = entry.pubkey
    BY <1>1, <2>1, <2>2, <2>3
  <2>6. ParseJson(allowlist, e) = Parsed(e, e.kid, GradeOf(entry), FALSE)
    BY <2>1, <2>3, <2>5
  <2>7. e.claims.size > 0
    BY <2>3 DEF JsonClaimsValid, ValidClaims, bad
  <2> QED BY <2>4, <2>5, <2>6, <2>7 DEF Parsed, entry
<1>2. ASSUME ParseCose(allowlist, e).status = 200
      PROVE  /\ ParseCose(allowlist, e).log_id = e.log_id /\ ParseCose(allowlist, e).size > 0
             /\ e.kid \in Keys /\ e.signer = VerifyKey(allowlist, e)
             /\ ParseCose(allowlist, e).grade # None => e.log_id \in DOMAIN allowlist
  <2>1. CoseHeaderRead(e)
    BY <1>2 DEF ParseCose, NotACheckpoint
  <2>2. e.signer = VerifyKey(allowlist, e)
    BY <1>2, <2>1 DEF ParseCose, BadSignature
  <2>3. e.log_id # None /\ CoseClaimsValid(e.claims)
    BY <1>2, <2>1, <2>2 DEF ParseCose, NotACheckpoint
  <2> DEFINE grade == IF e.log_id \in DOMAIN allowlist THEN GradeOf(allowlist[e.log_id]) ELSE None
  <2>4. ParseCose(allowlist, e) = Parsed(e, VerifyKey(allowlist, e), grade, e.claims.proof # None)
    BY <2>1, <2>2, <2>3 DEF ParseCose
  <2>5. e.claims.size > 0 /\ e.kid \in Keys
    BY <2>1, <2>3 DEF CoseHeaderRead, CoseClaimsValid, ValidClaims
  <2> QED BY <2>2, <2>4, <2>5 DEF Parsed
<1>3. CASE e.header = "json"
  BY <1>1, <1>3 DEF Parse, Listed
<1>4. CASE e.header # "json"
  BY <1>2, <1>4 DEF Parse, Listed, VerifyKey
<1> QED BY <1>3, <1>4

\* Witnessing moves the tip of the log that signed, if any.
LEMMA WitnessMoves ==
  ASSUME Typed, Listed, NEW e, Parse(e).status = 200, Witness(e, Parse(e))
  PROVE  /\ DOMAIN tip' = Logs
         /\ \A l \in Logs : tip'[l] # tip[l] =>
              l = e.log_id /\ tip'[l].signer = e.signer /\ tip'[l].size > 0
<1> DEFINE cp == Parse(e)
           row == [size |-> cp.size, root |-> cp.root, signer |-> e.signer]
<1>1. cp.log_id = e.log_id /\ cp.size > 0
  BY ParsedSubmission
<1>2. tip' = tip \/ tip' = [tip EXCEPT ![cp.log_id] = row]
  BY DEF Witness
<1>3. row.signer = e.signer /\ row.size = cp.size
  OBVIOUS
<1> HIDE DEF row, cp
<1> QED BY <1>1, <1>2, <1>3 DEF Typed, cp

\* A checkpoint that is witnessed or refused costs a call of each window asked.
LEMMA CheckpointsInv ==
  ASSUME IInv, NEW e, NEW at \in Clock, Checkpoints(e, at) PROVE IInv'
<1> DEFINE cp == Parse(e)
           callers == {"global"} \cup IF cp.grade = None THEN {} ELSE {cp.log_id}
<1>1. /\ cp.status = 200 /\ Charge(callers, at) /\ Witness(e, cp)
      /\ UNCHANGED <<now, allowlist, deploys>>
  BY DEF Checkpoints
<1>2. /\ cp.log_id = e.log_id /\ e.signer \in Keys
      /\ cp.grade # None => e.log_id \in DOMAIN allowlist
  BY <1>1, ParsedSubmission DEF IInv
<1>3. callers \in SUBSET Enrolled
  BY <1>2 DEF Enrolled
<1> HIDE DEF callers
<1>4. /\ Windowed' /\ Spent' /\ refused' \in Callers \cup {None}
      /\ DOMAIN windows' = Callers /\ DOMAIN allowed' = Callers
  BY <1>1, <1>3, ChargeInv
<1>5. /\ DOMAIN tip' = Logs
      /\ \A l \in Logs : tip'[l] # tip[l] => tip'[l].signer = e.signer /\ tip'[l].size > 0
  BY <1>1, WitnessMoves DEF IInv
<1>6. Typed'
  BY <1>1, <1>2, <1>4, <1>5 DEF IInv, Typed
<1>7. Listed'
  BY <1>1 DEF IInv, Listed
<1> QED BY <1>4, <1>6, <1>7 DEF IInv

\* A request that ends at a window or at a parser, and one that registers.
LEMMA ChargedInv ==
  ASSUME IInv, NEW callers \in SUBSET Enrolled, NEW at \in Clock, Charge(callers, at),
         UNCHANGED <<now, allowlist, tip, deploys>>
  PROVE  IInv'
<1>1. /\ Windowed' /\ Spent' /\ refused' \in Callers \cup {None}
      /\ DOMAIN windows' = Callers /\ DOMAIN allowed' = Callers
  BY ChargeInv
<1>2. Typed' /\ Listed'
  BY <1>1 DEF IInv, Typed, Listed
<1> QED BY <1>1, <1>2 DEF IInv

\* A submitter over its own limit has used the common window as well.
LEMMA OverrunOwnInv ==
  ASSUME IInv, NEW e, NEW at \in Clock, OverrunOwn(e, at) PROVE IInv'
<1>1. /\ Parse(e).status = 200 /\ Parse(e).grade # None /\ Charge({"global", e.log_id}, at)
      /\ UNCHANGED <<now, allowlist, tip, deploys>>
  BY DEF OverrunOwn
<1>2. {"global", e.log_id} \in SUBSET Enrolled
  BY <1>1, ParsedSubmission DEF IInv, Enrolled
<1> QED BY <1>1, <1>2, ChargedInv

\* Requests that ask the common window only.
LEMMA GlobalInv ==
  ASSUME IInv, NEW e, NEW at \in Clock, Overrun(e, at) \/ Reject(e, at) \/ RegisterDigest(e, at)
  PROVE  IInv'
<1>1. Charge({"global"}, at) /\ UNCHANGED <<now, allowlist, tip, deploys>>
  BY DEF Overrun, Reject, RegisterDigest
<1>2. {"global"} \in SUBSET Enrolled
  BY DEF Enrolled
<1> QED BY <1>1, <1>2, ChargedInv

\* A body that is turned away asks no window.
LEMMA QuietInv ==
  ASSUME IInv, UNCHANGED <<now, allowlist, windows, tip, deploys, allowed>>,
         refused' \in {refused, None}
  PROVE  IInv'
<1>1. Listed' /\ Enrolled' = Enrolled /\ \A c : Limit(c)' = Limit(c)
  BY DEF IInv, Listed, Enrolled, Limit
<1>2. Typed' /\ Windowed'
  BY <1>1 DEF IInv, Typed, Windowed
<1>3. Spent'
  BY <1>1 DEF IInv, Spent, Calls
<1> QED BY <1>1, <1>2, <1>3 DEF IInv

\* No step leaves the invariant.
LEMMA StepInv == IInv /\ [Next]_vars => IInv'
<1> SUFFICES ASSUME IInv, [Next]_vars PROVE IInv'
  OBVIOUS
<1>1. CASE UNCHANGED vars
  BY <1>1, QuietInv DEF vars
<1>2. ASSUME NEW e \in Submissions, TurnAway(e) PROVE IInv'
  BY <1>2, QuietInv DEF TurnAway
<1>3. CASE Tick
  BY <1>3, TickInv
<1>4. ASSUME NEW items \in Configs, Deploy(items) PROVE IInv'
  BY <1>4, DeployInv
<1>5. ASSUME NEW e, NEW at \in Clock, Overrun(e, at) \/ Reject(e, at) \/ RegisterDigest(e, at)
      PROVE  IInv'
  BY <1>5, GlobalInv
<1>6. ASSUME NEW e, NEW at \in Clock, OverrunOwn(e, at) PROVE IInv'
  BY <1>6, OverrunOwnInv
<1>7. ASSUME NEW e, NEW at \in Clock, Checkpoints(e, at) PROVE IInv'
  BY <1>7, CheckpointsInv
<1> QED BY <1>1, <1>2, <1>3, <1>4, <1>5, <1>6, <1>7 DEF Next
-----------------------------------------------------------------------------
(* The theorems. *)

\* The inductive invariant holds in every reachable state.
THEOREM Invariance == Spec => []IInv
  BY InitInv, StepInv, PTL DEF Spec

\* A deque never holds more calls than its limit, and none of the future
\* (router.py:144-156, 239).
THEOREM TypeCorrect == Spec => []TypeOK
<1>1. IInv => TypeOK
  <2> SUFFICES ASSUME IInv PROVE TypeOK
    OBVIOUS
  <2>1. \A c \in Callers :
          /\ windows[c] # <<>> => c \in Enrolled /\ Len(windows[c]) <= Limit(c)
          /\ \A k \in 1 .. Len(windows[c]) : windows[c][k] \in Nat /\ windows[c][k] <= now
    BY PastTyped DEF IInv, Windowed, Aligned
  <2>2. now \in Nat
    BY Numbers DEF IInv, Typed
  <2>3. \A c \in Callers : \A k \in 1 .. Len(windows[c]) : windows[c][k] \in 0 .. now
    BY <2>1, <2>2
  <2> QED BY <2>1, <2>3 DEF IInv, Typed, Listed, Enrolled, TypeOK
<1> QED BY <1>1, Invariance, PTL

\* A limiter is exact up to the wait between its clock and its lock, in both
\* directions, for every limit, window and lag (router.py:147-156).
THEOREM BudgetIsKept == Spec => []BudgetKept
<1>1. IInv => BudgetKept
  <2> SUFFICES ASSUME IInv PROVE BudgetKept
    OBVIOUS
  <2>1. ASSUME NEW c \in Callers, allowed[c] # <<>> PROVE Calls(c, Window - MaxLag) <= Limit(c)
    <3>1. c \in Enrolled /\ Aligned(windows[c], allowed[c], now) /\ Len(windows[c]) <= Limit(c)
      BY <2>1 DEF IInv, Windowed
    <3>2. now \in Nat /\ Limit(c) \in Nat /\ Len(windows[c]) \in Nat
      BY <3>1, Numbers, LimitTyped, PastTyped DEF IInv, Typed, Aligned
    <3> DEFINE S == Since(allowed[c], Window - MaxLag, now)
    <3>3. Calls(c, Window - MaxLag) = Cardinality(S) /\ Cardinality(S) <= Len(windows[c])
      BY <3>1, <3>2, AtMost, CallsSince
    <3>4. Cardinality(S) \in Nat
      BY <3>1, SinceNumber, PastTyped DEF Aligned
    <3> HIDE DEF S
    <3> QED BY <3>1, <3>2, <3>3, <3>4
  <2> QED BY <2>1 DEF IInv, Spent, BudgetKept
<1> QED BY <1>1, Invariance, PTL

\* While a log is enrolled nobody but the holder of its pinned key moves its
\* tip (checkpoint_cose.py:255, checkpoint_json.py:189).
THEOREM IdentityIsEnrolled == Spec => EnrolledIdentity
<1> DEFINE Moves == \A l \in DOMAIN allowlist :
                      tip'[l] # tip[l] => tip'[l].signer = allowlist[l].pubkey
<1>1. IInv /\ [Next]_vars => [Moves]_vars
  <2> SUFFICES ASSUME IInv, Next PROVE Moves
    OBVIOUS
  <2>1. ASSUME NEW e, NEW at \in Clock, Checkpoints(e, at) PROVE Moves
    <3>1. Parse(e).status = 200 /\ Witness(e, Parse(e))
      BY <2>1 DEF Checkpoints
    <3> QED BY <3>1, WitnessMoves, ParsedSubmission DEF IInv, Listed
  <2>2. UNCHANGED tip => Moves
    OBVIOUS
  <2> HIDE DEF Moves
  <2> QED BY <2>1, <2>2
    DEF Next, Tick, Deploy, TurnAway, Overrun, Reject, OverrunOwn, RegisterDigest
<1> QED BY <1>1, Invariance, PTL DEF Spec, EnrolledIdentity
-----------------------------------------------------------------------------
(* The watcher. *)

\* The watcher changes nothing of the service.
THEOREM WatcherObserves == WatcherSpec => Spec
<1>1. WatcherInit => Init
  BY DEF WatcherInit
<1>2. [WatcherNext]_watcherVars => [Next]_vars
  BY DEF WatcherNext, Watch, watcherVars
<1> QED BY <1>1, <1>2, PTL DEF WatcherSpec, Spec

\* The state file moves along one chain of registered checkpoints of a log
\* (watcher.py:85-104).
THEOREM ChainIsWatched == WatcherSpec => WatchedChain
<1> DEFINE Chained ==
      saved' # saved =>
        /\ Digest(saved') \in registered'
        /\ saved # None /\ saved.log_id = saved'.log_id =>
             /\ saved'.prev_size = saved.size /\ saved'.prev_root = saved.root
             /\ saved'.size > saved.size
<1>1. [WatcherNext]_watcherVars => [Chained]_watcherVars
  <2> SUFFICES ASSUME WatcherNext, saved' # saved PROVE Chained
    OBVIOUS
  <2>1. PICK e \in Submissions, expected \in Expected,
             grade \in {None, "countersigned-observed"} : Watch(e, expected, grade)
    BY DEF WatcherNext
  <2> DEFINE claims == DeclaredParse(e, expected)
  <2>2. /\ saved' = claims /\ registered' = registered
        /\ ~ HasFailure(TieBack(claims)) /\ ~ HasFailure(ChainContinuity(claims))
    BY <2>1 DEF Watch, HasFailure, vars
  <2> HIDE DEF claims
  <2>3. Digest(claims) \in registered
    BY <2>2 DEF HasFailure, TieBack, Fail, Check
  <2>4. saved # None /\ saved.log_id = claims.log_id => Extends(saved, claims)
    BY <2>2 DEF HasFailure, ChainContinuity, Fail, Check
  <2> QED BY <2>2, <2>3, <2>4 DEF Extends
<1> QED BY <1>1, PTL DEF WatcherSpec, WatchedChain
=============================================================================
