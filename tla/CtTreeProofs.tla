---------------------------- MODULE CtTreeProofs ----------------------------
(***************************************************************************)
(* Theorems about the RFC 6962 tree of CtTree, for logs of every length    *)
(* and over any leaves: the verifiers of ct.py accept the proofs ct.py     *)
(* builds, and no other proofs.                                            *)
(*                                                                         *)
(* The builders recurse over slices of the log from the root down; the     *)
(* verifiers halve a place in a layer from the leaf up.  What joins them   *)
(* is Block: slice r is node x of the layer whose nodes have K leaves.     *)
(* Each step down the recursion is a round of the walk (AboveLeft,         *)
(* AboveRight), so that the walk of an honest path passes the slices on    *)
(* its way and ends at the root (Led, Leads).  No other path ends there:   *)
(* the places a walk passes do not depend on the hashes, so two paths      *)
(* that arrive have one length, and hashes are free, so that a root gives  *)
(* away each of them, the last one first (OnePath).                        *)
(*                                                                         *)
(* Induction is over sets of numbers (CompleteInduction): each lemma on a  *)
(* recursion names the set of the lengths for which it holds.              *)
(***************************************************************************)
EXTENDS CtTree, WellFoundedInduction, SequenceTheorems, TLAPS

\* A non-empty set of natural numbers has a least element.
LEMMA LeastNatural ==
  ASSUME NEW S \in SUBSET Nat, S # {}
  PROVE  \E m \in S : \A n \in S : m <= n
<1>1. IsWellFoundedOn(OpToRel(<, Nat), Nat)
  BY NatLessThanWellFounded, Zenon
<1>2. PICK m \in S : \A n \in S : <<n, m>> \notin OpToRel(<, Nat)
  BY <1>1, WFMin, Zenon
<1>3. \A n \in S : ~ (n < m)
  BY <1>2, Zenon DEF OpToRel
<1> QED BY <1>3

\* Complete induction, for a set of natural numbers.
LEMMA CompleteInduction ==
  ASSUME NEW S \in SUBSET Nat,
         \A n \in Nat : (\A m \in Nat : m < n => m \in S) => n \in S
  PROVE  S = Nat
<1> SUFFICES ASSUME Nat \ S # {} PROVE FALSE
  OBVIOUS
<1>1. PICK n \in Nat \ S : \A m \in Nat \ S : n <= m
  BY LeastNatural
<1>2. \A m \in Nat : m < n => m \in S
  BY <1>1
<1> QED BY <1>1, <1>2
-----------------------------------------------------------------------------
(* Powers of two. *)

\* The least set that holds 1 and, with a number, its double.
Powers ==
  {k \in Nat : \A S \in SUBSET Nat : 1 \in S /\ (\A x \in S : 2 * x \in S) => k \in S}

\* Powers is such a set,
LEMMA PowerOne == 1 \in Powers
BY DEF Powers

\* and its members are numbers.
LEMMA PowerDouble == ASSUME NEW k \in Powers PROVE k \in Nat /\ 2 * k \in Powers
BY DEF Powers

\* A property of 1 that doubling keeps is one of every power of two.
LEMMA PowerInduction ==
  ASSUME NEW S \in SUBSET Nat, 1 \in S, \A x \in S : 2 * x \in S
  PROVE  Powers \subseteq S
BY DEF Powers

\* No power of two is less than one.
LEMMA PowerPositive == ASSUME NEW k \in Powers PROVE k \in Nat /\ k >= 1
<1> DEFINE S == {x \in Nat : x >= 1}
<1>1. S \in SUBSET Nat /\ 1 \in S /\ \A x \in S : 2 * x \in S
  OBVIOUS
<1> HIDE DEF S
<1>2. k \in S
  BY <1>1, PowerInduction
<1> QED BY <1>2 DEF S

\* Every power of two but 1 is the double of another.
LEMMA PowerHalf ==
  ASSUME NEW k \in Powers, k # 1
  PROVE  \E h \in Powers : k = 2 * h
<1> DEFINE S == {x \in Powers : x = 1 \/ \E h \in Powers : x = 2 * h}
<1>1. S \in SUBSET Nat /\ 1 \in S
  BY PowerOne DEF Powers
<1>2. \A x \in S : 2 * x \in S
  BY PowerDouble
<1> HIDE DEF S
<1>3. k \in S
  BY <1>1, <1>2, PowerInduction
<1> QED BY <1>3 DEF S

\* Of two powers of two, the smaller divides the larger.
LEMMA PowerDivides ==
  ASSUME NEW l \in Powers
  PROVE  \A k \in Powers : k <= l => \E c \in Powers : l = c * k
<1> DEFINE S == {x \in Powers : \A k \in Powers : k <= x => \E c \in Powers : x = c * k}
<1>1. S \in SUBSET Nat
  BY DEF Powers
<1>2. 1 \in S
  <2>1. \A k \in Powers : k <= 1 => 1 = 1 * k
    BY PowerPositive
  <2> QED BY <2>1, PowerOne
<1>3. ASSUME NEW x \in S PROVE 2 * x \in S
  <2>1. x \in Powers /\ x \in Nat /\ x >= 1 /\ 2 * x \in Powers
    BY PowerDouble, PowerPositive
  <2>2. ASSUME NEW k \in Powers, k <= 2 * x
        PROVE  \E c \in Powers : 2 * x = c * k
    <3>1. CASE k <= x
      <4>1. PICK c \in Powers : x = c * k
        BY <3>1
      <4>2. c \in Nat /\ k \in Nat /\ 2 * c \in Powers
        BY PowerDouble
      <4>3. 2 * x = (2 * c) * k
        BY <4>1, <4>2
      <4> QED BY <4>2, <4>3
    <3>2. CASE ~ (k <= x)
      <4>1. k \in Nat /\ k # 1
        BY <2>1, <3>2, PowerPositive
      <4>2. PICK h \in Powers : k = 2 * h
        BY <4>1, PowerHalf
      <4>3. h \in Nat /\ h >= 1 /\ h <= x /\ 2 * h > x
        BY <2>1, <2>2, <3>2, <4>1, <4>2, PowerPositive
      <4>4. PICK c \in Powers : x = c * h
        BY <4>3
      <4>5. c \in Nat /\ c >= 1
        BY PowerPositive
      <4>6. c = 1
        <5>1. c >= 2 => c * h >= 2 * h
          BY <4>3, <4>5
        <5> QED BY <4>3, <4>4, <4>5, <5>1
      <4>7. 2 * x = 1 * k
        BY <4>2, <4>3, <4>4, <4>6
      <4> QED BY <4>7, PowerOne
    <3> QED BY <3>1, <3>2
  <2> QED BY <2>1, <2>2
<1> HIDE DEF S
<1>4. l \in S
  BY <1>1, <1>2, <1>3, PowerInduction
<1> QED BY <1>4 DEF S

\* A power of two that is less than another is at most its half.
LEMMA PowerGap ==
  ASSUME NEW k \in Powers, NEW l \in Powers, k < l
  PROVE  \E c \in Powers : l = c * (2 * k)
<1>1. k \in Nat /\ l \in Nat /\ k >= 1 /\ 2 * k \in Powers
  BY PowerDouble, PowerPositive
<1>2. PICK c \in Powers : l = c * k
  BY <1>1, PowerDivides
<1>3. c \in Nat /\ c # 1
  BY <1>1, <1>2, PowerPositive
<1>4. PICK d \in Powers : c = 2 * d
  BY <1>3, PowerHalf
<1>5. d \in Nat
  BY PowerPositive
<1>6. l = d * (2 * k)
  BY <1>1, <1>2, <1>4, <1>5
<1> QED BY <1>6

\* Of two powers of two the greater is at least twice the smaller.
LEMMA PowerGapLess ==
  ASSUME NEW k \in Powers, NEW l \in Powers, k < l
  PROVE  2 * k <= l
<1>1. PICK c \in Powers : l = c * (2 * k)
  BY PowerGap
<1>2. k \in Nat /\ c \in Nat /\ c >= 1
  BY PowerPositive
<1>3. \A x, y \in Nat : y >= 1 => x <= y * x
  OBVIOUS
<1> QED BY <1>1, <1>2, <1>3

\* The power of two between half of a number and the number is one.
LEMMA PowerUnique ==
  ASSUME NEW n \in Nat, NEW k \in Powers, NEW l \in Powers,
         k < n, n <= 2 * k, l < n, n <= 2 * l
  PROVE  k = l
<1>1. k \in Nat /\ l \in Nat
  BY PowerPositive
<1>2. ~ (k < l) /\ ~ (l < k)
  BY <1>1, PowerGapLess
<1> QED BY <1>1, <1>2
-----------------------------------------------------------------------------
(* _largest_power_of_two_below. *)

\* The loop's values from k on, for each k it may reach.
LEMMA DoubledDefined ==
  ASSUME NEW n \in Nat
  PROVE  \E f : f = [k \in 1 .. n |-> IF 2 * k < n THEN f[2 * k] ELSE k]
<1> DEFINE From(j) == {k \in 1 .. n : k + j > n}
           S == {j \in Nat : \E f : f = [k \in From(j) |-> IF 2 * k < n THEN f[2 * k] ELSE k]}
<1>1. S \in SUBSET Nat
  OBVIOUS
<1>2. ASSUME NEW j \in Nat, \A m \in Nat : m < j => m \in S
      PROVE  j \in S
  <2>1. CASE j = 0
    <3> DEFINE f == [k \in From(0) |-> k]
    <3>1. From(0) = {}
      OBVIOUS
    <3>2. f = [k \in From(0) |-> IF 2 * k < n THEN f[2 * k] ELSE k]
      BY <3>1
    <3> HIDE DEF f
    <3> QED BY <2>1, <3>2
  <2>2. CASE j # 0
    <3> DEFINE i == j - 1
    <3>1. i \in Nat /\ i \in S
      <4>1. i \in Nat /\ i < j
        BY <2>2
      <4> HIDE DEF S, i
      <4> QED BY <1>2, <4>1
    <3>2. PICK f : f = [k \in From(i) |-> IF 2 * k < n THEN f[2 * k] ELSE k]
      BY <3>1
    <3> DEFINE g == [k \in From(j) |-> IF 2 * k < n THEN f[2 * k] ELSE k]
    <3>3. \A k \in From(j) : 2 * k < n => 2 * k \in From(i)
      BY <2>2
    <3>4. \A k \in From(i) : k \in From(j) /\ f[k] = g[k]
      BY <2>2, <3>2
    <3>5. \A k \in From(j) : 2 * k < n => f[2 * k] = g[2 * k]
      BY <3>3, <3>4
    <3>6. g = [k \in From(j) |-> IF 2 * k < n THEN g[2 * k] ELSE k]
      BY <3>5
    <3> HIDE DEF g
    <3> QED BY <3>6
  <2> QED BY <2>1, <2>2
<1>3. n \in S
  <2> HIDE DEF S
  <2> QED BY <1>1, <1>2, CompleteInduction
<1>4. From(n) = 1 .. n
  OBVIOUS
<1> QED BY <1>3, <1>4

\* It is a power of two, below n, and no less than half of it.
LEMMA LargestPower ==
  ASSUME NEW n \in Nat, n >= 2
  PROVE  LET k == LargestPowerOfTwoBelow(n)
         IN k \in Powers /\ k \in Nat /\ k >= 1 /\ k < n /\ n <= 2 * k
<1> DEFINE f == CHOOSE f : f = [k \in 1 .. n |-> IF 2 * k < n THEN f[2 * k] ELSE k]
<1>1. f = [k \in 1 .. n |-> IF 2 * k < n THEN f[2 * k] ELSE k]
  BY DoubledDefined
<1>2. LargestPowerOfTwoBelow(n) = f[1]
  BY DEF LargestPowerOfTwoBelow
<1> HIDE DEF f
<1> DEFINE Good(k) == f[k] \in Powers /\ f[k] < n /\ n <= 2 * f[k]
           S == {j \in Nat : \A k \in Powers : k < n /\ n <= k + j => Good(k)}
<1>3. S \in SUBSET Nat
  OBVIOUS
<1>4. ASSUME NEW j \in Nat, \A m \in Nat : m < j => m \in S
      PROVE  j \in S
  <2> SUFFICES ASSUME NEW k \in Powers, k < n, n <= k + j PROVE Good(k)
    OBVIOUS
  <2>1. k \in Nat /\ k >= 1 /\ k \in 1 .. n /\ 2 * k \in Powers
    BY PowerPositive, PowerDouble
  <2>2. CASE 2 * k < n
    <3> DEFINE i == j - k
    <3>1. i \in Nat /\ i < j /\ n <= 2 * k + i
      BY <2>1, <2>2
    <3>2. Good(2 * k)
      BY <1>4, <2>1, <2>2, <3>1
    <3> QED BY <1>1, <2>1, <2>2, <3>2
  <2>3. CASE ~ (2 * k < n)
    BY <1>1, <2>1, <2>3
  <2> QED BY <2>2, <2>3
<1>5. n \in S
  <2> HIDE DEF S
  <2> QED BY <1>3, <1>4, CompleteInduction
<1>6. Good(1)
  BY <1>5, PowerOne
<1> QED BY <1>2, <1>6, PowerPositive

\* is_power_of_two tells the powers of two.
LEMMA PowerOfTwo ==
  ASSUME NEW n \in Nat, n >= 1
  PROVE  IsPowerOfTwo(n) <=> n \in Powers
<1>1. CASE n = 1
  BY <1>1, PowerOne DEF IsPowerOfTwo
<1>2. CASE n # 1
  <2> DEFINE k == LargestPowerOfTwoBelow(n)
  <2>1. k \in Powers /\ k \in Nat /\ k >= 1 /\ k < n /\ n <= 2 * k
    BY <1>2, LargestPower
  <2>2. IsPowerOfTwo(n) <=> n = 2 * k
    BY <1>2 DEF IsPowerOfTwo
  <2> HIDE DEF k
  <2>3. n \in Powers => n = 2 * k
    BY <2>1, PowerGapLess
  <2> QED BY <2>1, <2>2, <2>3, PowerDouble
<1> QED BY <1>1, <1>2
-----------------------------------------------------------------------------
(* Slices and the recursions over them. *)

\* A slice of more than one leaf is cut into two that are shorter.
LEMMA Cut ==
  ASSUME NEW n \in Nat, NEW r \in Slices(n), r[2] # r[1] + 1
  PROVE  /\ LargestPowerOfTwoBelow(r[2] - r[1]) \in Powers
         /\ LargestPowerOfTwoBelow(r[2] - r[1]) < r[2] - r[1]
         /\ r[2] - r[1] <= 2 * LargestPowerOfTwoBelow(r[2] - r[1])
         /\ Middle(r) \in Nat /\ Middle(r) = r[1] + LargestPowerOfTwoBelow(r[2] - r[1])
         /\ r[1] < Middle(r) /\ Middle(r) < r[2]
         /\ Left(r) \in Slices(n) /\ Left(r)[1] = r[1] /\ Left(r)[2] = Middle(r)
         /\ Right(r) \in Slices(n) /\ Right(r)[1] = Middle(r) /\ Right(r)[2] = r[2]
<1>1. /\ r[1] \in 0 .. n /\ r[2] \in 0 .. n /\ r[1] < r[2]
  BY DEF Slices
<1>2. r[2] - r[1] \in Nat /\ r[2] - r[1] >= 2
  BY <1>1
<1> DEFINE k == LargestPowerOfTwoBelow(r[2] - r[1])
<1>3. k \in Powers /\ k \in Nat /\ k >= 1 /\ k < r[2] - r[1] /\ r[2] - r[1] <= 2 * k
  BY <1>2, LargestPower
<1>4. Middle(r) = r[1] + k
  BY DEF Middle
<1> HIDE DEF k
<1>5. Middle(r) \in 0 .. n /\ r[1] < Middle(r) /\ Middle(r) < r[2]
  BY <1>1, <1>3, <1>4
<1>6. Left(r) \in Slices(n) /\ Left(r)[1] = r[1] /\ Left(r)[2] = Middle(r)
  BY <1>1, <1>5 DEF Left, Slices
<1>7. Right(r) \in Slices(n) /\ Right(r)[1] = Middle(r) /\ Right(r)[2] = r[2]
  BY <1>1, <1>5 DEF Right, Slices
<1> QED BY <1>3, <1>4, <1>5, <1>6, <1>7 DEF k

\* The slices of at most d leaves.
Short(n, d) == {r \in Slices(n) : r[2] - r[1] <= d}

\* The slices of at most n leaves are all; the halves of a slice of at most d
\* leaves have at most d - 1.
LEMMA ShortSlices ==
  ASSUME NEW n \in Nat
  PROVE  /\ Short(n, 0) = {}
         /\ Short(n, n) = Slices(n)
         /\ \A d \in Nat \ {0} : \A r \in Short(n, d) :
              /\ r \in Slices(n)
              /\ r[2] # r[1] + 1 => Left(r) \in Short(n, d - 1) /\ Right(r) \in Short(n, d - 1)
         /\ \A d \in Nat \ {0} : Short(n, d - 1) \subseteq Short(n, d)
<1>1. \A r \in Slices(n) : r[1] \in 0 .. n /\ r[2] \in 0 .. n /\ r[1] < r[2]
  BY DEF Slices
<1>2. Short(n, 0) = {} /\ Short(n, n) = Slices(n)
  BY <1>1 DEF Short
<1>3. ASSUME NEW d \in Nat \ {0}, NEW r \in Short(n, d), r[2] # r[1] + 1
      PROVE  Left(r) \in Short(n, d - 1) /\ Right(r) \in Short(n, d - 1)
  <2>1. r \in Slices(n) /\ r[2] - r[1] <= d
    BY DEF Short
  <2>2. /\ Middle(r) \in Nat /\ r[1] < Middle(r) /\ Middle(r) < r[2]
        /\ Left(r) \in Slices(n) /\ Left(r)[1] = r[1] /\ Left(r)[2] = Middle(r)
        /\ Right(r) \in Slices(n) /\ Right(r)[1] = Middle(r) /\ Right(r)[2] = r[2]
    BY <1>3, <2>1, Cut
  <2>3. Middle(r) - r[1] <= d - 1 /\ r[2] - Middle(r) <= d - 1
    BY <1>1, <2>1, <2>2
  <2> QED BY <2>2, <2>3 DEF Short
<1>4. \A d \in Nat \ {0} : Short(n, d - 1) \subseteq Short(n, d)
  BY <1>1 DEF Short
<1>5. \A d : \A r \in Short(n, d) : r \in Slices(n)
  BY DEF Short
<1> QED BY <1>2, <1>3, <1>4, <1>5

\* Induction from the halves of a slice to the slice.
LEMMA SliceInduction ==
  ASSUME NEW n \in Nat, NEW T \in SUBSET Slices(n),
         \A r \in Slices(n) : (r[2] # r[1] + 1 => Left(r) \in T /\ Right(r) \in T) => r \in T
  PROVE  T = Slices(n)
<1> DEFINE S == {d \in Nat : Short(n, d) \subseteq T}
<1>1. S \in SUBSET Nat
  OBVIOUS
<1>2. ASSUME NEW d \in Nat, \A m \in Nat : m < d => m \in S
      PROVE  d \in S
  <2>1. CASE d = 0
    BY <2>1, ShortSlices
  <2>2. CASE d # 0
    <3>1. d - 1 \in Nat /\ d - 1 < d
      BY <2>2
    <3>2. Short(n, d - 1) \subseteq T
      BY <1>2, <3>1
    <3>3. \A r \in Short(n, d) : r \in T
      BY <2>2, <3>2, ShortSlices
    <3> QED BY <3>3
  <2> QED BY <2>1, <2>2
<1> HIDE DEF S
<1>3. n \in S
  BY <1>1, <1>2, CompleteInduction
<1>4. Short(n, n) \subseteq T
  BY <1>3 DEF S
<1>5. Short(n, n) = Slices(n)
  BY ShortSlices
<1> QED BY <1>4, <1>5

\* merkle_tree_hash is what its recursion says.
LEMMA HashDefined ==
  ASSUME NEW leaves, Len(leaves) \in Nat
  PROVE  SliceHash(leaves) =
           [r \in Slices(Len(leaves)) |->
              IF r[2] = r[1] + 1 THEN leaves[r[2]]
              ELSE Node(SliceHash(leaves)[Left(r)], SliceHash(leaves)[Right(r)])]
<1> DEFINE n == Len(leaves)
           Is(f, D) == f = [r \in D |-> IF r[2] = r[1] + 1 THEN leaves[r[2]]
                                        ELSE Node(f[Left(r)], f[Right(r)])]
           S == {d \in Nat : \E f : Is(f, Short(n, d))}
<1>1. S \in SUBSET Nat
  OBVIOUS
<1>2. ASSUME NEW d \in Nat, \A m \in Nat : m < d => m \in S
      PROVE  d \in S
  <2>1. CASE d = 0
    <3> DEFINE f == [r \in {} |-> 0]
    <3>1. Is(f, {})
      OBVIOUS
    <3> QED BY <2>1, <3>1, ShortSlices
  <2>2. CASE d # 0
    <3>1. d - 1 \in Nat /\ d - 1 < d /\ d \in Nat \ {0}
      BY <2>2
    <3>2. PICK f : Is(f, Short(n, d - 1))
      BY <1>2, <3>1
    <3> DEFINE g == [r \in Short(n, d) |-> IF r[2] = r[1] + 1 THEN leaves[r[2]]
                                           ELSE Node(f[Left(r)], f[Right(r)])]
    <3>3. \A r \in Short(n, d - 1) : r \in Short(n, d) /\ f[r] = g[r]
      BY <3>1, <3>2, ShortSlices
    <3>4. \A r \in Short(n, d) : r[2] # r[1] + 1 =>
            f[Left(r)] = g[Left(r)] /\ f[Right(r)] = g[Right(r)]
      BY <3>1, <3>3, ShortSlices
    <3>5. Is(g, Short(n, d))
      BY <3>4
    <3> HIDE DEF g
    <3> QED BY <3>5
  <2> QED BY <2>1, <2>2
<1>3. n \in S
  <2> HIDE DEF S
  <2> QED BY <1>1, <1>2, CompleteInduction
<1>4. \E f : Is(f, Slices(n))
  BY <1>3, ShortSlices
<1>5. SliceHash(leaves) = CHOOSE f : Is(f, Slices(n))
  BY DEF SliceHash
<1> HIDE DEF Is
<1>6. Is(SliceHash(leaves), Slices(n))
  BY <1>4, <1>5
<1> QED BY <1>6 DEF Is
\* What inclusion_audit_path does with the slice r.
PathStep(f, leaves, index, r) ==
  IF r[2] = r[1] + 1 THEN <<>>
  ELSE IF index < Middle(r)
  THEN Append(f[Left(r)], SliceHash(leaves)[Right(r)])
  ELSE Append(f[Right(r)], SliceHash(leaves)[Left(r)])

\* The function InclusionAuditPath recurses with.
AuditPaths(index, leaves) ==
  CHOOSE f : f = [r \in Slices(Len(leaves)) |-> PathStep(f, leaves, index, r)]

\* Its recursion has a solution, by induction over the length of slices.
LEMMA AuditPathDefined ==
  ASSUME NEW leaves, Len(leaves) \in Nat, NEW index
  PROVE  /\ InclusionAuditPath(index, leaves) = AuditPaths(index, leaves)[<<0, Len(leaves)>>]
         /\ AuditPaths(index, leaves) =
              [r \in Slices(Len(leaves)) |-> PathStep(AuditPaths(index, leaves), leaves, index, r)]
<1> DEFINE n == Len(leaves)
           Is(f, D) == f = [r \in D |-> PathStep(f, leaves, index, r)]
           S == {d \in Nat : \E f : Is(f, Short(n, d))}
<1>1. S \in SUBSET Nat
  OBVIOUS
<1>2. ASSUME NEW d \in Nat, \A m \in Nat : m < d => m \in S
      PROVE  d \in S
  <2>1. CASE d = 0
    <3> DEFINE f == [r \in {} |-> 0]
    <3>1. Is(f, {})
      OBVIOUS
    <3> QED BY <2>1, <3>1, ShortSlices
  <2>2. CASE d # 0
    <3>1. d - 1 \in Nat /\ d - 1 < d /\ d \in Nat \ {0}
      BY <2>2
    <3>2. PICK f : Is(f, Short(n, d - 1))
      BY <1>2, <3>1
    <3> DEFINE g == [r \in Short(n, d) |-> PathStep(f, leaves, index, r)]
    <3>3. \A r \in Short(n, d - 1) : r \in Short(n, d) /\ f[r] = g[r]
      BY <3>1, <3>2, ShortSlices
    <3>4. \A r \in Short(n, d) : PathStep(f, leaves, index, r) = PathStep(g, leaves, index, r)
      BY <3>1, <3>3, ShortSlices DEF PathStep
    <3>5. Is(g, Short(n, d))
      BY <3>4
    <3> HIDE DEF g
    <3> QED BY <3>5
  <2> QED BY <2>1, <2>2
<1>3. n \in S
  <2> HIDE DEF S
  <2> QED BY <1>1, <1>2, CompleteInduction
<1>4. \E f : Is(f, Slices(n))
  BY <1>3, ShortSlices
<1>5. AuditPaths(index, leaves) = CHOOSE f : Is(f, Slices(n))
  BY DEF AuditPaths
<1>6. InclusionAuditPath(index, leaves) = AuditPaths(index, leaves)[<<0, Len(leaves)>>]
  BY DEF InclusionAuditPath, AuditPaths, PathStep
<1> HIDE DEF Is
<1>7. Is(AuditPaths(index, leaves), Slices(n))
  BY <1>4, <1>5
<1> QED BY <1>6, <1>7 DEF Is

\* The slices of the first n leaves that hold leaf first - 1.
Holding(n, first) == {r \in Slices(n) : first \in r[1] + 1 .. r[2]}

\* What _subproof does with the slice r.
ProofStep(f, leaves, first, r) ==
  IF r[2] = first THEN (IF r[1] = 0 THEN <<>> ELSE <<SliceHash(leaves)[r]>>)
  ELSE IF first <= Middle(r)
  THEN Append(f[Left(r)], SliceHash(leaves)[Right(r)])
  ELSE Append(f[Right(r)], SliceHash(leaves)[Left(r)])

\* The function CtConsistencyProof recurses with.
Subproofs(first, second, leaves) ==
  CHOOSE f : f = [r \in Holding(second, first) |-> ProofStep(f, leaves, first, r)]

\* The half of a slice that holds the last leaf of the old tree.
LEMMA HoldingHalf ==
  ASSUME NEW n \in Nat, NEW first \in Nat, NEW r \in Holding(n, first), r[2] # first
  PROVE  /\ r \in Slices(n) /\ r[2] # r[1] + 1
         /\ first <= Middle(r) => Left(r) \in Holding(n, first)
         /\ ~ (first <= Middle(r)) => Right(r) \in Holding(n, first)
<1>1. r \in Slices(n) /\ first \in r[1] + 1 .. r[2]
  BY DEF Holding
<1>2. r[1] \in 0 .. n /\ r[2] \in 0 .. n /\ r[1] < r[2]
  BY <1>1 DEF Slices
<1>3. r[2] # r[1] + 1
  BY <1>1, <1>2
<1>4. /\ Middle(r) \in Nat /\ r[1] < Middle(r) /\ Middle(r) < r[2]
      /\ Left(r) \in Slices(n) /\ Left(r)[1] = r[1] /\ Left(r)[2] = Middle(r)
      /\ Right(r) \in Slices(n) /\ Right(r)[1] = Middle(r) /\ Right(r)[2] = r[2]
  BY <1>1, <1>3, Cut
<1>5. first <= Middle(r) => Left(r) \in Holding(n, first)
  BY <1>1, <1>2, <1>4 DEF Holding
<1>6. ~ (first <= Middle(r)) => Right(r) \in Holding(n, first)
  BY <1>1, <1>2, <1>4 DEF Holding
<1> QED BY <1>1, <1>3, <1>5, <1>6

\* Its recursion has a solution, by induction over the length of slices.
LEMMA SubproofDefined ==
  ASSUME NEW leaves, NEW first \in Nat, NEW second \in Nat
  PROVE  /\ CtConsistencyProof(first, second, leaves) =
              Subproofs(first, second, leaves)[<<0, second>>]
         /\ \A r \in Holding(second, first) :
              Subproofs(first, second, leaves)[r] =
                ProofStep(Subproofs(first, second, leaves), leaves, first, r)
<1> DEFINE H(d) == Holding(second, first) \cap Short(second, d)
           Is(f, D) == f = [r \in D |-> ProofStep(f, leaves, first, r)]
           S == {d \in Nat : \E f : Is(f, H(d))}
<1>1. S \in SUBSET Nat
  OBVIOUS
<1>2. ASSUME NEW d \in Nat, \A m \in Nat : m < d => m \in S
      PROVE  d \in S
  <2>1. CASE d = 0
    <3> DEFINE f == [r \in {} |-> 0]
    <3>1. Is(f, {}) /\ H(0) = {}
      BY ShortSlices
    <3> QED BY <2>1, <3>1
  <2>2. CASE d # 0
    <3>1. d - 1 \in Nat /\ d - 1 < d /\ d \in Nat \ {0}
      BY <2>2
    <3>2. PICK f : Is(f, H(d - 1))
      BY <1>2, <3>1
    <3> DEFINE g == [r \in H(d) |-> ProofStep(f, leaves, first, r)]
    <3>3. \A r \in H(d - 1) : r \in H(d) /\ f[r] = g[r]
      BY <3>1, <3>2, ShortSlices
    <3>4. ASSUME NEW r \in H(d)
          PROVE  ProofStep(f, leaves, first, r) = ProofStep(g, leaves, first, r)
      <4>1. CASE r[2] = first
        BY <4>1 DEF ProofStep
      <4>2. CASE r[2] # first
        <5>1. /\ r[2] # r[1] + 1
              /\ first <= Middle(r) => Left(r) \in Holding(second, first)
              /\ ~ (first <= Middle(r)) => Right(r) \in Holding(second, first)
          BY <4>2, HoldingHalf
        <5>2. Left(r) \in Short(second, d - 1) /\ Right(r) \in Short(second, d - 1)
          BY <3>1, <5>1, ShortSlices
        <5>3. /\ first <= Middle(r) => f[Left(r)] = g[Left(r)]
              /\ ~ (first <= Middle(r)) => f[Right(r)] = g[Right(r)]
          BY <3>3, <5>1, <5>2
        <5> HIDE DEF g
        <5> QED BY <4>2, <5>3 DEF ProofStep
      <4> QED BY <4>1, <4>2
    <3>5. Is(g, H(d))
      BY <3>4
    <3> HIDE DEF g
    <3> QED BY <3>5
  <2> QED BY <2>1, <2>2
<1>3. second \in S
  <2> HIDE DEF S
  <2> QED BY <1>1, <1>2, CompleteInduction
<1>4. H(second) = Holding(second, first)
  <2>1. Holding(second, first) \subseteq Slices(second)
    BY DEF Holding
  <2> QED BY <2>1, ShortSlices
<1>5. \E f : Is(f, Holding(second, first))
  BY <1>3, <1>4
<1>6. Subproofs(first, second, leaves) = CHOOSE f : Is(f, Holding(second, first))
  BY DEF Subproofs
<1>7. CtConsistencyProof(first, second, leaves) = Subproofs(first, second, leaves)[<<0, second>>]
  BY DEF CtConsistencyProof, Subproofs, ProofStep, Holding
<1> HIDE DEF Is
<1>8. Is(Subproofs(first, second, leaves), Holding(second, first))
  BY <1>5, <1>6
<1>9. \A r \in Holding(second, first) :
        Subproofs(first, second, leaves)[r] =
          ProofStep(Subproofs(first, second, leaves), leaves, first, r)
  <2> DEFINE f == Subproofs(first, second, leaves)
  <2>1. f = [r \in Holding(second, first) |-> ProofStep(f, leaves, first, r)]
    BY <1>8 DEF Is
  <2> HIDE DEF f
  <2>2. \A r \in Holding(second, first) : f[r] = ProofStep(f, leaves, first, r)
    BY <2>1
  <2> QED BY <2>2 DEF f
<1> QED BY <1>7, <1>9

\* Its recursion at one slice.
LEMMA SubproofAt ==
  ASSUME NEW leaves, NEW first \in Nat, NEW second \in Nat, NEW r \in Holding(second, first)
  PROVE  Subproofs(first, second, leaves)[r] =
           ProofStep(Subproofs(first, second, leaves), leaves, first, r)
BY SubproofDefined
-----------------------------------------------------------------------------
(* The loops that halve the place in a layer. *)

\* The loops' result from each place they may reach.
Halved(fn, sn, bit) ==
  CHOOSE f : f = [p \in (0 .. fn) \X (0 .. sn) |->
                    IF p[1] # 0 /\ p[1] % 2 = bit THEN f[<<p[1] \div 2, p[2] \div 2>>] ELSE p]

\* The loop of the verifiers ends: it halves fn as long as it goes on.
LEMMA HalveDefined ==
  ASSUME NEW fn \in Nat, NEW sn \in Nat, NEW bit
  PROVE  /\ Halve(fn, sn, bit) = Halved(fn, sn, bit)[<<fn, sn>>]
         /\ \A u \in 0 .. fn, v \in 0 .. sn :
              Halved(fn, sn, bit)[<<u, v>>] =
                IF u # 0 /\ u % 2 = bit THEN Halved(fn, sn, bit)[<<u \div 2, v \div 2>>]
                ELSE <<u, v>>
<1> DEFINE Next(f, p) == IF p[1] # 0 /\ p[1] % 2 = bit
                         THEN f[<<p[1] \div 2, p[2] \div 2>>] ELSE p
           D(j) == {p \in (0 .. fn) \X (0 .. sn) : p[1] < j}
           Is(f, E) == f = [p \in E |-> Next(f, p)]
           S == {j \in Nat : \E f : Is(f, D(j))}
<1>1. S \in SUBSET Nat
  OBVIOUS
<1>2. ASSUME NEW j \in Nat, \A m \in Nat : m < j => m \in S
      PROVE  j \in S
  <2>1. CASE j = 0
    <3> DEFINE f == [p \in {} |-> 0]
    <3>1. D(0) = {} /\ Is(f, {})
      OBVIOUS
    <3> QED BY <2>1, <3>1
  <2>2. CASE j # 0
    <3>1. j - 1 \in Nat /\ j - 1 < j
      BY <2>2
    <3>2. PICK f : Is(f, D(j - 1))
      BY <1>2, <3>1
    <3> DEFINE g == [p \in D(j) |-> Next(f, p)]
    <3>3. \A p \in D(j - 1) : p \in D(j) /\ f[p] = g[p]
      BY <2>2, <3>2
    <3>4. ASSUME NEW p \in D(j), p[1] # 0
          PROVE  <<p[1] \div 2, p[2] \div 2>> \in D(j - 1)
      <4>1. p[1] \in 0 .. fn /\ p[2] \in 0 .. sn /\ p[1] < j
        OBVIOUS
      <4>3. p[1] \div 2 \in 0 .. fn /\ p[2] \div 2 \in 0 .. sn /\ p[1] \div 2 < j - 1
        BY <2>2, <3>4, <4>1
      <4> QED BY <4>3
    <3>5. \A p \in D(j) : Next(f, p) = Next(g, p)
      BY <3>3, <3>4
    <3>6. Is(g, D(j))
      BY <3>5
    <3> HIDE DEF g
    <3> QED BY <3>6
  <2> QED BY <2>1, <2>2
<1>3. fn + 1 \in S
  <2> HIDE DEF S
  <2> QED BY <1>1, <1>2, CompleteInduction
<1>4. D(fn + 1) = (0 .. fn) \X (0 .. sn)
  OBVIOUS
<1>5. \E f : Is(f, (0 .. fn) \X (0 .. sn))
  BY <1>3, <1>4
<1>6. Halved(fn, sn, bit) = CHOOSE f : Is(f, (0 .. fn) \X (0 .. sn))
  BY DEF Halved
<1>7. Halve(fn, sn, bit) = Halved(fn, sn, bit)[<<fn, sn>>]
  BY DEF Halve, Halved
<1>8. Is(Halved(fn, sn, bit), (0 .. fn) \X (0 .. sn))
  <2> HIDE DEF Is
  <2> QED BY <1>5, <1>6
<1>9. \A u \in 0 .. fn, v \in 0 .. sn : <<u, v>> \in (0 .. fn) \X (0 .. sn)
  OBVIOUS
<1> HIDE DEF Next
<1>10. \A u \in 0 .. fn, v \in 0 .. sn :
         Halved(fn, sn, bit)[<<u, v>>] = Next(Halved(fn, sn, bit), <<u, v>>)
  BY <1>8, <1>9
<1> QED BY <1>7, <1>10 DEF Next

\* q is m divided by k, rounded down.
Within(m, k, q) == q * k <= m /\ m < (q + 1) * k
\* m is q times k.
Multiple(m, k, q) == m = q * k

\* Halving a multiple of a power of two, while it is even, leaves the odd factor.
LEMMA Climbed ==
  ASSUME NEW fn \in Nat, NEW sn \in Nat, NEW K \in Powers,
         NEW x \in Nat, NEW y \in Nat, Odd(x),
         Multiple(fn, K, x), Within(sn, K, y)
  PROVE  Halve(fn, sn, 0) = <<x, y>>
<1> DEFINE f == Halved(fn, sn, 0)
           S == {k \in Powers : \A v \in Nat :
                   x * k <= fn /\ v <= sn /\ y * k <= v /\ v < (y + 1) * k => f[<<x * k, v>>] = <<x, y>>}
<1>1. /\ Halve(fn, sn, 0) = f[<<fn, sn>>]
      /\ \A u \in 0 .. fn, v \in 0 .. sn :
           f[<<u, v>>] = IF u # 0 /\ u % 2 = 0 THEN f[<<u \div 2, v \div 2>>] ELSE <<u, v>>
  BY HalveDefined
<1> HIDE DEF f
<1>0. x % 2 = 1 /\ x >= 1
  BY DEF Odd
<1>2. S \in SUBSET Nat
  BY DEF Powers
<1>3. 1 \in S
  <2> SUFFICES ASSUME NEW v \in Nat, x * 1 <= fn, v <= sn, y * 1 <= v, v < (y + 1) * 1
               PROVE  f[<<x * 1, v>>] = <<x, y>>
    BY PowerOne
  <2>1. v = y /\ x * 1 = x /\ x \in 0 .. fn /\ y \in 0 .. sn
    OBVIOUS
  <2>2. f[<<x, y>>] = IF x # 0 /\ x % 2 = 0 THEN f[<<x \div 2, y \div 2>>] ELSE <<x, y>>
    BY <1>1, <2>1
  <2>3. ~ (x # 0 /\ x % 2 = 0)
    BY <1>0
  <2>4. f[<<x, y>>] = <<x, y>>
    BY <2>2, <2>3
  <2> QED BY <2>1, <2>4
<1>4. ASSUME NEW k \in S PROVE 2 * k \in S
  <2>1. k \in Nat /\ k >= 1 /\ 2 * k \in Powers
    BY PowerPositive, PowerDouble
  <2> SUFFICES ASSUME NEW v \in Nat, x * (2 * k) <= fn, v <= sn, y * (2 * k) <= v, v < (y + 1) * (2 * k)
               PROVE  f[<<x * (2 * k), v>>] = <<x, y>>
    BY <2>1
  <2> DEFINE a == x * k
             b == y * k
             c == (y + 1) * k
  <2>2. a \in Nat /\ a >= 1 /\ b \in Nat /\ c \in Nat
    BY <1>0, <2>1
  <2>3. x * (2 * k) = 2 * a /\ y * (2 * k) = 2 * b /\ (y + 1) * (2 * k) = 2 * c
    BY <2>1
  <2> HIDE DEF a, b, c
  <2>4. /\ 2 * a \in 0 .. fn /\ v \in 0 .. sn /\ 2 * a # 0 /\ (2 * a) % 2 = 0 /\ (2 * a) \div 2 = a
        /\ v \div 2 \in Nat /\ a <= fn /\ v \div 2 <= sn /\ b <= v \div 2 /\ v \div 2 < c
    BY <2>2, <2>3
  <2>5. f[<<2 * a, v>>] = f[<<a, v \div 2>>]
    BY <1>1, <2>4
  <2>6. f[<<a, v \div 2>>] = <<x, y>>
    BY <2>4 DEF a, b, c
  <2> QED BY <2>3, <2>5, <2>6
<1> HIDE DEF S
<1>5. K \in S
  BY <1>2, <1>3, <1>4, PowerInduction
<1>6. x * K <= fn /\ y * K <= sn /\ sn < (y + 1) * K /\ fn = x * K
  BY PowerPositive DEF Within, Multiple
<1> QED BY <1>1, <1>5, <1>6 DEF S

\* Halving a number just below a multiple of a power of two, while it is odd,
\* drops that many ones.
LEMMA Stripped ==
  ASSUME NEW fn \in Nat, NEW sn \in Nat, NEW K \in Powers,
         NEW x \in Nat, NEW y \in Nat, ~ Odd(x),
         Multiple(fn + 1, K, x + 1), Within(sn, K, y)
  PROVE  Halve(fn, sn, 1) = <<x, y>>
<1> DEFINE f == Halved(fn, sn, 1)
           S == {k \in Powers : \A v \in Nat :
                   (x + 1) * k - 1 <= fn /\ v <= sn /\ y * k <= v /\ v < (y + 1) * k
                     => f[<<(x + 1) * k - 1, v>>] = <<x, y>>}
<1>1. /\ Halve(fn, sn, 1) = f[<<fn, sn>>]
      /\ \A u \in 0 .. fn, v \in 0 .. sn :
           f[<<u, v>>] = IF u # 0 /\ u % 2 = 1 THEN f[<<u \div 2, v \div 2>>] ELSE <<u, v>>
  BY HalveDefined
<1> HIDE DEF f
<1>2. S \in SUBSET Nat
  BY DEF Powers
<1>3. 1 \in S
  <2> SUFFICES ASSUME NEW v \in Nat, (x + 1) * 1 - 1 <= fn, v <= sn, y * 1 <= v, v < (y + 1) * 1
               PROVE  f[<<(x + 1) * 1 - 1, v>>] = <<x, y>>
    BY PowerOne
  <2>1. v = y /\ (x + 1) * 1 - 1 = x /\ x \in 0 .. fn /\ y \in 0 .. sn
    OBVIOUS
  <2>2. f[<<x, y>>] = IF x # 0 /\ x % 2 = 1 THEN f[<<x \div 2, y \div 2>>] ELSE <<x, y>>
    BY <1>1, <2>1
  <2>3. f[<<x, y>>] = <<x, y>>
    <3>1. ~ (x % 2 = 1)
      BY DEF Odd
    <3> QED BY <2>2, <3>1
  <2> QED BY <2>1, <2>3
<1>4. ASSUME NEW k \in S PROVE 2 * k \in S
  <2>1. k \in Nat /\ k >= 1 /\ 2 * k \in Powers
    BY PowerPositive, PowerDouble
  <2> SUFFICES ASSUME NEW v \in Nat, (x + 1) * (2 * k) - 1 <= fn, v <= sn,
                      y * (2 * k) <= v, v < (y + 1) * (2 * k)
               PROVE  f[<<(x + 1) * (2 * k) - 1, v>>] = <<x, y>>
    BY <2>1
  <2> DEFINE a == (x + 1) * k
             b == y * k
             c == (y + 1) * k
  <2>2. a \in Nat /\ a >= 1 /\ b \in Nat /\ c \in Nat
    BY <2>1
  <2>3. (x + 1) * (2 * k) = 2 * a /\ y * (2 * k) = 2 * b /\ (y + 1) * (2 * k) = 2 * c
    BY <2>1
  <2> HIDE DEF a, b, c
  <2>4. /\ 2 * a - 1 \in 0 .. fn /\ v \in 0 .. sn /\ 2 * a - 1 # 0
        /\ (2 * a - 1) % 2 = 1 /\ (2 * a - 1) \div 2 = a - 1
        /\ v \div 2 \in Nat /\ a - 1 <= fn /\ v \div 2 <= sn /\ b <= v \div 2 /\ v \div 2 < c
    BY <2>2, <2>3
  <2>5. f[<<2 * a - 1, v>>] = f[<<a - 1, v \div 2>>]
    BY <1>1, <2>4
  <2>6. f[<<a - 1, v \div 2>>] = <<x, y>>
    BY <2>4 DEF a, b, c
  <2> QED BY <2>3, <2>5, <2>6
<1> HIDE DEF S
<1>5. K \in S
  BY <1>2, <1>3, <1>4, PowerInduction
<1>6. fn = (x + 1) * K - 1 /\ y * K <= sn /\ sn < (y + 1) * K
  <2>1. fn + 1 = (x + 1) * K /\ (x + 1) * K \in Int
    BY PowerPositive DEF Multiple
  <2>2. fn = (x + 1) * K - 1
    BY <2>1
  <2> QED BY <2>2 DEF Within
<1>7. (x + 1) * K - 1 <= fn
  BY <1>6
<1> QED BY <1>1, <1>5, <1>6, <1>7 DEF S
-----------------------------------------------------------------------------
(* The slices that are nodes of the tree, and their places in its layers. *)

\* Every number has a quotient by k, rounded down.
LEMMA Quotient ==
  ASSUME NEW m \in Nat, NEW k \in Nat, k >= 1
  PROVE  \E q \in Nat : Within(m, k, q)
<1> DEFINE S == {a \in Nat : \E q \in Nat : q * k <= a /\ a < (q + 1) * k}
<1>1. S \in SUBSET Nat
  OBVIOUS
<1>2. ASSUME NEW a \in Nat, \A b \in Nat : b < a => b \in S
      PROVE  a \in S
  <2>1. CASE a < k
    <3>1. 0 * k <= a /\ a < (0 + 1) * k
      BY <2>1
    <3> QED BY <3>1
  <2>2. CASE k <= a
    <3>1. a - k \in Nat /\ a - k < a
      BY <2>2
    <3>2. PICK q \in Nat : q * k <= a - k /\ a - k < (q + 1) * k
      BY <1>2, <3>1
    <3>3. q + 1 \in Nat /\ (q + 1) * k <= a /\ a < (q + 1 + 1) * k
      BY <3>2
    <3> DEFINE p == q + 1
    <3>4. p \in Nat /\ p * k <= a /\ a < (p + 1) * k
      BY <3>3
    <3> HIDE DEF p
    <3> QED BY <3>4
  <2> QED BY <2>1, <2>2
<1> HIDE DEF S
<1>3. m \in S
  BY <1>1, <1>2, CompleteInduction
<1> QED BY <1>3 DEF S, Within

\* Where a climb from place 2 * x + 1 of some layer above ends.
LEMMA ClimbedTo ==
  ASSUME NEW x \in Nat, NEW c \in Powers, NEW fn \in Nat, NEW sn \in Nat,
         fn = (2 * x + 1) * c
  PROVE  \E q \in Nat : Within(sn, c, q) /\ Halve(fn, sn, 0) = <<2 * x + 1, q>>
<1>1. PICK q \in Nat : Within(sn, c, q)
  BY PowerPositive, Quotient
<1> DEFINE z == 2 * x + 1
<1>2. z \in Nat /\ Odd(z) /\ Multiple(fn, c, z)
  BY DEF Odd, Multiple
<1> HIDE DEF z
<1>3. Halve(fn, sn, 0) = <<z, q>>
  BY <1>1, <1>2, Climbed
<1> QED BY <1>1, <1>3 DEF z

\* A factor of both sides may be dropped.
LEMMA QuotientLess ==
  ASSUME NEW k \in Nat, NEW a \in Nat, NEW b \in Nat, a * k < b * k
  PROVE  a < b
<1> SUFFICES ASSUME b <= a PROVE FALSE
  OBVIOUS
<1>1. b * k <= a * k
  OBVIOUS
<1>2. a * k \in Nat /\ b * k \in Nat
  OBVIOUS
<1> QED BY <1>1, <1>2

\* Every number of leaves fits a power of two that is less than twice as large.
LEMMA Fits ==
  ASSUME NEW w \in Nat, w >= 1
  PROVE  \E k \in Powers : k \in Nat /\ k >= 1 /\ w <= k /\ k < 2 * w
<1>1. CASE w = 1
  BY <1>1, PowerOne
<1>2. CASE w # 1
  <2> DEFINE k == LargestPowerOfTwoBelow(w)
  <2>1. k \in Powers /\ k \in Nat /\ k >= 1 /\ k < w /\ w <= 2 * k
    BY <1>2, LargestPower
  <2> HIDE DEF k
  <2> QED BY <2>1, PowerDouble
<1> QED BY <1>1, <1>2

\* Slice r is node x of the layer whose nodes have K leaves, the last one of a
\* layer perhaps fewer.
Block(n, r, K, x) ==
  /\ r[1] = x * K
  /\ r[2] - r[1] <= K
  /\ K < 2 * (r[2] - r[1])
  /\ r[2] = r[1] + K \/ r[2] = n

\* A slice is one node of one layer.
LEMMA BlockUnique ==
  ASSUME NEW n \in Nat, NEW r \in Slices(n), NEW K \in Powers, NEW L \in Powers,
         NEW x \in Nat, NEW y \in Nat, Block(n, r, K, x), Block(n, r, L, y)
  PROVE  K = L /\ x = y
<1>1. r[1] \in Nat /\ r[2] \in Nat
  BY DEF Slices
<1>2. K \in Nat /\ L \in Nat /\ K >= 1
  BY PowerPositive
<1>3. ~ (K < L) /\ ~ (L < K)
  BY <1>1, <1>2, PowerGapLess DEF Block
<1>4. K = L
  BY <1>2, <1>3
<1>5. x * K = y * K
  BY <1>4 DEF Block
<1>6. x = y
  BY <1>2, <1>5
<1> QED BY <1>4, <1>6

\* The whole tree is one node.
LEMMA WholeBlock ==
  ASSUME NEW n \in Nat, n >= 1
  PROVE  <<0, n>> \in Slices(n) /\ \E K \in Powers : n <= K /\ Block(n, <<0, n>>, K, 0)
<1>1. PICK K \in Powers : K \in Nat /\ n <= K /\ K < 2 * n
  BY Fits
<1>2. Block(n, <<0, n>>, K, 0)
  BY <1>1 DEF Block
<1>3. <<0, n>> \in Slices(n)
  BY DEF Slices
<1> QED BY <1>1, <1>2, <1>3

\* The halves of a node are nodes of lower layers: the left one of the layer
\* below, the right one c times its size below, and c = 1 away from the edge.
LEMMA HalfBlocks ==
  ASSUME NEW n \in Nat, NEW r \in Slices(n), r[2] # r[1] + 1,
         NEW K \in Powers, NEW x \in Nat, Block(n, r, K, x)
  PROVE  \E k, j, c \in Powers :
           /\ K = 2 * k /\ k = c * j
           /\ Middle(r) = (2 * x + 1) * k
           /\ Block(n, Left(r), k, 2 * x)
           /\ Block(n, Right(r), j, (2 * x + 1) * c)
           /\ c # 1 => r[2] = n
<1> DEFINE k == LargestPowerOfTwoBelow(r[2] - r[1])
           w == r[2] - Middle(r)
<1>1. r[1] \in Nat /\ r[2] \in Nat
  BY DEF Slices
<1>2. /\ k \in Powers /\ k < r[2] - r[1] /\ r[2] - r[1] <= 2 * k
      /\ Middle(r) \in Nat /\ Middle(r) = r[1] + k
      /\ r[1] < Middle(r) /\ Middle(r) < r[2]
      /\ Left(r) \in Slices(n) /\ Left(r)[1] = r[1] /\ Left(r)[2] = Middle(r)
      /\ Right(r) \in Slices(n) /\ Right(r)[1] = Middle(r) /\ Right(r)[2] = r[2]
  BY Cut
<1> HIDE DEF k
<1>3. k \in Nat /\ k >= 1 /\ 2 * k \in Powers /\ K \in Nat
  BY <1>2, PowerPositive, PowerDouble
<1>4. K = 2 * k
  <2>1. 2 * k <= K
    BY <1>1, <1>2, <1>3, PowerGapLess DEF Block
  <2>2. 2 * k < K => 2 * (2 * k) <= K
    BY <1>3, PowerGapLess
  <2> QED BY <1>1, <1>2, <1>3, <2>1, <2>2 DEF Block
<1>5. w \in Nat /\ w >= 1 /\ w <= k
  BY <1>1, <1>2, <1>3
<1>6. PICK j \in Powers : j \in Nat /\ j >= 1 /\ w <= j /\ j < 2 * w
  BY <1>5, Fits
<1>7. j <= k
  BY <1>2, <1>3, <1>5, <1>6, PowerGapLess
<1>8. PICK c \in Powers : k = c * j
  BY <1>2, <1>7, PowerDivides
<1>9. c \in Nat /\ c >= 1
  BY PowerPositive
<1>10. r[1] = (2 * x) * k /\ Middle(r) = (2 * x + 1) * k
  BY <1>1, <1>2, <1>3, <1>4 DEF Block
<1>11. Block(n, Left(r), k, 2 * x)
  BY <1>2, <1>3, <1>10 DEF Block
<1>12. r[2] # n => w = k
  BY <1>1, <1>2, <1>3, <1>4 DEF Block
<1>13. r[2] # n => j = k /\ c = 1
  <2>1. r[2] # n => j = k
    BY <1>3, <1>6, <1>7, <1>12
  <2> QED BY <2>1, <1>3, <1>8, <1>9
<1>14. Middle(r) = ((2 * x + 1) * c) * j
  BY <1>8, <1>9, <1>6, <1>10
<1>15. Block(n, Right(r), j, (2 * x + 1) * c)
  <2>1. r[2] # n => r[2] = Middle(r) + j
    BY <1>1, <1>2, <1>12, <1>13
  <2> QED BY <1>2, <1>6, <1>14, <2>1 DEF Block
<1> QED BY <1>2, <1>4, <1>8, <1>10, <1>11, <1>13, <1>15

\* The walk is at slice r when fn is r's place in its layer and sn the last
\* place of that layer.
At(n, r, fn, sn) ==
  \E K \in Powers : Block(n, r, K, fn) /\ Within(n - 1, K, sn)

\* A left half has no left sibling, and its parent is one layer up.
LEMMA AboveLeft ==
  ASSUME NEW n \in Nat, NEW r \in Slices(n), r[2] # r[1] + 1,
         NEW K \in Powers, NEW x \in Nat, Block(n, r, K, x),
         NEW fn \in Nat, NEW sn \in Nat, At(n, Left(r), fn, sn)
  PROVE  /\ ~ HasLeftSibling(fn, sn) /\ sn > 0
         /\ Above(fn, sn)[1] \in Nat /\ Above(fn, sn)[2] \in Nat
         /\ At(n, r, Above(fn, sn)[1], Above(fn, sn)[2])
<1>1. PICK k, j, c \in Powers :
        /\ K = 2 * k /\ Middle(r) = (2 * x + 1) * k /\ Block(n, Left(r), k, 2 * x)
  BY HalfBlocks
<1>2. PICK L \in Powers :
        Block(n, Left(r), L, fn) /\ sn * L <= n - 1 /\ n - 1 < (sn + 1) * L
  BY DEF At, Within
<1>3. k \in Nat /\ k >= 1
  BY PowerPositive
<1>4. Left(r) \in Slices(n) /\ Middle(r) \in Nat /\ Middle(r) < r[2] /\ r[2] \in 0 .. n
  BY Cut DEF Slices
<1>5. L = k /\ fn = 2 * x
  BY <1>1, <1>2, <1>4, BlockUnique
<1>6. 2 * x + 1 < sn + 1
  <2>1. (2 * x + 1) * k < (sn + 1) * k
    BY <1>1, <1>2, <1>3, <1>4, <1>5
  <2> QED BY <1>3, <2>1, QuotientLess
<1>7. ~ HasLeftSibling(fn, sn) /\ sn > 0
  BY <1>5, <1>6 DEF HasLeftSibling, Odd
<1>8. Above(fn, sn)[1] = x /\ Above(fn, sn)[2] = sn \div 2
  BY <1>5, <1>7 DEF Above
<1> DEFINE y == sn \div 2
<1>9. y \in Nat /\ 2 * y <= sn /\ sn + 1 <= 2 * (y + 1)
  OBVIOUS
<1> HIDE DEF y
<1>10. y * K <= n - 1 /\ n - 1 < (y + 1) * K
  <2>1. y * (2 * k) <= sn * k /\ (sn + 1) * k <= (y + 1) * (2 * k)
    BY <1>3, <1>9
  <2>2. sn * k \in Nat /\ (sn + 1) * k \in Nat /\ y * (2 * k) \in Nat /\ (y + 1) * (2 * k) \in Nat
    BY <1>3, <1>9
  <2> QED BY <1>1, <1>2, <1>5, <2>1, <2>2
<1>11. At(n, r, x, y)
  BY <1>10 DEF At, Within
<1> QED BY <1>7, <1>8, <1>9, <1>11 DEF y

\* A right half has a left sibling, and its parent is where the climb ends.
LEMMA AboveRight ==
  ASSUME NEW n \in Nat, NEW r \in Slices(n), r[2] # r[1] + 1,
         NEW K \in Powers, NEW x \in Nat, Block(n, r, K, x),
         NEW fn \in Nat, NEW sn \in Nat, At(n, Right(r), fn, sn)
  PROVE  /\ HasLeftSibling(fn, sn) /\ sn > 0
         /\ Above(fn, sn)[1] \in Nat /\ Above(fn, sn)[2] \in Nat
         /\ At(n, r, Above(fn, sn)[1], Above(fn, sn)[2])
<1>1. PICK k, j, c \in Powers :
        /\ K = 2 * k /\ k = c * j /\ Middle(r) = (2 * x + 1) * k
        /\ Block(n, Right(r), j, (2 * x + 1) * c)
        /\ c # 1 => r[2] = n
  BY HalfBlocks
<1>2. PICK L \in Powers :
        Block(n, Right(r), L, fn) /\ sn * L <= n - 1 /\ n - 1 < (sn + 1) * L
  BY DEF At, Within
<1>3. k \in Nat /\ k >= 1 /\ j \in Nat /\ j >= 1 /\ c \in Nat /\ c >= 1
  BY PowerPositive
<1>4. /\ Right(r) \in Slices(n) /\ Right(r)[1] = Middle(r) /\ Right(r)[2] = r[2]
      /\ Middle(r) \in Nat /\ Middle(r) < r[2] /\ r[2] \in 0 .. n
  BY Cut DEF Slices
<1>5. L = j /\ fn = (2 * x + 1) * c
  BY <1>1, <1>2, <1>3, <1>4, BlockUnique
<1>6. Middle(r) = fn * j
  BY <1>1, <1>3, <1>5
<1>7. fn < sn + 1
  <2>1. fn * j < (sn + 1) * j
    BY <1>2, <1>3, <1>4, <1>5, <1>6
  <2> QED BY <1>3, <2>1, QuotientLess
<1>8. r[2] = n => fn = sn
  <2> SUFFICES ASSUME r[2] = n PROVE fn = sn
    OBVIOUS
  <2>1. n - Middle(r) <= j
    BY <1>2, <1>4, <1>5 DEF Block
  <2>2. n - 1 < (fn + 1) * j
    BY <1>3, <1>4, <1>6, <2>1
  <2>3. sn * j < (fn + 1) * j
    BY <1>2, <1>3, <1>5, <2>2
  <2>4. sn < fn + 1
    BY <1>3, <2>3, QuotientLess
  <2> QED BY <1>7, <2>4
<1>9. fn >= 1
  <2>1. (2 * x + 1) * c >= 1
    BY <1>3
  <2> QED BY <1>5, <2>1
<1>10. (2 * x + 1) % 2 = 1 /\ (2 * x + 1) \div 2 = x
  OBVIOUS
<1>11. HasLeftSibling(fn, sn) /\ sn > 0
  <2>1. c = 1 => fn = 2 * x + 1
    BY <1>5
  <2> QED BY <1>1, <1>7, <1>8, <1>9, <1>10, <2>1 DEF HasLeftSibling, Odd
<1>12. PICK q \in Nat : Within(sn, c, q) /\ Halve(fn, sn, 0) = <<2 * x + 1, q>>
  BY <1>5, ClimbedTo
<1>14. Above(fn, sn)[1] = x /\ Above(fn, sn)[2] = q \div 2
  BY <1>10, <1>11, <1>12 DEF Above
<1> DEFINE y == q \div 2
<1>15. y \in Nat /\ 2 * y <= q /\ q + 1 <= 2 * (y + 1)
  OBVIOUS
<1> HIDE DEF y
<1>16. y * K <= n - 1
  <2>1. (2 * y) * c <= sn
    BY <1>3, <1>12, <1>15 DEF Within
  <2>2. ((2 * y) * c) * j <= sn * j
    BY <1>3, <1>15, <2>1
  <2>3. ((2 * y) * c) * j = y * K
    BY <1>1, <1>3, <1>15
  <2>4. y * K <= sn * j /\ sn * j <= n - 1
    BY <1>2, <1>5, <2>2, <2>3
  <2>5. y * K \in Int /\ sn * j \in Int
    BY <1>3, <1>15, PowerPositive
  <2> QED BY <2>4, <2>5
<1>17. n - 1 < (y + 1) * K
  <2>1. sn + 1 <= (2 * (y + 1)) * c
    BY <1>3, <1>12, <1>15 DEF Within
  <2>2. (sn + 1) * j <= ((2 * (y + 1)) * c) * j
    BY <1>3, <1>15, <2>1
  <2>3. ((2 * (y + 1)) * c) * j = (y + 1) * K
    BY <1>1, <1>3, <1>15
  <2>4. n - 1 < (sn + 1) * j /\ (sn + 1) * j <= (y + 1) * K
    BY <1>2, <1>5, <2>2, <2>3
  <2>5. (y + 1) * K \in Int /\ (sn + 1) * j \in Int
    BY <1>3, <1>15, PowerPositive
  <2> QED BY <2>4, <2>5
<1>18. At(n, r, x, y)
  BY <1>16, <1>17 DEF At, Within
<1> QED BY <1>11, <1>14, <1>15, <1>18 DEF y
-----------------------------------------------------------------------------
(* The walk along a path. *)

\* Where a walk begins.
WalkFrom(fn, sn, seed) == [fn |-> fn, sn |-> sn, fr |-> seed, sr |-> seed]

\* The walk makes one round with each hash of the path.
LEMMA WalkDefined ==
  ASSUME NEW fn, NEW sn, NEW seed, NEW T, NEW path \in Seq(T)
  PROVE  LET w == Walk(fn, sn, seed, path)
         IN /\ w[0] = WalkFrom(fn, sn, seed)
            /\ \A k \in 1 .. Len(path) : w[k] = Round(w[k - 1], path[k])
<1> DEFINE n == Len(path)
           Step(f, k) == IF k = 0 THEN WalkFrom(fn, sn, seed) ELSE Round(f[k - 1], path[k])
           Is(f, D) == f = [k \in D |-> Step(f, k)]
           S == {j \in Nat : \E f : Is(f, 0 .. j)}
<1>0. n \in Nat
  OBVIOUS
<1> HIDE DEF n
<1>1. S \in SUBSET Nat
  OBVIOUS
<1>2. ASSUME NEW j \in Nat, \A m \in Nat : m < j => m \in S
      PROVE  j \in S
  <2>1. CASE j = 0
    <3> DEFINE f == [k \in 0 .. 0 |-> WalkFrom(fn, sn, seed)]
    <3>1. Is(f, 0 .. 0)
      OBVIOUS
    <3> QED BY <2>1, <3>1
  <2>2. CASE j # 0
    <3>1. j - 1 \in Nat /\ j - 1 < j
      BY <2>2
    <3>2. PICK f : Is(f, 0 .. j - 1)
      BY <1>2, <3>1
    <3> DEFINE g == [k \in 0 .. j |-> Step(f, k)]
    <3>3. \A k \in 0 .. j - 1 : f[k] = g[k]
      BY <3>1, <3>2
    <3>4. \A k \in 0 .. j : Step(f, k) = Step(g, k)
      <4>1. \A k \in 0 .. j : k # 0 => k - 1 \in 0 .. j - 1
        BY <3>1
      <4> HIDE DEF g
      <4> QED BY <3>3, <4>1
    <3>5. Is(g, 0 .. j)
      BY <3>4
    <3> HIDE DEF g
    <3> QED BY <3>5
  <2> QED BY <2>1, <2>2
<1>3. n \in S
  <2> HIDE DEF S
  <2> QED BY <1>0, <1>1, <1>2, CompleteInduction
<1>4. \E f : Is(f, 0 .. n)
  BY <1>3
<1>5. Walk(fn, sn, seed, path) = CHOOSE f : Is(f, 0 .. n)
  BY DEF Walk, WalkFrom, n
<1>6. Is(Walk(fn, sn, seed, path), 0 .. n)
  <2> HIDE DEF Is
  <2> QED BY <1>4, <1>5
<1> HIDE DEF Step
<1>7. \A k \in 0 .. n : Walk(fn, sn, seed, path)[k] = Step(Walk(fn, sn, seed, path), k)
  BY <1>6
<1>8. 0 \in 0 .. n /\ \A k \in 1 .. n : k \in 0 .. n /\ k # 0
  BY <1>0
<1> QED BY <1>7, <1>8 DEF Step, n

\* The walk along no path stays there.
LEMMA EmptyWalk ==
  ASSUME NEW fn, NEW sn, NEW seed
  PROVE  Walk(fn, sn, seed, <<>>)[0] = WalkFrom(fn, sn, seed)
<1>1. <<>> \in Seq({})
  OBVIOUS
<1> QED BY <1>1, WalkDefined

\* A walk along a longer path begins with the walk along the shorter one.
LEMMA WalkAppend ==
  ASSUME NEW fn, NEW sn, NEW seed, NEW T, NEW path \in Seq(T), NEW c \in T
  PROVE  LET w == Walk(fn, sn, seed, path)
             v == Walk(fn, sn, seed, Append(path, c))
         IN /\ \A k \in 0 .. Len(path) : v[k] = w[k]
            /\ v[Len(path) + 1] = Round(w[Len(path)], c)
<1> DEFINE w == Walk(fn, sn, seed, path)
           v == Walk(fn, sn, seed, Append(path, c))
           S == {k \in Nat : k <= Len(path) => v[k] = w[k]}
<1>1. /\ Append(path, c) \in Seq(T) /\ Len(Append(path, c)) = Len(path) + 1
      /\ Append(path, c)[Len(path) + 1] = c
      /\ \A k \in 1 .. Len(path) : Append(path, c)[k] = path[k]
      /\ Len(path) \in Nat
  OBVIOUS
<1>2. /\ w[0] = WalkFrom(fn, sn, seed)
      /\ \A k \in 1 .. Len(path) : w[k] = Round(w[k - 1], path[k])
  BY WalkDefined
<1>3. /\ v[0] = WalkFrom(fn, sn, seed)
      /\ \A k \in 1 .. Len(path) + 1 : v[k] = Round(v[k - 1], Append(path, c)[k])
  <2> DEFINE q == Append(path, c)
  <2>1. q \in Seq(T) /\ Len(q) = Len(path) + 1
    BY <1>1
  <2>2. v = Walk(fn, sn, seed, q)
    OBVIOUS
  <2> HIDE DEF q, v
  <2>3. v[0] = WalkFrom(fn, sn, seed) /\ \A k \in 1 .. Len(q) : v[k] = Round(v[k - 1], q[k])
    BY <2>1, <2>2, WalkDefined
  <2>4. v[0] = WalkFrom(fn, sn, seed)
        /\ \A k \in 1 .. Len(path) + 1 : v[k] = Round(v[k - 1], q[k])
    BY <2>1, <2>3
  <2> QED BY <2>4 DEF q
<1> HIDE DEF w, v
<1>4. S \in SUBSET Nat
  OBVIOUS
<1>5. ASSUME NEW k \in Nat, \A m \in Nat : m < k => m \in S
      PROVE  k \in S
  <2> SUFFICES ASSUME k <= Len(path) PROVE v[k] = w[k]
    OBVIOUS
  <2>1. CASE k = 0
    BY <1>2, <1>3, <2>1
  <2>2. CASE k # 0
    <3>1. k - 1 \in Nat /\ k - 1 < k /\ k - 1 <= Len(path)
      BY <1>1, <2>2
    <3>2. v[k - 1] = w[k - 1]
      BY <1>5, <3>1
    <3>3. k \in 1 .. Len(path) /\ k \in 1 .. Len(path) + 1
      BY <1>1, <2>2
    <3> QED BY <1>1, <1>2, <1>3, <3>2, <3>3
  <2> QED BY <2>1, <2>2
<1> HIDE DEF S
<1>6. S = Nat
  BY <1>4, <1>5, CompleteInduction
<1>7. \A k \in 0 .. Len(path) : v[k] = w[k]
  BY <1>1, <1>6 DEF S
<1>8. v[Len(path) + 1] = Round(w[Len(path)], c)
  <2>1. Len(path) + 1 \in 1 .. Len(path) + 1 /\ Len(path) + 1 - 1 = Len(path)
        /\ Len(path) \in 0 .. Len(path)
    BY <1>1
  <2> QED BY <1>1, <1>3, <1>7, <2>1
<1> QED BY <1>7, <1>8 DEF w, v

\* The places a walk passes do not depend on the hashes.
LEMMA SamePlaces ==
  ASSUME NEW fn, NEW sn, NEW x, NEW y, NEW T, NEW p \in Seq(T), NEW q \in Seq(T)
  PROVE  \A k \in Nat : k <= Len(p) /\ k <= Len(q) =>
           /\ Walk(fn, sn, x, p)[k].fn = Walk(fn, sn, y, q)[k].fn
           /\ Walk(fn, sn, x, p)[k].sn = Walk(fn, sn, y, q)[k].sn
<1> DEFINE w == Walk(fn, sn, x, p)
           v == Walk(fn, sn, y, q)
           S == {k \in Nat : k <= Len(p) /\ k <= Len(q) => w[k].fn = v[k].fn /\ w[k].sn = v[k].sn}
<1>1. Len(p) \in Nat /\ Len(q) \in Nat
  OBVIOUS
<1>2. /\ w[0] = WalkFrom(fn, sn, x)
      /\ \A k \in 1 .. Len(p) : w[k] = Round(w[k - 1], p[k])
  BY WalkDefined
<1>3. /\ v[0] = WalkFrom(fn, sn, y)
      /\ \A k \in 1 .. Len(q) : v[k] = Round(v[k - 1], q[k])
  BY WalkDefined
<1> HIDE DEF w, v
<1>4. S \in SUBSET Nat
  OBVIOUS
<1>5. ASSUME NEW k \in Nat, \A m \in Nat : m < k => m \in S
      PROVE  k \in S
  <2> SUFFICES ASSUME k <= Len(p), k <= Len(q) PROVE w[k].fn = v[k].fn /\ w[k].sn = v[k].sn
    OBVIOUS
  <2>1. CASE k = 0
    BY <1>2, <1>3, <2>1 DEF WalkFrom
  <2>2. CASE k # 0
    <3>1. k - 1 \in Nat /\ k - 1 < k /\ k - 1 <= Len(p) /\ k - 1 <= Len(q)
      BY <1>1, <2>2
    <3>2. w[k - 1].fn = v[k - 1].fn /\ w[k - 1].sn = v[k - 1].sn
      BY <1>5, <3>1
    <3>3. k \in 1 .. Len(p) /\ k \in 1 .. Len(q)
      BY <1>1, <2>2
    <3>4. w[k] = Round(w[k - 1], p[k]) /\ v[k] = Round(v[k - 1], q[k])
      BY <1>2, <1>3, <3>3
    <3> QED BY <3>2, <3>4 DEF Round
  <2> QED BY <2>1, <2>2
<1> HIDE DEF S
<1>6. S = Nat
  BY <1>4, <1>5, CompleteInduction
<1> QED BY <1>6 DEF S, w, v

\* A round with two hashes leads to one second root only if they are the same,
\* and so are the roots before.
LEMMA RoundInjective ==
  ASSUME NEW w, NEW v, NEW c, NEW d, w.fn = v.fn, w.sn = v.sn,
         Round(w, c).sr = Round(v, d).sr
  PROVE  c = d /\ w.sr = v.sr
<1>1. CASE HasLeftSibling(w.fn, w.sn)
  <2>1. Node(c, w.sr) = Node(d, v.sr)
    BY <1>1 DEF Round
  <2> QED BY <2>1 DEF Node
<1>2. CASE ~ HasLeftSibling(w.fn, w.sn)
  <2>1. Node(w.sr, c) = Node(v.sr, d)
    BY <1>2 DEF Round
  <2> QED BY <2>1 DEF Node
<1> QED BY <1>1, <1>2

\* The walk of a path ends at the root, and not before.
Arrives(fn, sn, seed, path) ==
  /\ Walk(fn, sn, seed, path)[Len(path)].sn = 0
  /\ \A k \in 0 .. Len(path) - 1 : Walk(fn, sn, seed, path)[k].sn > 0

\* A path has two roots just when it arrives, and they are the walk's last.
LEMMA PathRootsArrive ==
  ASSUME NEW fn, NEW sn, NEW seed, NEW path
  PROVE  /\ PathRoots(fn, sn, seed, path) # <<>> <=> Arrives(fn, sn, seed, path)
         /\ Arrives(fn, sn, seed, path) =>
              PathRoots(fn, sn, seed, path) =
                <<Walk(fn, sn, seed, path)[Len(path)].fr, Walk(fn, sn, seed, path)[Len(path)].sr>>
BY DEF PathRoots, Arrives

\* Two paths from one place that arrive are of one length.
LEMMA SameLength ==
  ASSUME NEW fn, NEW sn, NEW x, NEW y, NEW T, NEW p \in Seq(T), NEW q \in Seq(T),
         Arrives(fn, sn, x, p), Arrives(fn, sn, y, q)
  PROVE  Len(p) = Len(q)
<1>1. Len(p) \in Nat /\ Len(q) \in Nat
  OBVIOUS
<1>2. \A k \in Nat : k <= Len(p) /\ k <= Len(q) =>
        Walk(fn, sn, x, p)[k].sn = Walk(fn, sn, y, q)[k].sn
  BY SamePlaces
<1>3. ~ (Len(p) < Len(q))
  <2> SUFFICES ASSUME Len(p) < Len(q) PROVE FALSE
    OBVIOUS
  <2>1. Walk(fn, sn, x, p)[Len(p)].sn = Walk(fn, sn, y, q)[Len(p)].sn /\ Len(p) \in 0 .. Len(q) - 1
    BY <1>1, <1>2
  <2> QED BY <2>1 DEF Arrives
<1>4. ~ (Len(q) < Len(p))
  <2> SUFFICES ASSUME Len(q) < Len(p) PROVE FALSE
    OBVIOUS
  <2>1. Walk(fn, sn, x, p)[Len(q)].sn = Walk(fn, sn, y, q)[Len(q)].sn /\ Len(q) \in 0 .. Len(p) - 1
    BY <1>1, <1>2
  <2> QED BY <2>1 DEF Arrives
<1> QED BY <1>1, <1>3, <1>4

\* There is one way to a root: from one place, two paths that arrive at the
\* same second root are the same path from the same hash.
LEMMA OnePath ==
  ASSUME NEW fn, NEW sn, NEW x, NEW y, NEW T, NEW p \in Seq(T), NEW q \in Seq(T),
         Arrives(fn, sn, x, p), Arrives(fn, sn, y, q),
         Walk(fn, sn, x, p)[Len(p)].sr = Walk(fn, sn, y, q)[Len(q)].sr
  PROVE  x = y /\ p = q
<1> DEFINE n == Len(p)
           w == Walk(fn, sn, x, p)
           v == Walk(fn, sn, y, q)
           S == {j \in Nat : j <= n => w[n - j].sr = v[n - j].sr}
<1>1. n \in Nat /\ Len(q) = n
  BY SameLength
<1>2. \A k \in Nat : k <= n => w[k].fn = v[k].fn /\ w[k].sn = v[k].sn
  BY <1>1, SamePlaces
<1>3. /\ w[0] = WalkFrom(fn, sn, x) /\ \A k \in 1 .. n : w[k] = Round(w[k - 1], p[k])
      /\ v[0] = WalkFrom(fn, sn, y) /\ \A k \in 1 .. n : v[k] = Round(v[k - 1], q[k])
  <2>1. w[0] = WalkFrom(fn, sn, x) /\ \A k \in 1 .. n : w[k] = Round(w[k - 1], p[k])
    BY WalkDefined
  <2>2. v[0] = WalkFrom(fn, sn, y) /\ \A k \in 1 .. Len(q) : v[k] = Round(v[k - 1], q[k])
    BY WalkDefined
  <2> QED BY <1>1, <2>1, <2>2
<1>4. w[n].sr = v[n].sr
  BY <1>1
<1> HIDE DEF w, v, n
<1>5. \A k \in 1 .. n : w[k].sr = v[k].sr => p[k] = q[k] /\ w[k - 1].sr = v[k - 1].sr
  <2> SUFFICES ASSUME NEW k \in 1 .. n, w[k].sr = v[k].sr
               PROVE  p[k] = q[k] /\ w[k - 1].sr = v[k - 1].sr
    OBVIOUS
  <2>1. w[k] = Round(w[k - 1], p[k]) /\ v[k] = Round(v[k - 1], q[k])
    BY <1>3
  <2>2. k - 1 \in Nat /\ k - 1 <= n
    BY <1>1
  <2>3. w[k - 1].fn = v[k - 1].fn /\ w[k - 1].sn = v[k - 1].sn
    BY <1>2, <2>2
  <2> QED BY <2>1, <2>3, RoundInjective
<1>6. S \in SUBSET Nat
  OBVIOUS
<1>7. ASSUME NEW j \in Nat, \A m \in Nat : m < j => m \in S
      PROVE  j \in S
  <2> SUFFICES ASSUME j <= n PROVE w[n - j].sr = v[n - j].sr
    OBVIOUS
  <2>1. CASE j = 0
    <3>1. n - j = n
      BY <1>1, <2>1
    <3> QED BY <1>4, <3>1
  <2>2. CASE j # 0
    <3> DEFINE i == j - 1
    <3>1. i \in Nat /\ i < j /\ i <= n /\ n - i \in 1 .. n /\ n - i - 1 = n - j
      BY <1>1, <2>2
    <3> HIDE DEF i
    <3>2. w[n - i].sr = v[n - i].sr
      BY <1>7, <3>1
    <3> QED BY <1>5, <3>1, <3>2
  <2> QED BY <2>1, <2>2
<1> HIDE DEF S
<1>8. S = Nat
  BY <1>6, <1>7, CompleteInduction
<1>9. \A k \in 0 .. n : w[k].sr = v[k].sr
  <2> SUFFICES ASSUME NEW k \in 0 .. n PROVE w[k].sr = v[k].sr
    OBVIOUS
  <2>1. n - k \in Nat /\ n - k <= n /\ n - (n - k) = k
    BY <1>1
  <2> QED BY <1>8, <2>1 DEF S
<1>10. x = y
  <2>1. 0 \in 0 .. n
    BY <1>1
  <2> QED BY <1>3, <1>9, <2>1 DEF WalkFrom
<1>11. \A k \in 1 .. n : p[k] = q[k]
  <2>1. \A k \in 1 .. n : k \in 0 .. n
    BY <1>1
  <2> QED BY <1>5, <1>9, <2>1
<1>12. p = q
  BY <1>1, <1>11, SeqEqual DEF n
<1> QED BY <1>10, <1>12
-----------------------------------------------------------------------------
(* The walk of an honest path. *)

\* The hashes of the nodes of the log's tree.
Hashes(leaves) == {SliceHash(leaves)[r] : r \in Slices(Len(leaves))}

\* The walk of a path is at slice r of the first n leaves, with the hash of the
\* slice for second root and h for first.
Led(leaves, n, fn, sn, seed, path, r, h) ==
  LET walk == Walk(fn, sn, seed, path)
      end  == walk[Len(path)]
  IN /\ path \in Seq(Hashes(leaves))
     /\ end.fn \in Nat /\ end.sn \in Nat
     /\ At(n, r, end.fn, end.sn)
     /\ end.sr = SliceHash(leaves)[r]
     /\ end.fr = h
     /\ \A k \in 0 .. Len(path) - 1 : walk[k].sn > 0

\* The hash of a slice of a log, from those of its halves.
LEMMA HashOfHalves ==
  ASSUME NEW T, NEW leaves \in Seq(T), NEW n \in 0 .. Len(leaves), NEW r \in Slices(n)
  PROVE  /\ r \in Slices(Len(leaves))
         /\ r[2] = r[1] + 1 => SliceHash(leaves)[r] = leaves[r[2]]
         /\ r[2] # r[1] + 1 =>
              /\ SliceHash(leaves)[r] =
                   Node(SliceHash(leaves)[Left(r)], SliceHash(leaves)[Right(r)])
              /\ Left(r) \in Slices(n) /\ Right(r) \in Slices(n)
              /\ SliceHash(leaves)[Left(r)] \in Hashes(leaves)
              /\ SliceHash(leaves)[Right(r)] \in Hashes(leaves)
<1>1. Len(leaves) \in Nat /\ n \in Nat /\ n <= Len(leaves)
  OBVIOUS
<1>2. \A s \in Slices(n) : s \in Slices(Len(leaves))
  BY <1>1 DEF Slices
<1>3. SliceHash(leaves) =
        [s \in Slices(Len(leaves)) |->
           IF s[2] = s[1] + 1 THEN leaves[s[2]]
           ELSE Node(SliceHash(leaves)[Left(s)], SliceHash(leaves)[Right(s)])]
  BY <1>1, HashDefined
<1>4. SliceHash(leaves)[r] =
        IF r[2] = r[1] + 1 THEN leaves[r[2]]
        ELSE Node(SliceHash(leaves)[Left(r)], SliceHash(leaves)[Right(r)])
  BY <1>2, <1>3
<1>5. r[2] # r[1] + 1 => Left(r) \in Slices(n) /\ Right(r) \in Slices(n)
  BY <1>1, Cut
<1>6. \A s \in Slices(n) : SliceHash(leaves)[s] \in Hashes(leaves)
  BY <1>2 DEF Hashes
<1> QED BY <1>2, <1>4, <1>5, <1>6

\* With a further hash c the walk goes on where the walk was.
LEMMA LedOn ==
  ASSUME NEW leaves, NEW n, NEW fn, NEW sn, NEW seed, NEW path, NEW r, NEW h,
         Led(leaves, n, fn, sn, seed, path, r, h), NEW c \in Hashes(leaves)
  PROVE  LET w == Walk(fn, sn, seed, path)[Len(path)]
             v == Walk(fn, sn, seed, Append(path, c))
         IN /\ Append(path, c) \in Seq(Hashes(leaves)) /\ Len(Append(path, c)) = Len(path) + 1
            /\ v[Len(path) + 1] = Round(w, c)
            /\ w.sn > 0 => \A k \in 0 .. Len(path) : v[k].sn > 0
<1> DEFINE H == Hashes(leaves)
<1>1. path \in Seq(H)
  BY DEF Led
<1> HIDE DEF H
<1>2. /\ Append(path, c) \in Seq(H) /\ Len(Append(path, c)) = Len(path) + 1
      /\ Len(path) \in Nat
  BY <1>1 DEF H
<1>3. /\ \A k \in 0 .. Len(path) :
           Walk(fn, sn, seed, Append(path, c))[k] = Walk(fn, sn, seed, path)[k]
      /\ Walk(fn, sn, seed, Append(path, c))[Len(path) + 1] =
           Round(Walk(fn, sn, seed, path)[Len(path)], c)
  BY <1>1, WalkAppend DEF H
<1>4. \A k \in 0 .. Len(path) - 1 : Walk(fn, sn, seed, path)[k].sn > 0
  BY DEF Led
<1>5. \A k \in 0 .. Len(path) : k = Len(path) \/ k \in 0 .. Len(path) - 1
  BY <1>2
<1> QED BY <1>2, <1>3, <1>4, <1>5 DEF H

\* From a left half, the hash of the right one leads to the slice.
LEMMA LedLeft ==
  ASSUME NEW T, NEW leaves \in Seq(T), NEW n \in 0 .. Len(leaves),
         NEW r \in Slices(n), r[2] # r[1] + 1,
         NEW K \in Powers, NEW x \in Nat, Block(n, r, K, x),
         NEW fn, NEW sn, NEW seed, NEW path, NEW h,
         Led(leaves, n, fn, sn, seed, path, Left(r), h)
  PROVE  Led(leaves, n, fn, sn, seed, Append(path, SliceHash(leaves)[Right(r)]), r, h)
<1> DEFINE w == Walk(fn, sn, seed, path)[Len(path)]
           c == SliceHash(leaves)[Right(r)]
           v == Walk(fn, sn, seed, Append(path, c))
           up == Above(w.fn, w.sn)
<1>1. n \in Nat
  OBVIOUS
<1>2. /\ SliceHash(leaves)[r] = Node(SliceHash(leaves)[Left(r)], c) /\ c \in Hashes(leaves)
  BY HashOfHalves
<1>3. /\ w.fn \in Nat /\ w.sn \in Nat /\ At(n, Left(r), w.fn, w.sn)
      /\ w.sr = SliceHash(leaves)[Left(r)] /\ w.fr = h
  BY DEF Led
<1> HIDE DEF c
<1>4. /\ Append(path, c) \in Seq(Hashes(leaves)) /\ Len(Append(path, c)) = Len(path) + 1
      /\ v[Len(path) + 1] = Round(w, c)
      /\ w.sn > 0 => \A k \in 0 .. Len(path) : v[k].sn > 0
  BY <1>2, LedOn
<1> HIDE DEF w, v
<1>5. /\ ~ HasLeftSibling(w.fn, w.sn) /\ w.sn > 0
      /\ up[1] \in Nat /\ up[2] \in Nat /\ At(n, r, up[1], up[2])
  BY <1>1, <1>3, AboveLeft
<1>6. v[Len(path) + 1] = [fn |-> up[1], sn |-> up[2], fr |-> w.fr, sr |-> Node(w.sr, c)]
  BY <1>4, <1>5 DEF Round
<1>7. Len(path) \in Nat /\ Len(path) + 1 - 1 = Len(path)
  BY DEF Led
<1> HIDE DEF up
<1>8. /\ v[Len(Append(path, c))].fn \in Nat /\ v[Len(Append(path, c))].sn \in Nat
      /\ At(n, r, v[Len(Append(path, c))].fn, v[Len(Append(path, c))].sn)
      /\ v[Len(Append(path, c))].sr = SliceHash(leaves)[r]
      /\ v[Len(Append(path, c))].fr = h
      /\ \A k \in 0 .. Len(Append(path, c)) - 1 : v[k].sn > 0
  BY <1>2, <1>3, <1>4, <1>5, <1>6, <1>7
<1> QED BY <1>4, <1>8 DEF Led, v, c

\* From a right half, the hash of the left one does, before the first root, too.
LEMMA LedRight ==
  ASSUME NEW T, NEW leaves \in Seq(T), NEW n \in 0 .. Len(leaves),
         NEW r \in Slices(n), r[2] # r[1] + 1,
         NEW K \in Powers, NEW x \in Nat, Block(n, r, K, x),
         NEW fn, NEW sn, NEW seed, NEW path, NEW h,
         Led(leaves, n, fn, sn, seed, path, Right(r), h)
  PROVE  Led(leaves, n, fn, sn, seed, Append(path, SliceHash(leaves)[Left(r)]), r,
             Node(SliceHash(leaves)[Left(r)], h))
<1> DEFINE w == Walk(fn, sn, seed, path)[Len(path)]
           c == SliceHash(leaves)[Left(r)]
           v == Walk(fn, sn, seed, Append(path, c))
           up == Above(w.fn, w.sn)
<1>1. n \in Nat
  OBVIOUS
<1>2. /\ SliceHash(leaves)[r] = Node(c, SliceHash(leaves)[Right(r)]) /\ c \in Hashes(leaves)
  BY HashOfHalves
<1>3. /\ w.fn \in Nat /\ w.sn \in Nat /\ At(n, Right(r), w.fn, w.sn)
      /\ w.sr = SliceHash(leaves)[Right(r)] /\ w.fr = h
  BY DEF Led
<1> HIDE DEF c
<1>4. /\ Append(path, c) \in Seq(Hashes(leaves)) /\ Len(Append(path, c)) = Len(path) + 1
      /\ v[Len(path) + 1] = Round(w, c)
      /\ w.sn > 0 => \A k \in 0 .. Len(path) : v[k].sn > 0
  BY <1>2, LedOn
<1> HIDE DEF w, v
<1>5. /\ HasLeftSibling(w.fn, w.sn) /\ w.sn > 0
      /\ up[1] \in Nat /\ up[2] \in Nat /\ At(n, r, up[1], up[2])
  BY <1>1, <1>3, AboveRight
<1>6. v[Len(path) + 1] = [fn |-> up[1], sn |-> up[2], fr |-> Node(c, w.fr), sr |-> Node(c, w.sr)]
  BY <1>4, <1>5 DEF Round
<1>7. Len(path) \in Nat /\ Len(path) + 1 - 1 = Len(path)
  BY DEF Led
<1> HIDE DEF up
<1>8. /\ v[Len(Append(path, c))].fn \in Nat /\ v[Len(Append(path, c))].sn \in Nat
      /\ At(n, r, v[Len(Append(path, c))].fn, v[Len(Append(path, c))].sn)
      /\ v[Len(Append(path, c))].sr = SliceHash(leaves)[r]
      /\ v[Len(Append(path, c))].fr = Node(c, h)
      /\ \A k \in 0 .. Len(Append(path, c)) - 1 : v[k].sn > 0
  BY <1>2, <1>3, <1>4, <1>5, <1>6, <1>7
<1> QED BY <1>4, <1>8 DEF Led, v, c

\* At the whole tree the walk has arrived.
LEMMA LedWhole ==
  ASSUME NEW leaves, NEW n \in Nat, n >= 1, NEW fn, NEW sn, NEW seed, NEW path, NEW h,
         Led(leaves, n, fn, sn, seed, path, <<0, n>>, h)
  PROVE  /\ Arrives(fn, sn, seed, path)
         /\ Walk(fn, sn, seed, path)[Len(path)].fr = h
         /\ Walk(fn, sn, seed, path)[Len(path)].sr = SliceHash(leaves)[<<0, n>>]
<1> DEFINE end == Walk(fn, sn, seed, path)[Len(path)]
<1>1. PICK K \in Powers : Block(n, <<0, n>>, K, end.fn) /\ Within(n - 1, K, end.sn)
  BY DEF Led, At
<1>2. K \in Nat /\ K >= 1 /\ n <= K
  BY <1>1, PowerPositive DEF Block
<1>3. end.sn \in Nat /\ end.sr = SliceHash(leaves)[<<0, n>>] /\ end.fr = h
  BY DEF Led
<1>4. end.sn = 0
  <2> DEFINE y == end.sn
  <2>1. y \in Nat /\ y * K <= n - 1
    BY <1>1, <1>3 DEF Within
  <2> HIDE DEF y
  <2>2. y >= 1 => y * K >= K
    BY <1>2, <2>1
  <2>3. y * K \in Nat
    BY <1>2, <2>1
  <2>4. y = 0
    BY <1>2, <2>1, <2>2, <2>3
  <2> QED BY <2>4 DEF y
<1>5. Arrives(fn, sn, seed, path)
  BY <1>4 DEF Led, Arrives
<1> QED BY <1>3, <1>5
-----------------------------------------------------------------------------
(* Inclusion proofs. *)

\* The audit path of a leaf leads from its place to the root of the tree.
LEMMA InclusionLed ==
  ASSUME NEW T, NEW leaves \in Seq(T), NEW index \in 0 .. Len(leaves) - 1
  PROVE  \E h : Led(leaves, Len(leaves), index, Len(leaves) - 1, leaves[index + 1],
                    InclusionAuditPath(index, leaves), <<0, Len(leaves)>>, h)
<1> DEFINE n == Len(leaves)
           paths == AuditPaths(index, leaves)
           seed == leaves[index + 1]
           Goal(r) == \E h : Led(leaves, n, index, n - 1, seed, paths[r], r, h)
           Chosen(r) == /\ r[1] <= index /\ index < r[2]
                        /\ \E K \in Powers, x \in Nat : Block(n, r, K, x)
           S == {r \in Slices(n) : Chosen(r) => Goal(r)}
<1>1. n \in Nat /\ n >= 1 /\ n \in 0 .. Len(leaves)
  OBVIOUS
<1>2. /\ InclusionAuditPath(index, leaves) = paths[<<0, n>>]
      /\ \A r \in Slices(n) : paths[r] = PathStep(paths, leaves, index, r)
  BY <1>1, AuditPathDefined
<1> HIDE DEF paths
<1>3. ASSUME NEW r \in Slices(n), Chosen(r), r[2] = r[1] + 1 PROVE Goal(r)
  <2>1. r[1] = index /\ r[2] = index + 1
    BY <1>1, <1>3 DEF Slices
  <2>2. paths[r] = <<>>
    BY <1>2, <1>3 DEF PathStep
  <2>3. SliceHash(leaves)[r] = seed
    BY <1>1, <1>3, <2>1, HashOfHalves
  <2>4. Block(n, r, 1, index) /\ Within(n - 1, 1, n - 1)
    BY <1>1, <2>1 DEF Block, Within
  <2>5. At(n, r, index, n - 1)
    BY <2>4, PowerOne DEF At
  <2>6. <<>> \in Seq(Hashes(leaves)) /\ Len(<<>>) = 0
    OBVIOUS
  <2>7. Walk(index, n - 1, seed, <<>>)[0] = WalkFrom(index, n - 1, seed)
    BY EmptyWalk
  <2>8. Led(leaves, n, index, n - 1, seed, <<>>, r, seed)
    <3> HIDE DEF n, seed
    <3>1. \A k \in 0 .. 0 - 1 : FALSE
      OBVIOUS
    <3> QED BY <1>1, <2>3, <2>5, <2>6, <2>7, <3>1 DEF Led, WalkFrom
  <2> QED BY <2>2, <2>8
<1>4. ASSUME NEW r \in Slices(n), Chosen(r), r[2] # r[1] + 1,
             Chosen(Left(r)) => Goal(Left(r)), Chosen(Right(r)) => Goal(Right(r))
      PROVE  Goal(r)
  <2>1. PICK K \in Powers, x \in Nat : Block(n, r, K, x)
    BY <1>4
  <2>2. PICK k, j, c \in Powers :
          Block(n, Left(r), k, 2 * x) /\ Block(n, Right(r), j, (2 * x + 1) * c)
    BY <1>1, <1>4, <2>1, HalfBlocks
  <2>3. 2 * x \in Nat /\ (2 * x + 1) * c \in Nat
    BY PowerPositive
  <2>4. /\ Middle(r) \in Nat
        /\ Left(r)[1] = r[1] /\ Left(r)[2] = Middle(r)
        /\ Right(r)[1] = Middle(r) /\ Right(r)[2] = r[2]
    BY <1>1, <1>4, Cut
  <2>5. CASE index < Middle(r)
    <3>1. Chosen(Left(r))
      BY <1>4, <2>2, <2>3, <2>4, <2>5
    <3>2. PICK h : Led(leaves, n, index, n - 1, seed, paths[Left(r)], Left(r), h)
      BY <1>4, <3>1
    <3>3. paths[r] = Append(paths[Left(r)], SliceHash(leaves)[Right(r)])
      BY <1>2, <1>4, <2>5 DEF PathStep
    <3>4. Led(leaves, n, index, n - 1, seed, paths[r], r, h)
      BY <1>1, <1>4, <2>1, <3>2, <3>3, LedLeft
    <3> QED BY <3>4
  <2>6. CASE ~ (index < Middle(r))
    <3>1. Chosen(Right(r))
      BY <1>4, <2>2, <2>3, <2>4, <2>6
    <3>2. PICK h : Led(leaves, n, index, n - 1, seed, paths[Right(r)], Right(r), h)
      BY <1>4, <3>1
    <3>3. paths[r] = Append(paths[Right(r)], SliceHash(leaves)[Left(r)])
      BY <1>2, <1>4, <2>6 DEF PathStep
    <3>4. Led(leaves, n, index, n - 1, seed, paths[r], r, Node(SliceHash(leaves)[Left(r)], h))
      BY <1>1, <1>4, <2>1, <3>2, <3>3, LedRight
    <3> QED BY <3>4
  <2> QED BY <2>5, <2>6
<1>5. \A r \in Slices(n) : (r[2] # r[1] + 1 => Left(r) \in S /\ Right(r) \in S) => r \in S
  <2> HIDE DEF Goal, Chosen
  <2> QED BY <1>3, <1>4
<1>6. S = Slices(n)
  <2>1. S \in SUBSET Slices(n)
    OBVIOUS
  <2> HIDE DEF S, n
  <2> QED BY <1>1, <1>5, <2>1, SliceInduction
<1>7. <<0, n>> \in Slices(n) /\ Chosen(<<0, n>>)
  BY <1>1, WholeBlock
<1>8. Goal(<<0, n>>)
  <2> HIDE DEF Goal, Chosen
  <2> QED BY <1>6, <1>7
<1> QED BY <1>2, <1>8

\* The root of a log is the hash of the slice that holds all of it.
LEMMA RootHash ==
  ASSUME NEW T, NEW leaves \in Seq(T), leaves # <<>>
  PROVE  MerkleTreeHash(leaves) = SliceHash(leaves)[<<0, Len(leaves)>>]
BY DEF MerkleTreeHash

\* A path proves a leaf at a place of a tree just when the leaf is the one there
\* and the path is its audit path: inclusion_audit_path is accepted, and nothing
\* else is (ct.py:77-133).
THEOREM InclusionVerified ==
  ASSUME NEW T, NEW leaves \in Seq(T), leaves # <<>>,
         NEW claimed, NEW index \in Int, NEW U, NEW path \in Seq(U)
  PROVE  VerifyInclusionPath(claimed, index, Len(leaves), path, MerkleTreeHash(leaves)) <=>
           /\ index \in 0 .. Len(leaves) - 1
           /\ claimed = leaves[index + 1]
           /\ path = InclusionAuditPath(index, leaves)
<1> DEFINE n == Len(leaves)
           root == MerkleTreeHash(leaves)
           honest == InclusionAuditPath(index, leaves)
           H == Hashes(leaves)
<1>1. n \in Nat /\ n >= 1
  OBVIOUS
<1>2. root = SliceHash(leaves)[<<0, n>>]
  BY RootHash
<1>3. VerifyInclusionPath(claimed, index, n, path, root) =>
        index \in 0 .. n - 1 /\ Arrives(index, n - 1, claimed, path)
          /\ Walk(index, n - 1, claimed, path)[Len(path)].sr = root
  BY <1>1, PathRootsArrive DEF VerifyInclusionPath
<1>4. ASSUME index \in 0 .. n - 1
      PROVE  /\ honest \in Seq(H)
             /\ Arrives(index, n - 1, leaves[index + 1], honest)
             /\ Walk(index, n - 1, leaves[index + 1], honest)[Len(honest)].sr = root
             /\ VerifyInclusionPath(leaves[index + 1], index, n, honest, root)
  <2>1. PICK h : Led(leaves, n, index, n - 1, leaves[index + 1], honest, <<0, n>>, h)
    BY <1>4, InclusionLed
  <2>2. honest \in Seq(H)
    BY <2>1 DEF Led
  <2> HIDE DEF honest, root
  <2>3. Arrives(index, n - 1, leaves[index + 1], honest)
    BY <1>1, <2>1, LedWhole
  <2>4. Walk(index, n - 1, leaves[index + 1], honest)[Len(honest)].sr = root
    BY <1>1, <1>2, <2>1, LedWhole
  <2>5. VerifyInclusionPath(leaves[index + 1], index, n, honest, root)
    BY <1>1, <1>4, <2>3, <2>4, PathRootsArrive DEF VerifyInclusionPath
  <2> QED BY <2>2, <2>3, <2>4, <2>5
<1> HIDE DEF n, root, honest, H
<1>5. ASSUME VerifyInclusionPath(claimed, index, n, path, root)
      PROVE  claimed = leaves[index + 1] /\ path = honest
  <2> DEFINE V == U \cup H
  <2>1. index \in 0 .. n - 1 /\ Arrives(index, n - 1, claimed, path)
          /\ Walk(index, n - 1, claimed, path)[Len(path)].sr = root
    BY <1>3, <1>5
  <2>2. /\ honest \in Seq(H) /\ Arrives(index, n - 1, leaves[index + 1], honest)
        /\ Walk(index, n - 1, leaves[index + 1], honest)[Len(honest)].sr = root
    BY <1>4, <2>1
  <2>3. path \in Seq(V) /\ honest \in Seq(V)
    BY <2>2
  <2> HIDE DEF V
  <2> QED BY <2>1, <2>2, <2>3, OnePath
<1> QED BY <1>3, <1>4, <1>5 DEF n, root, honest
-----------------------------------------------------------------------------
(* Consistency proofs. *)

\* The path with the hash it starts from: the root of the old tree goes before a
\* proof that leaves it out.
Seeded(m, leaves, n, r) ==
  IF r[1] = 0 /\ m \in Powers
  THEN <<SliceHash(leaves)[<<0, m>>]>> \o Subproofs(m, n, leaves)[r]
  ELSE Subproofs(m, n, leaves)[r]

\* The path p starts from a hash and leads to slice r, and to its first leaves up
\* to m for first root.
Leads(m, leaves, n, p, r) ==
  /\ Subproofs(m, n, leaves)[r] \in Seq(Hashes(leaves))
  /\ p \in Seq(Hashes(leaves)) /\ p # <<>>
  /\ Led(leaves, n, Halve(m - 1, n - 1, 1)[1], Halve(m - 1, n - 1, 1)[2], Head(p), Tail(p), r,
         SliceHash(leaves)[<<r[1], m>>])

\* A path that gets longer at its end has the same beginning.
LEMMA HeadTail ==
  ASSUME NEW H, NEW p \in Seq(H), p # <<>>, NEW c \in H
  PROVE  /\ Append(p, c) \in Seq(H) /\ Append(p, c) # <<>>
         /\ Head(Append(p, c)) = Head(p) /\ Tail(Append(p, c)) = Append(Tail(p), c)
         /\ Head(p) \in H /\ Tail(p) \in Seq(H)
<1>1. Append(p, c) \in Seq(H) /\ Append(p, c) # <<>> /\ Head(p) \in H /\ Tail(p) \in Seq(H)
  OBVIOUS
<1>2. Head(Append(p, c)) = Head(p)
  OBVIOUS
<1>3. Tail(Append(p, c)) \in Seq(H) /\ Append(Tail(p), c) \in Seq(H)
  OBVIOUS
<1>4. Len(Tail(Append(p, c))) = Len(p) /\ Len(Append(Tail(p), c)) = Len(p)
  OBVIOUS
<1>5. \A i \in 1 .. Len(p) : Tail(Append(p, c))[i] = Append(Tail(p), c)[i]
  OBVIOUS
<1>6. Tail(Append(p, c)) = Append(Tail(p), c)
  BY <1>3, <1>4, <1>5, SeqEqual
<1> QED BY <1>1, <1>2, <1>6

\* A path is its first hash and the rest.
LEMMA HeadTailEqual ==
  ASSUME NEW V, NEW p \in Seq(V), NEW q \in Seq(V), p # <<>>, q # <<>>,
         Head(p) = Head(q), Tail(p) = Tail(q)
  PROVE  p = q
<1>1. Len(p) \in Nat /\ Len(p) >= 1 /\ Len(q) \in Nat /\ Len(q) >= 1
  OBVIOUS
<1>2. Len(Tail(p)) = Len(p) - 1 /\ Len(Tail(q)) = Len(q) - 1
  OBVIOUS
<1>3. Len(p) = Len(q)
  <2>1. Len(Tail(p)) = Len(Tail(q))
    BY Zenon
  <2>2. Len(p) - 1 = Len(q) - 1
    BY <1>2, <2>1
  <2> QED BY <1>1, <2>2
<1>4. ASSUME NEW i \in 1 .. Len(p) PROVE p[i] = q[i]
  <2>1. CASE i = 1
    <3>1. p[1] = Head(p) /\ q[1] = Head(q)
      OBVIOUS
    <3> QED BY <2>1, <3>1
  <2>2. CASE i # 1
    <3>1. i - 1 \in 1 .. Len(p) - 1 /\ i - 1 + 1 = i
      BY <1>1, <2>2
    <3>2. \A j \in 1 .. Len(p) - 1 : Tail(p)[j] = p[j + 1]
      OBVIOUS
    <3>3. \A j \in 1 .. Len(q) - 1 : Tail(q)[j] = q[j + 1]
      OBVIOUS
    <3>4. Tail(p)[i - 1] = p[i] /\ Tail(q)[i - 1] = q[i]
      BY <1>3, <3>1, <3>2, <3>3
    <3> QED BY <3>4
  <2> QED BY <2>1, <2>2
<1> QED BY <1>3, <1>4, SeqEqual

\* Putting a hash before a path and after it commute.
LEMMA BeforeAppend ==
  ASSUME NEW H, NEW a \in H, NEW p \in Seq(H), NEW c \in H
  PROVE  <<a>> \o Append(p, c) = Append(<<a>> \o p, c)
<1>1. <<a>> \o Append(p, c) \in Seq(H) /\ Append(<<a>> \o p, c) \in Seq(H)
  OBVIOUS
<1>2. Len(<<a>> \o Append(p, c)) = Len(p) + 2 /\ Len(Append(<<a>> \o p, c)) = Len(p) + 2
  OBVIOUS
<1>3. \A i \in 1 .. Len(p) + 2 : (<<a>> \o Append(p, c))[i] = Append(<<a>> \o p, c)[i]
  OBVIOUS
<1> QED BY <1>1, <1>2, <1>3, SeqEqual

\* A path with a hash put before it begins with that.
LEMMA Before ==
  ASSUME NEW H, NEW a, NEW p \in Seq(H)
  PROVE  /\ <<a>> \o p # <<>> /\ Head(<<a>> \o p) = a /\ Tail(<<a>> \o p) = p
<1>1. <<a>> \o p \in Seq({a} \cup H) /\ <<a>> \o p # <<>> /\ Head(<<a>> \o p) = a
  OBVIOUS
<1>2. Tail(<<a>> \o p) \in Seq({a} \cup H) /\ p \in Seq({a} \cup H)
  OBVIOUS
<1>3. Len(Tail(<<a>> \o p)) = Len(p) /\ \A i \in 1 .. Len(p) : Tail(<<a>> \o p)[i] = p[i]
  OBVIOUS
<1>4. Tail(<<a>> \o p) = p
  BY <1>2, <1>3, SeqEqual
<1> QED BY <1>1, <1>4

\* A slice that is cut before its end is cut at the same place.
LEMMA ShorterCut ==
  ASSUME NEW n \in Nat, NEW r \in Slices(n), r[2] # r[1] + 1,
         NEW m \in Nat, Middle(r) < m, m < r[2]
  PROVE  /\ <<r[1], m>> \in Slices(n) /\ m # r[1] + 1
         /\ Left(<<r[1], m>>) = Left(r) /\ Right(<<r[1], m>>) = <<Middle(r), m>>
<1> DEFINE k == LargestPowerOfTwoBelow(r[2] - r[1])
           l == LargestPowerOfTwoBelow(m - r[1])
           s == <<r[1], m>>
<1>1. r[1] \in 0 .. n /\ r[2] \in 0 .. n
  BY DEF Slices
<1>2. /\ k \in Powers /\ k < r[2] - r[1] /\ r[2] - r[1] <= 2 * k
      /\ Middle(r) \in Nat /\ Middle(r) = r[1] + k /\ r[1] < Middle(r)
      /\ Left(r)[1] = r[1]
  BY Cut
<1>3. s \in Slices(n) /\ s[1] = r[1] /\ s[2] = m /\ m # r[1] + 1
  BY <1>1, <1>2 DEF Slices
<1>4. m - r[1] \in Nat /\ m - r[1] >= 2
  BY <1>1, <1>2
<1>5. l \in Powers /\ l < m - r[1] /\ m - r[1] <= 2 * l
  BY <1>4, LargestPower
<1>6. Middle(s) = r[1] + l
  BY <1>3 DEF Middle
<1> HIDE DEF k, l, s
<1>7. k < m - r[1] /\ m - r[1] <= 2 * k
  <2>1. k \in Nat
    BY <1>2, PowerPositive
  <2> QED BY <1>1, <1>2, <2>1
<1>8. k = l
  BY <1>2, <1>4, <1>5, <1>7, PowerUnique
<1>9. Middle(s) = Middle(r)
  BY <1>2, <1>6, <1>8
<1>10. Left(s) = Left(r) /\ Right(s) = <<Middle(r), m>>
  BY <1>3, <1>9 DEF Left, Right
<1> QED BY <1>3, <1>10 DEF s

\* The slice that the old tree ends with.
LEMMA ProofStart ==
  ASSUME NEW T, NEW leaves \in Seq(T), NEW n \in 0 .. Len(leaves),
         NEW m \in 1 .. n - 1, NEW r \in Slices(n), r[2] = m,
         NEW K \in Powers, NEW x \in Nat, Block(n, r, K, x), ~ Odd(x)
  PROVE  Leads(m, leaves, n, Seeded(m, leaves, n, r), r)
<1> DEFINE H == Hashes(leaves)
           c == SliceHash(leaves)[r]
           start == Halve(m - 1, n - 1, 1)
<1>1. /\ n \in Nat /\ m \in Nat /\ m < n /\ m - 1 \in Nat /\ n - 1 \in Nat
      /\ r[1] \in Nat /\ r[1] < m /\ r = <<r[1], m>>
  BY DEF Slices
<1>2. K \in Nat /\ K >= 1
  BY PowerPositive
<1>3. r[1] = x * K /\ m = r[1] + K
  BY <1>1 DEF Block
<1>4. PICK q \in Nat : Within(n - 1, K, q)
  BY <1>1, <1>2, Quotient
<1>5. Multiple(m - 1 + 1, K, x + 1)
  BY <1>1, <1>2, <1>3 DEF Multiple
<1>6. start = <<x, q>>
  BY <1>1, <1>4, <1>5, Stripped
<1>7. At(n, r, x, q)
  BY <1>4 DEF At
<1>8. c \in H
  BY HashOfHalves DEF Hashes
<1>9. Seeded(m, leaves, n, r) = <<c>> /\ Subproofs(m, n, leaves)[r] \in Seq(H)
  <2>1. r \in Holding(n, m)
    BY <1>1 DEF Holding
  <2>2. Subproofs(m, n, leaves)[r] = IF r[1] = 0 THEN <<>> ELSE <<c>>
    <3>1. Subproofs(m, n, leaves)[r] = ProofStep(Subproofs(m, n, leaves), leaves, m, r)
      <4> HIDE DEF H, c, start
      <4> QED BY <1>1, <2>1, SubproofAt
    <3> QED BY <3>1 DEF ProofStep
  <2>3. r[1] = 0 => m \in Powers
    BY <1>2, <1>3
  <2> HIDE DEF c
  <2>4. CASE r[1] = 0
    <3>1. Seeded(m, leaves, n, r) = <<SliceHash(leaves)[<<0, m>>]>> \o <<>>
      BY <2>2, <2>3, <2>4 DEF Seeded
    <3>2. SliceHash(leaves)[<<0, m>>] = c
      BY <1>1, <2>4 DEF c
    <3> QED BY <2>2, <2>4, <3>1, <3>2
  <2>5. CASE r[1] # 0
    BY <1>8, <2>2, <2>5 DEF Seeded
  <2> QED BY <2>4, <2>5
<1>10. Led(leaves, n, x, q, c, <<>>, r, c)
  <2>1. Walk(x, q, c, <<>>)[0] = WalkFrom(x, q, c)
    BY EmptyWalk
  <2>2. <<>> \in Seq(Hashes(leaves)) /\ Len(<<>>) = 0 /\ \A k \in 0 .. 0 - 1 : FALSE
    OBVIOUS
  <2> QED BY <1>7, <2>1, <2>2 DEF Led, WalkFrom
<1>11. <<c>> \in Seq(H) /\ <<c>> # <<>> /\ Head(<<c>>) = c /\ Tail(<<c>>) = <<>>
  BY <1>8
<1>12. SliceHash(leaves)[<<r[1], m>>] = c
  BY <1>1
<1> HIDE DEF start, c
<1>13. start[1] = x /\ start[2] = q
  BY <1>6
<1> QED BY <1>9, <1>10, <1>11, <1>12, <1>13 DEF Leads, start, H
\* A consistency proof leads from the old tree's end to the root of the new.
LEMMA ProofLed ==
  ASSUME NEW T, NEW leaves \in Seq(T), NEW n \in 0 .. Len(leaves), NEW m \in 1 .. n - 1
  PROVE  Leads(m, leaves, n, Seeded(m, leaves, n, <<0, n>>), <<0, n>>)
<1> DEFINE H == Hashes(leaves)
           P(r) == Seeded(m, leaves, n, r)
           proofs == Subproofs(m, n, leaves)
           Goal(r) == Leads(m, leaves, n, P(r), r)
           Chosen(r) == /\ r[1] < m /\ m <= r[2]
                        /\ \E K \in Powers, x \in Nat :
                             Block(n, r, K, x) /\ (r[2] = m => ~ Odd(x))
           S == {r \in Slices(n) : Chosen(r) => Goal(r)}
<1>1. n \in Nat /\ m \in Nat /\ 1 <= m /\ m < n
  OBVIOUS
<1>2. ASSUME NEW r \in Slices(n), Chosen(r), r[2] # m
      PROVE  r[2] # r[1] + 1 /\ proofs[r] = ProofStep(proofs, leaves, m, r)
  <2>1. r \in Holding(n, m)
    BY <1>1, <1>2 DEF Holding, Slices
  <2>2. r[2] # r[1] + 1
    BY <1>1, <1>2, <2>1, HoldingHalf
  <2>3. proofs[r] = ProofStep(proofs, leaves, m, r)
    BY <1>1, <2>1, SubproofAt
  <2> QED BY <2>2, <2>3
<1>3. ASSUME NEW r \in Slices(n), Chosen(r), r[2] = m PROVE Goal(r)
  BY <1>3, ProofStart
<1>4. ASSUME NEW r \in Slices(n), Chosen(r), r[2] # m,
             Chosen(Left(r)) => Goal(Left(r)), Chosen(Right(r)) => Goal(Right(r))
      PROVE  Goal(r)
  <2>1. PICK K \in Powers, x \in Nat : Block(n, r, K, x)
    BY <1>4
  <2>2. r[2] # r[1] + 1 /\ proofs[r] = ProofStep(proofs, leaves, m, r)
    BY <1>2, <1>4
  <2>3. PICK k, j, c \in Powers :
          Block(n, Left(r), k, 2 * x) /\ Block(n, Right(r), j, (2 * x + 1) * c)
    BY <1>1, <2>1, <2>2, HalfBlocks
  <2>4. 2 * x \in Nat /\ ~ Odd(2 * x) /\ (2 * x + 1) * c \in Nat
    BY PowerPositive DEF Odd
  <2>5. /\ Middle(r) \in Nat /\ r[1] < Middle(r) /\ r[1] \in Nat /\ r[2] \in Nat
        /\ Left(r) \in Slices(n) /\ Left(r)[1] = r[1] /\ Left(r)[2] = Middle(r)
        /\ Right(r) \in Slices(n) /\ Right(r)[1] = Middle(r) /\ Right(r)[2] = r[2]
    BY <1>1, <2>2, Cut DEF Slices
  <2>6. SliceHash(leaves)[Left(r)] \in H /\ SliceHash(leaves)[Right(r)] \in H
    BY <2>2, HashOfHalves
  <2> DEFINE a == Halve(m - 1, n - 1, 1)[1]
             b == Halve(m - 1, n - 1, 1)[2]
  <2>7. CASE m <= Middle(r)
    <3> DEFINE d == SliceHash(leaves)[Right(r)]
               l == Left(r)
               p == P(l)
               h == SliceHash(leaves)[<<r[1], m>>]
    <3>1. Chosen(l)
      BY <1>4, <2>3, <2>4, <2>5, <2>7
    <3>2. Leads(m, leaves, n, p, l)
      BY <1>4, <3>1
    <3>3. proofs[r] = Append(proofs[l], d)
      BY <1>4, <2>2, <2>7 DEF ProofStep
    <3> HIDE DEF p, h, d, a, b
    <3>4. /\ p \in Seq(H) /\ p # <<>> /\ Led(leaves, n, a, b, Head(p), Tail(p), Left(r), h)
          /\ proofs[l] \in Seq(H)
      BY <2>5, <3>2 DEF Leads, h, a, b
    <3>5. P(r) = Append(p, d)
      <4>1. CASE r[1] = 0 /\ m \in Powers
        <5> DEFINE e == SliceHash(leaves)[<<0, m>>]
        <5>1. P(r) = <<e>> \o proofs[r] /\ p = <<e>> \o proofs[l]
          BY <2>5, <4>1 DEF Seeded, p
        <5>2. e \in H
          <6>1. <<0, m>> \in Slices(Len(leaves))
            BY <1>1 DEF Slices
          <6> QED BY <6>1 DEF Hashes
        <5> HIDE DEF e, proofs, l, H
        <5>3. d \in H
          BY <2>6 DEF d, H
        <5> QED BY <3>3, <3>4, <5>1, <5>2, <5>3, BeforeAppend
      <4>2. CASE ~ (r[1] = 0 /\ m \in Powers)
        <5>1. P(r) = proofs[r] /\ p = proofs[l]
          BY <2>5, <4>2 DEF Seeded, p
        <5> QED BY <3>3, <5>1
      <4> QED BY <4>1, <4>2
    <3>6. d \in H
      BY <2>6 DEF d
    <3>7. /\ Append(p, d) \in Seq(H) /\ Append(p, d) # <<>>
          /\ Head(Append(p, d)) = Head(p) /\ Tail(Append(p, d)) = Append(Tail(p), d)
      BY <3>4, <3>6, HeadTail
    <3>8. Led(leaves, n, a, b, Head(p), Append(Tail(p), d), r, h)
      BY <2>1, <2>2, <3>4, LedLeft DEF d
    <3>9. proofs[r] \in Seq(H)
      BY <3>3, <3>4, <3>6
    <3> QED BY <3>5, <3>7, <3>8, <3>9 DEF Leads, a, b, h
  <2>8. CASE ~ (m <= Middle(r))
    <3> DEFINE d == SliceHash(leaves)[Left(r)]
               u == Right(r)
               p == P(u)
               g == SliceHash(leaves)[<<Middle(r), m>>]
               h == SliceHash(leaves)[<<r[1], m>>]
    <3>1. Chosen(u)
      BY <1>1, <1>4, <2>3, <2>4, <2>5, <2>8
    <3>2. Leads(m, leaves, n, p, u)
      BY <1>4, <3>1
    <3>3. proofs[r] = Append(proofs[u], d)
      BY <1>4, <2>2, <2>8 DEF ProofStep
    <3>4. /\ <<r[1], m>> \in Slices(n) /\ m # r[1] + 1
          /\ Left(<<r[1], m>>) = Left(r) /\ Right(<<r[1], m>>) = <<Middle(r), m>>
      <4>1. m < r[2] /\ Middle(r) < m
        BY <1>1, <1>4, <2>5, <2>8
      <4> QED BY <1>1, <2>2, <4>1, ShorterCut
    <3>5. h = Node(d, g)
      <4> DEFINE s == <<r[1], m>>
      <4>1. s \in Slices(n) /\ s[2] # s[1] + 1 /\ Left(s) = Left(r) /\ Right(s) = <<Middle(r), m>>
        BY <3>4
      <4>2. h = SliceHash(leaves)[s]
        OBVIOUS
      <4> HIDE DEF s, h
      <4>3. h = Node(SliceHash(leaves)[Left(s)], SliceHash(leaves)[Right(s)])
        BY <4>1, <4>2, HashOfHalves
      <4> QED BY <4>1, <4>3
    <3>6. P(r) = proofs[r] /\ p = proofs[u]
      <4>1. ~ (r[1] = 0 /\ m \in Powers)
        <5> SUFFICES ASSUME r[1] = 0, m \in Powers PROVE FALSE
          OBVIOUS
        <5> DEFINE w == LargestPowerOfTwoBelow(r[2] - r[1])
        <5>1. w \in Powers /\ r[2] - r[1] <= 2 * w /\ Middle(r) = r[1] + w
          BY <1>1, <2>2, Cut
        <5> HIDE DEF w
        <5>2. w \in Nat
          BY <5>1, PowerPositive
        <5>3. w < m /\ m < 2 * w
          BY <1>1, <1>4, <2>5, <2>8, <5>1, <5>2
        <5> QED BY <1>1, <5>1, <5>2, <5>3, PowerGapLess
      <4>2. u[1] # 0
        BY <2>5
      <4> QED BY <4>1, <4>2 DEF Seeded
    <3> HIDE DEF p, g, h, d, a, b
    <3>7. /\ p \in Seq(H) /\ p # <<>> /\ Led(leaves, n, a, b, Head(p), Tail(p), Right(r), g)
          /\ proofs[u] \in Seq(H)
      BY <2>5, <3>2 DEF Leads, g, a, b
    <3>8. P(r) = Append(p, d)
      BY <3>3, <3>6
    <3>9. d \in H
      BY <2>6 DEF d
    <3>10. /\ Append(p, d) \in Seq(H) /\ Append(p, d) # <<>>
           /\ Head(Append(p, d)) = Head(p) /\ Tail(Append(p, d)) = Append(Tail(p), d)
      BY <3>7, <3>9, HeadTail
    <3>11. Led(leaves, n, a, b, Head(p), Append(Tail(p), d), r, Node(d, g))
      BY <2>1, <2>2, <3>7, LedRight DEF d
    <3>12. proofs[r] \in Seq(H)
      BY <3>3, <3>7, <3>9
    <3> QED BY <3>5, <3>8, <3>10, <3>11, <3>12 DEF Leads, a, b, h
  <2> QED BY <2>7, <2>8
<1>5. \A r \in Slices(n) : (r[2] # r[1] + 1 => Left(r) \in S /\ Right(r) \in S) => r \in S
  <2> HIDE DEF Goal
  <2> SUFFICES ASSUME NEW r \in Slices(n), Chosen(r),
                      r[2] # r[1] + 1 => Left(r) \in S /\ Right(r) \in S
               PROVE  Goal(r)
    OBVIOUS
  <2>1. CASE r[2] = m
    BY <1>3, <2>1
  <2>2. CASE r[2] # m
    <3>1. r[2] # r[1] + 1
      BY <1>2, <2>2
    <3> HIDE DEF Chosen
    <3> QED BY <1>4, <2>2, <3>1
  <2> QED BY <2>1, <2>2
<1>6. S = Slices(n)
  <2>1. S \in SUBSET Slices(n)
    OBVIOUS
  <2> HIDE DEF S
  <2> QED BY <1>1, <1>5, <2>1, SliceInduction
<1>7. <<0, n>> \in Slices(n) /\ Chosen(<<0, n>>)
  BY <1>1, WholeBlock
<1>8. Goal(<<0, n>>)
  <2> HIDE DEF Goal, Chosen
  <2> QED BY <1>6, <1>7
<1> QED BY <1>8
\* Logs that agree up to leaf n have the same slices there, and only they do.
LEMMA HashOfLeaves ==
  ASSUME NEW T, NEW leaves \in Seq(T), NEW other \in Seq(T), NEW n \in Nat,
         n <= Len(leaves), n <= Len(other)
  PROVE  \A r \in Slices(n) :
           SliceHash(leaves)[r] = SliceHash(other)[r] <=>
             \A k \in r[1] + 1 .. r[2] : leaves[k] = other[k]
<1> DEFINE f == SliceHash(leaves)
           g == SliceHash(other)
           Agree(r) == \A k \in r[1] + 1 .. r[2] : leaves[k] = other[k]
           S == {r \in Slices(n) : f[r] = g[r] <=> Agree(r)}
<1>1. /\ n \in 0 .. Len(leaves) /\ n \in 0 .. Len(other)
      /\ \A r \in Slices(n) : r[1] \in Nat /\ r[2] \in Nat /\ r[1] < r[2]
  BY DEF Slices
<1>2. ASSUME NEW r \in Slices(n), r[2] # r[1] + 1 => Left(r) \in S /\ Right(r) \in S
      PROVE  f[r] = g[r] <=> Agree(r)
  <2>1. CASE r[2] = r[1] + 1
    <3>1. f[r] = leaves[r[2]] /\ g[r] = other[r[2]]
      BY <1>1, <2>1, HashOfHalves
    <3>2. \A k \in r[1] + 1 .. r[2] : k = r[2]
      BY <1>1, <2>1
    <3>3. r[2] \in r[1] + 1 .. r[2]
      BY <1>1, <2>1
    <3> QED BY <3>1, <3>2, <3>3
  <2>2. CASE r[2] # r[1] + 1
    <3>1. f[r] = Node(f[Left(r)], f[Right(r)]) /\ g[r] = Node(g[Left(r)], g[Right(r)])
      <4>1. f[r] = Node(f[Left(r)], f[Right(r)])
        BY <1>1, <2>2, HashOfHalves
      <4>2. g[r] = Node(g[Left(r)], g[Right(r)])
        BY <1>1, <2>2, HashOfHalves
      <4> QED BY <4>1, <4>2
    <3>2. /\ Middle(r) \in Nat /\ r[1] < Middle(r) /\ Middle(r) < r[2]
          /\ Left(r)[1] = r[1] /\ Left(r)[2] = Middle(r)
          /\ Right(r)[1] = Middle(r) /\ Right(r)[2] = r[2]
      BY <2>2, Cut
    <3>3. Agree(r) <=> Agree(Left(r)) /\ Agree(Right(r))
      <4>1. \A k \in r[1] + 1 .. r[2] : k \in r[1] + 1 .. Middle(r) \/ k \in Middle(r) + 1 .. r[2]
        BY <1>1, <3>2
      <4>2. \A k : k \in r[1] + 1 .. Middle(r) \/ k \in Middle(r) + 1 .. r[2] => k \in r[1] + 1 .. r[2]
        BY <1>1, <3>2
      <4> QED BY <3>2, <4>1, <4>2
    <3>4. /\ f[Left(r)] = g[Left(r)] <=> Agree(Left(r))
          /\ f[Right(r)] = g[Right(r)] <=> Agree(Right(r))
      BY <1>2, <2>2
    <3>5. f[r] = g[r] <=> f[Left(r)] = g[Left(r)] /\ f[Right(r)] = g[Right(r)]
      <4> HIDE DEF f, g
      <4> QED BY <3>1 DEF Node
    <3> HIDE DEF f, g, Agree
    <3> QED BY <3>3, <3>4, <3>5
  <2> QED BY <2>1, <2>2
<1>3. S = Slices(n)
  <2>1. S \in SUBSET Slices(n)
    OBVIOUS
  <2>2. \A r \in Slices(n) : (r[2] # r[1] + 1 => Left(r) \in S /\ Right(r) \in S) => r \in S
    BY <1>2
  <2> HIDE DEF S
  <2> QED BY <2>1, <2>2, SliceInduction
<1> QED BY <1>3

\* The root of a log's first n leaves, n > 0, is the hash of a slice of the log.
LEMMA FirstRoot ==
  ASSUME NEW T, NEW leaves \in Seq(T), NEW n \in 1 .. Len(leaves)
  PROVE  /\ First(leaves, n) \in Seq(T) /\ Len(First(leaves, n)) = n
         /\ \A k \in 1 .. n : First(leaves, n)[k] = leaves[k]
         /\ MerkleTreeHash(First(leaves, n)) = SliceHash(leaves)[<<0, n>>]
<1> DEFINE part == First(leaves, n)
<1>1. part \in Seq(T) /\ Len(part) = n /\ \A k \in 1 .. n : part[k] = leaves[k]
  BY DEF First
<1> HIDE DEF part
<1>2. n \in Nat /\ n >= 1 /\ n <= Len(leaves)
  OBVIOUS
<1>3. MerkleTreeHash(part) = SliceHash(part)[<<0, n>>]
  <2>1. part # <<>>
    BY <1>1, <1>2
  <2> QED BY <1>1, <2>1, RootHash
<1>4. <<0, n>> \in Slices(n)
  BY <1>2, WholeBlock
<1>5. SliceHash(part)[<<0, n>>] = SliceHash(leaves)[<<0, n>>]
  <2> DEFINE r == <<0, n>>
  <2>1. r \in Slices(n) /\ \A k \in r[1] + 1 .. r[2] : part[k] = leaves[k]
    BY <1>1, <1>2, <1>4
  <2> HIDE DEF r
  <2>2. SliceHash(part)[r] = SliceHash(leaves)[r]
    BY <1>1, <1>2, <2>1, HashOfLeaves
  <2> QED BY <2>2 DEF r
<1> QED BY <1>1, <1>3, <1>5 DEF part

\* What a call with 0 < first = second checks, and what with 0 < first < second.
LEMMA VerifyEqual ==
  ASSUME NEW m \in Nat, 1 <= m, NEW x, NEW y, NEW proof
  PROVE  VerifyConsistencyProof(m, m, x, y, proof) <=> x = y /\ proof = <<>>
BY DEF VerifyConsistencyProof

\* The path it walks, and what has to be at its end.
PathOf(m, x, proof) == IF IsPowerOfTwo(m) THEN <<x>> \o proof ELSE proof

\* What has to be at the end of that path.
Connects(m, n, path, x, y) ==
  LET a == Halve(m - 1, n - 1, 1)[1]
      b == Halve(m - 1, n - 1, 1)[2]
  IN /\ path # <<>>
     /\ Arrives(a, b, Head(path), Tail(path))
     /\ Walk(a, b, Head(path), Tail(path))[Len(Tail(path))].fr = x
     /\ Walk(a, b, Head(path), Tail(path))[Len(Tail(path))].sr = y

\* With m < n the call walks the path from where the old tree ends.
LEMMA VerifyUnequal ==
  ASSUME NEW m \in Nat, NEW n \in Nat, 1 <= m, m < n, NEW x, NEW y, NEW proof
  PROVE  VerifyConsistencyProof(m, n, x, y, proof) <=> Connects(m, n, PathOf(m, x, proof), x, y)
<1> DEFINE path == PathOf(m, x, proof)
           a == Halve(m - 1, n - 1, 1)[1]
           b == Halve(m - 1, n - 1, 1)[2]
<1>1. VerifyConsistencyProof(m, n, x, y, proof) <=>
        path # <<>> /\ PathRoots(a, b, Head(path), Tail(path)) = <<x, y>>
  BY DEF VerifyConsistencyProof, RootsMatch, PathOf
<1> HIDE DEF path
<1>2. PathRoots(a, b, Head(path), Tail(path)) = <<x, y>> <=>
        /\ Arrives(a, b, Head(path), Tail(path))
        /\ Walk(a, b, Head(path), Tail(path))[Len(Tail(path))].fr = x
        /\ Walk(a, b, Head(path), Tail(path))[Len(Tail(path))].sr = y
  BY DEF PathRoots, Arrives
<1>3. VerifyConsistencyProof(m, n, x, y, proof) <=> Connects(m, n, path, x, y)
  BY <1>1, <1>2 DEF Connects
<1> QED BY <1>3 DEF path

\* A path connects a root to that of a log's first n leaves just when the root is
\* that of the log's first m leaves and the path is _subproof's: the honest proof
\* is accepted, and nothing else is (ct.py:136-214).
THEOREM ConsistencyVerified ==
  ASSUME NEW T, NEW leaves \in Seq(T), NEW n \in 1 .. Len(leaves), NEW m \in 1 .. n,
         NEW first, NEW U, NEW proof \in Seq(U)
  PROVE  VerifyConsistencyProof(m, n, first, MerkleTreeHash(First(leaves, n)), proof) <=>
           /\ first = MerkleTreeHash(First(leaves, m))
           /\ proof = CtConsistencyProof(m, n, leaves)
<1> DEFINE root == MerkleTreeHash(First(leaves, n))
           old == MerkleTreeHash(First(leaves, m))
           honest == CtConsistencyProof(m, n, leaves)
           H == Hashes(leaves)
           whole == <<0, n>>
           a == Halve(m - 1, n - 1, 1)[1]
           b == Halve(m - 1, n - 1, 1)[2]
<1> SUFFICES VerifyConsistencyProof(m, n, first, root, proof) <=> first = old /\ proof = honest
  OBVIOUS
<1>1. n \in Nat /\ m \in Nat /\ 1 <= m /\ m <= n /\ n <= Len(leaves) /\ m \in 1 .. Len(leaves)
  OBVIOUS
<1>2. root = SliceHash(leaves)[whole] /\ old = SliceHash(leaves)[<<0, m>>]
  BY <1>1, FirstRoot
<1>3. honest = Subproofs(m, n, leaves)[whole]
  BY <1>1, SubproofDefined
<1>4. CASE m = n
  <2>1. whole \in Holding(n, m) /\ whole[1] = 0 /\ whole[2] = m
    BY <1>1, <1>4, WholeBlock DEF Holding
  <2>2. honest = <<>>
    <3> HIDE DEF whole, honest
    <3>1. honest = ProofStep(Subproofs(m, n, leaves), leaves, m, whole)
      BY <1>1, <1>3, <2>1, SubproofDefined
    <3> QED BY <2>1, <3>1 DEF ProofStep
  <2>3. root = old
    BY <1>4
  <2> HIDE DEF root, old, honest
  <2>4. VerifyConsistencyProof(m, m, first, root, proof) <=> first = root /\ proof = <<>>
    BY <1>1, VerifyEqual
  <2> QED BY <1>4, <2>2, <2>3, <2>4
<1>5. CASE m # n
  <2> DEFINE p == Seeded(m, leaves, n, whole)
             q == PathOf(m, first, proof)
  <2>1. m \in 1 .. n - 1 /\ n \in 0 .. Len(leaves)
    BY <1>1, <1>5
  <2>2. Leads(m, leaves, n, p, whole)
    BY <2>1, ProofLed
  <2> HIDE DEF root, old, honest, whole, p, H, a, b
  <2>3. whole[1] = 0 /\ whole = <<0, n>>
    BY DEF whole
  <2>4. /\ p \in Seq(H) /\ p # <<>> /\ honest \in Seq(H)
        /\ Led(leaves, n, a, b, Head(p), Tail(p), whole, old)
    BY <1>2, <1>3, <2>2, <2>3 DEF Leads, a, b, H
  <2>5. p = PathOf(m, old, honest)
    <3>1. IsPowerOfTwo(m) <=> m \in Powers
      BY <1>1, PowerOfTwo
    <3> QED BY <1>2, <1>3, <2>3, <3>1 DEF Seeded, p, PathOf
  <2>6. /\ Arrives(a, b, Head(p), Tail(p))
        /\ Walk(a, b, Head(p), Tail(p))[Len(Tail(p))].fr = old
        /\ Walk(a, b, Head(p), Tail(p))[Len(Tail(p))].sr = root
    <3>1. Led(leaves, n, a, b, Head(p), Tail(p), <<0, n>>, old)
      BY <2>3, <2>4
    <3>2. root = SliceHash(leaves)[<<0, n>>]
      BY <1>2, <2>3
    <3> DEFINE x == Head(p)
               t == Tail(p)
    <3> HIDE DEF x, t
    <3>3. Led(leaves, n, a, b, x, t, <<0, n>>, old)
      BY <3>1 DEF x, t
    <3>4. /\ Arrives(a, b, x, t)
          /\ Walk(a, b, x, t)[Len(t)].fr = old
          /\ Walk(a, b, x, t)[Len(t)].sr = root
      BY <1>1, <3>2, <3>3, LedWhole
    <3> QED BY <3>4 DEF x, t
  <2> HIDE DEF q
  <2>7. VerifyConsistencyProof(m, n, old, root, honest)
    <3>1. Connects(m, n, p, old, root)
      BY <2>4, <2>6 DEF Connects, a, b
    <3>2. m < n
      BY <1>1, <1>5
    <3> QED BY <1>1, <2>5, <3>1, <3>2, VerifyUnequal
  <2>8. ASSUME VerifyConsistencyProof(m, n, first, root, proof)
        PROVE  first = old /\ proof = honest
    <3> DEFINE V == (U \cup {first}) \cup H
    <3>1. /\ q # <<>> /\ Arrives(a, b, Head(q), Tail(q))
          /\ Walk(a, b, Head(q), Tail(q))[Len(Tail(q))].fr = first
          /\ Walk(a, b, Head(q), Tail(q))[Len(Tail(q))].sr = root
      <4>1. m < n
        BY <1>1, <1>5
      <4>2. Connects(m, n, q, first, root)
        BY <1>1, <2>8, <4>1, VerifyUnequal DEF q
      <4> QED BY <4>2 DEF Connects, a, b
    <3>2. q \in Seq(V) /\ p \in Seq(V)
      <4>1. p \in Seq(V)
        BY <2>4
      <4>2. proof \in Seq(V) /\ first \in V
        OBVIOUS
      <4> HIDE DEF V
      <4>3. <<first>> \in Seq(V)
        BY <4>2
      <4>4. <<first>> \o proof \in Seq(V)
        BY <4>2, <4>3
      <4> QED BY <4>1, <4>2, <4>4 DEF q, PathOf
    <3> HIDE DEF V
    <3>3. /\ Head(q) \in V /\ Tail(q) \in Seq(V) /\ Head(p) \in V /\ Tail(p) \in Seq(V)
      BY <2>4, <3>1, <3>2
    <3>4. Head(q) = Head(p) /\ Tail(q) = Tail(p)
      BY <2>6, <3>1, <3>3, OnePath
    <3>5. first = old
      BY <2>6, <3>1, <3>4
    <3>6. q = p
      BY <2>4, <3>1, <3>2, <3>4, HeadTailEqual
    <3>7. proof = honest
      <4>1. CASE IsPowerOfTwo(m)
        <5>1. <<old>> \o proof = <<old>> \o honest
          BY <2>5, <3>5, <3>6, <4>1 DEF q, PathOf
        <5>2. Tail(<<old>> \o proof) = proof /\ Tail(<<old>> \o honest) = honest
          BY <2>4, Before
        <5> QED BY <5>1, <5>2
      <4>2. CASE ~ IsPowerOfTwo(m)
        BY <2>5, <3>6, <4>2 DEF q, PathOf
      <4> QED BY <4>1, <4>2
    <3> QED BY <3>5, <3>7
  <2> QED BY <2>7, <2>8
<1> QED BY <1>4, <1>5
\* Both paths are made of hashes of the log's tree.
LEMMA PathsOfHashes ==
  ASSUME NEW T, NEW leaves \in Seq(T)
  PROVE  /\ \A index \in 0 .. Len(leaves) - 1 :
              InclusionAuditPath(index, leaves) \in Seq(Hashes(leaves))
         /\ \A n \in 1 .. Len(leaves) : \A m \in 1 .. n :
              CtConsistencyProof(m, n, leaves) \in Seq(Hashes(leaves))
<1>1. ASSUME NEW index \in 0 .. Len(leaves) - 1
      PROVE  InclusionAuditPath(index, leaves) \in Seq(Hashes(leaves))
  BY InclusionLed DEF Led
<1>2. ASSUME NEW n \in 1 .. Len(leaves), NEW m \in 1 .. n
      PROVE  CtConsistencyProof(m, n, leaves) \in Seq(Hashes(leaves))
  <2>1. n \in Nat /\ m \in Nat /\ n \in 0 .. Len(leaves)
    OBVIOUS
  <2>2. CtConsistencyProof(m, n, leaves) = Subproofs(m, n, leaves)[<<0, n>>]
    BY <2>1, SubproofDefined
  <2>3. CASE m = n
    <3> DEFINE whole == <<0, n>>
    <3>1. whole \in Holding(n, m) /\ whole[1] = 0 /\ whole[2] = m
      BY <2>1, <2>3, WholeBlock DEF Holding
    <3>2. CtConsistencyProof(m, n, leaves) = Subproofs(m, n, leaves)[whole]
      BY <2>2
    <3> HIDE DEF whole
    <3>3. Subproofs(m, n, leaves)[whole] = ProofStep(Subproofs(m, n, leaves), leaves, m, whole)
      BY <2>1, <3>1, SubproofDefined
    <3>4. CtConsistencyProof(m, n, leaves) = <<>>
      BY <3>1, <3>2, <3>3 DEF ProofStep
    <3> QED BY <3>4
  <2>4. CASE m # n
    <3>1. m \in 1 .. n - 1
      BY <2>1, <2>4
    <3> QED BY <2>1, <2>2, <3>1, ProofLed DEF Leads
  <2> QED BY <2>3, <2>4
<1> QED BY <1>1, <1>2

\* Two logs of one size have one root just when they are one log.
LEMMA OneRoot ==
  ASSUME NEW T, NEW leaves \in Seq(T), NEW other \in Seq(T), Len(leaves) = Len(other)
  PROVE  MerkleTreeHash(leaves) = MerkleTreeHash(other) <=> leaves = other
<1> DEFINE n == Len(leaves)
           r == <<0, n>>
<1>1. n \in Nat /\ n <= Len(leaves) /\ n <= Len(other)
  OBVIOUS
<1>2. CASE n = 0
  <2>1. Len(leaves) = 0 /\ Len(other) = 0
    BY <1>2
  <2>2. leaves = other
    BY <2>1, SeqEqual
  <2> QED BY <2>2
<1>3. CASE n # 0
  <2>1. r \in Slices(n)
    BY <1>1, <1>3, WholeBlock
  <2>2. r[1] + 1 .. r[2] = 1 .. n
    OBVIOUS
  <2>3. MerkleTreeHash(leaves) = SliceHash(leaves)[r] /\ MerkleTreeHash(other) = SliceHash(other)[r]
    <3>1. leaves # <<>> /\ other # <<>>
      BY <1>3
    <3>2. MerkleTreeHash(leaves) = SliceHash(leaves)[<<0, Len(leaves)>>]
      BY <3>1, RootHash
    <3>3. MerkleTreeHash(other) = SliceHash(other)[<<0, Len(other)>>]
      BY <3>1, RootHash
    <3> QED BY <3>2, <3>3
  <2>4. leaves = other <=> \A k \in 1 .. n : leaves[k] = other[k]
    BY SeqEqual
  <2> HIDE DEF n, r
  <2>5. SliceHash(leaves)[r] = SliceHash(other)[r] <=>
          \A k \in r[1] + 1 .. r[2] : leaves[k] = other[k]
    BY <1>1, <2>1, HashOfLeaves
  <2> QED BY <2>2, <2>3, <2>4, <2>5
<1> QED BY <1>2, <1>3
=============================================================================
