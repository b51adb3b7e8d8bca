------------------------------- MODULE CtTree -------------------------------
(***************************************************************************)
(* The RFC 6962 tree of anchoring/ct.py: tree hash, audit paths, the       *)
(* consistency proof and the two verifiers with their bit walks, and the   *)
(* read operations of AnchorerService and the /anchor routes over them.    *)
(*                                                                         *)
(* Hashes are free terms: a leaf, a node over two hashes, or the empty     *)
(* tree.  A log is the sequence of its leaf hashes; indices count from 0.  *)
(***************************************************************************)
EXTENDS Integers, Sequences

Leaf(x) == <<"leaf", x>>
Node(left, right) == <<"node", left, right>>
EmptyRoot == <<"empty">>

Odd(n) == n % 2 = 1
First(leaves, k) == SubSeq(leaves, 1, k)

\* _largest_power_of_two_below: the while loop doubles k while 2k < n.
LargestPowerOfTwoBelow(n) ==
  LET doubled[k \in 1 .. n] == IF 2 * k < n THEN doubled[2 * k] ELSE k
  IN doubled[1]

IsPowerOfTwo(n) == n = 1 \/ n = 2 * LargestPowerOfTwoBelow(n)

\* The slices leaves[lo:hi] that the recursions below meet, as <<lo, hi>>, and
\* the place where they cut one.
Slices(n) == {r \in (0 .. n) \X (0 .. n) : r[1] < r[2]}
Middle(r) == r[1] + LargestPowerOfTwoBelow(r[2] - r[1])
Left(r) == <<r[1], Middle(r)>>
Right(r) == <<Middle(r), r[2]>>

\* merkle_tree_hash of each slice.
SliceHash(leaves) ==
  LET hash[r \in Slices(Len(leaves))] ==
        IF r[2] = r[1] + 1 THEN leaves[r[2]] ELSE Node(hash[Left(r)], hash[Right(r)])
  IN hash

MerkleTreeHash(leaves) ==
  IF leaves = <<>> THEN EmptyRoot ELSE SliceHash(leaves)[<<0, Len(leaves)>>]

\* For 0 <= index < Len(leaves); the code raises IndexError outside.
InclusionAuditPath(index, leaves) ==
  LET path[r \in Slices(Len(leaves))] ==
        IF r[2] = r[1] + 1 THEN <<>>
        ELSE IF index < Middle(r)
        THEN Append(path[Left(r)], SliceHash(leaves)[Right(r)])
        ELSE Append(path[Right(r)], SliceHash(leaves)[Left(r)])
  IN path[<<0, Len(leaves)>>]

HasLeftSibling(fn, sn) == Odd(fn) \/ fn = sn

\* The inner loops of the verifiers, which halve both numbers while the last bit
\* of the first is the one given.
Halve(fn, sn, bit) ==
  LET halved[p \in (0 .. fn) \X (0 .. sn)] ==
        IF p[1] # 0 /\ p[1] % 2 = bit THEN halved[<<p[1] \div 2, p[2] \div 2>>] ELSE p
  IN halved[<<fn, sn>>]

\* Mutant: one layer at a time, also on the right edge.
Above_OneLayer(fn, sn) == <<fn \div 2, sn \div 2>>

\* Where the layer walk goes on from node fn of a layer whose last node is sn:
\* after a left sibling it climbs until fn is a right child.
Above(fn, sn) ==
  LET here == IF HasLeftSibling(fn, sn) THEN Halve(fn, sn, 0) ELSE <<fn, sn>>
  IN <<here[1] \div 2, here[2] \div 2>>

\* One round of the walk both verifiers make, with the next hash c of the path.
\* An inclusion path has the second root alone.
Round(w, c) ==
  LET up == Above(w.fn, w.sn) IN
  IF HasLeftSibling(w.fn, w.sn)
  THEN [fn |-> up[1], sn |-> up[2], fr |-> Node(c, w.fr), sr |-> Node(c, w.sr)]
  ELSE [fn |-> up[1], sn |-> up[2], fr |-> w.fr, sr |-> Node(w.sr, c)]

Walk(fn, sn, seed, path) ==
  LET walk[k \in 0 .. Len(path)] ==
        IF k = 0 THEN [fn |-> fn, sn |-> sn, fr |-> seed, sr |-> seed]
        ELSE Round(walk[k - 1], path[k])
  IN walk

\* The two roots a path leads to, <<>> when it is too short or too long.
PathRoots(fn, sn, seed, path) ==
  LET walk == Walk(fn, sn, seed, path)
      end  == walk[Len(path)]
  IN IF end.sn = 0 /\ \A k \in 0 .. Len(path) - 1 : walk[k].sn > 0
     THEN <<end.fr, end.sr>> ELSE <<>>

\* Mutant: any index is taken.
VerifyInclusionPath_NoRange(leaf, index, treeSize, path, root) ==
  LET roots == PathRoots(index, treeSize - 1, leaf, path)
  IN roots # <<>> /\ roots[2] = root

VerifyInclusionPath(leaf, index, treeSize, path, root) ==
  /\ 0 <= index /\ index < treeSize
  /\ LET roots == PathRoots(index, treeSize - 1, leaf, path)
     IN roots # <<>> /\ roots[2] = root

\* _subproof over the slices that hold leaf first - 1, for 0 < first <= second;
\* start_from_old_root says that the slice begins at 0.
CtConsistencyProof(first, second, leaves) ==
  LET proof[r \in {s \in Slices(second) : first \in s[1] + 1 .. s[2]}] ==
        IF r[2] = first THEN (IF r[1] = 0 THEN <<>> ELSE <<SliceHash(leaves)[r]>>)
        ELSE IF first <= Middle(r)
        THEN Append(proof[Left(r)], SliceHash(leaves)[Right(r)])
        ELSE Append(proof[Right(r)], SliceHash(leaves)[Left(r)])
  IN proof[<<0, second>>]

\* Mutant: the first root is recomputed and not compared.
RootsMatch_SecondOnly(roots, firstRoot, secondRoot) ==
  roots # <<>> /\ roots[2] = secondRoot

RootsMatch(roots, firstRoot, secondRoot) == roots = <<firstRoot, secondRoot>>

VerifyConsistencyProof(first, second, firstRoot, secondRoot, proof) ==
  /\ 0 <= first /\ first <= second
  /\ CASE first = second -> firstRoot = secondRoot /\ proof = <<>>
       [] first = 0 /\ second # 0 -> proof = <<>>
       [] OTHER ->
            LET start == Halve(first - 1, second - 1, 1)
                path  == IF IsPowerOfTwo(first) THEN <<firstRoot>> \o proof ELSE proof
            IN /\ path # <<>>
               /\ RootsMatch(PathRoots(start[1], start[2], Head(path), Tail(path)),
                             firstRoot, secondRoot)
-----------------------------------------------------------------------------
(* AnchorerService's reads, with the status the /anchor routes answer. *)

\* inclusion_proof_ct, for a given tree_size or (None in the code) the whole log.
InclusionProofCt(leaves, index, treeSize) ==
  IF index < 0 \/ treeSize <= 0 THEN [status |-> 400]
  ELSE IF ~ (index < treeSize /\ treeSize <= Len(leaves)) THEN [status |-> 404]
  ELSE LET sub == First(leaves, treeSize)
       IN [status |-> 200, leaf_index |-> index, tree_size |-> treeSize,
           leaf_hash |-> sub[index + 1], audit_path |-> InclusionAuditPath(index, sub),
           root_hash |-> MerkleTreeHash(sub)]

\* verify_inclusion of an InclusionProof, bound to a tree head's root.
VerifyInclusion(proof, root) ==
  /\ VerifyInclusionPath(proof.leaf_hash, proof.leaf_index, proof.tree_size,
                         proof.audit_path, proof.root_hash)
  /\ proof.root_hash = root

\* consistency_proof of the service and its route.
ConsistencyProof(leaves, oldSize, newSize) ==
  IF oldSize < 0 \/ newSize < oldSize \/ newSize > Len(leaves) THEN [status |-> 400]
  ELSE [status |-> 200, first_size |-> oldSize, second_size |-> newSize,
        first_root |-> MerkleTreeHash(First(leaves, oldSize)),
        second_root |-> MerkleTreeHash(First(leaves, newSize)),
        proof |-> IF oldSize = 0 THEN <<>> ELSE CtConsistencyProof(oldSize, newSize, leaves)]

\* verify_consistency: of the two roots the proof carries, which are the
\* caller's to check.
VerifyConsistency(proof) ==
  VerifyConsistencyProof(proof.first_size, proof.second_size,
                         proof.first_root, proof.second_root, proof.proof)
=============================================================================
