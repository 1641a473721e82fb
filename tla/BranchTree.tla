------------------------------ MODULE BranchTree ------------------------------
(***************************************************************************)
(* The vocabulary shared by the eviction modules: the shape of the tree   *)
(* and of one checked-out branch, slot metadata abstracted to the         *)
(* destination leaf (0 = vacant), and the legal-placement function        *)
(* lowest_height_legal_index_impl that evictor.rs takes from path_oram.   *)
(***************************************************************************)
EXTENDS Integers, FiniteSets

CONSTANTS
  Height,     \* tree height: leaves are at depth Height, the root at depth 0
  Z,          \* slots per bucket (the typenum Z)
  StashSize,  \* number of stash slots (stash_meta.len())
  Leaf        \* the leaf of the checked-out branch (branch.leaf)

ASSUME HeightAssumption == Height \in Nat
ASSUME ZAssumption == Z \in Nat \ {0}
ASSUME StashSizeAssumption == StashSize \in Nat

\* 2^k, the number of nodes at depth k (1 << k in the tree-index code),
\* written as a recursive function so that its laws can be derived.
Pow2[k \in Nat] == IF k = 0 THEN 1 ELSE 2 * Pow2[k - 1]

\* The leaves of the tree: tree indices with the most significant bit at
\* position Height.
Leaves == Pow2[Height] .. Pow2[Height + 1] - 1

ASSUME LeafAssumption == Leaf \in Leaves

\* meta_len = branch_meta.len(): one bucket per level, 0 the leaf, N-1 the root.
N == Height + 1

\* The levels of the deepest/target arrays: the N buckets and the stash at N.
Levels == 0 .. N

\* FLOOR_INDEX = usize::MAX: compares greater than every level.
FLOOR_INDEX == N + 1

\* The metadata value of a slot: 0 (vacant) or a destination leaf.
SlotValues == {0} \cup Leaves

-----------------------------------------------------------------------------
(***************************************************************************)
(* lowest_height_legal_index_impl (path_oram, outside this file): a       *)
(* vacant query is treated as the root (1); the result is                  *)
(* meta_len - 1 - common_ancestor_height(leaf, query).  The common         *)
(* ancestor height is the number of depths 1..Height at which the two      *)
(* tree indices have the same ancestor.                                    *)
(***************************************************************************)
Depth(q) == CHOOSE d \in 0 .. Height : Pow2[d] <= q /\ q < Pow2[d + 1]

AncestorAt(q, k) == q \div Pow2[Depth(q) - k]

CommonAncestorHeight(q) ==
  Cardinality({k \in 1 .. Height : k <= Depth(q) /\ AncestorAt(q, k) = AncestorAt(Leaf, k)})

LowestHeightLegalIndex(q) ==
  LET query == IF q = 0 THEN 1 ELSE q
  IN  N - 1 - CommonAncestorHeight(query)

\* The subtree test that makes a branch well formed: the bucket at level l
\* holds node Leaf \div Pow2[l], and a block there has its leaf below that node.
InSubtree(e, l) == e \div Pow2[l] = Leaf \div Pow2[l]

\* Branches the ORAM can check out: every non-vacant block lies on its path.
ValidBranches ==
  {b \in [0 .. N - 1 -> [0 .. Z - 1 -> SlotValues]] :
     \A l \in 0 .. N - 1, j \in 0 .. Z - 1 : b[l][j] = 0 \/ InSubtree(b[l][j], l)}

\* CMov(c, new, old): the value of old.cmov(c, &new).
CMov(c, new, old) == IF c THEN new ELSE old

=============================================================================
