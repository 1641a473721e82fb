--------------------------- MODULE BranchTreeLemmas ---------------------------
(***************************************************************************)
(* Facts about the tree vocabulary of BranchTree, shared by the proofs of  *)
(* the eviction modules.                                                   *)
(***************************************************************************)
EXTENDS BranchTree, FiniteSetTheorems, WellFoundedInduction, TLAPS

-----------------------------------------------------------------------------
(***************************************************************************)
(* lowest_height_legal_index_impl returns a bucket of the branch, whatever *)
(* its query: the common ancestor height counts depths among 1..Height.   *)
(***************************************************************************)
LEMMA LegalIndexRange ==
  ASSUME NEW q
  PROVE  LowestHeightLegalIndex(q) \in 0 .. N - 1
<1> DEFINE query == IF q = 0 THEN 1 ELSE q
<1> DEFINE S == {k \in 1 .. Height : k <= Depth(query)
                                     /\ AncestorAt(query, k) = AncestorAt(Leaf, k)}
<1>1. IsFiniteSet(1 .. Height) /\ Cardinality(1 .. Height) = Height
  BY HeightAssumption, FS_Interval
<1>2. IsFiniteSet(S) /\ Cardinality(S) <= Height
  BY <1>1, FS_Subset
<1>3. Cardinality(S) \in Nat
  BY <1>2, FS_CardinalityType
<1>4. LowestHeightLegalIndex(q) = N - 1 - Cardinality(S)
  BY DEF LowestHeightLegalIndex, CommonAncestorHeight
<1>5. QED
  BY HeightAssumption, <1>2, <1>3, <1>4 DEF N


-----------------------------------------------------------------------------
(***************************************************************************)
(* Powers of two.  A non-empty set of naturals has a least element; with  *)
(* it, a law of Pow2 is shown by refuting a least counterexample.         *)
(***************************************************************************)
USE HeightAssumption

LEMMA NatMinimum ==
  ASSUME NEW T \in SUBSET Nat, T # {}
  PROVE  \E x \in T : \A y \in T : x <= y
<1>1. \E x \in T : \A y \in T : ~(<<y, x>> \in OpToRel(<, Nat))
  BY NatLessThanWellFounded, WFMin
<1>2. \E x \in T : \A y \in T : ~(y < x)
  BY <1>1, Zenon DEF OpToRel
<1>3. QED
  BY <1>2

\* The recursion equation of Pow2.
LEMMA Pow2Def == \A k \in Nat : Pow2[k] = IF k = 0 THEN 1 ELSE 2 * Pow2[k - 1]
<1>1. NatInductiveDefHypothesis(Pow2, 1, LAMBDA v, n : 2 * v)
  BY DEF NatInductiveDefHypothesis, Pow2
<1>2. NatInductiveDefConclusion(Pow2, 1, LAMBDA v, n : 2 * v)
  BY <1>1, NatInductiveDef
<1>3. QED
  BY <1>2 DEF NatInductiveDefConclusion

LEMMA Pow2Type == \A k \in Nat : Pow2[k] \in Nat \ {0}
<1> DEFINE T == {k \in Nat : Pow2[k] \notin Nat \ {0}}
<1>1. SUFFICES ASSUME T # {} PROVE FALSE
  OBVIOUS
<1>2. PICK x \in T : \A y \in T : x <= y
  BY <1>1, NatMinimum
<1>3. x # 0
  BY <1>2, Pow2Def
<1>4. Pow2[x - 1] \in Nat \ {0}
  BY <1>2, <1>3
<1>5. QED
  BY <1>2, <1>3, <1>4, Pow2Def

LEMMA Pow2Add ==
  ASSUME NEW a \in Nat
  PROVE  \A b \in Nat : Pow2[a + b] = Pow2[a] * Pow2[b]
<1> DEFINE T == {b \in Nat : Pow2[a + b] # Pow2[a] * Pow2[b]}
<1>1. SUFFICES ASSUME T # {} PROVE FALSE
  OBVIOUS
<1>2. PICK x \in T : \A y \in T : x <= y
  BY <1>1, NatMinimum
<1>3. x # 0
  <2>1. Pow2[0] = 1 /\ Pow2[a] \in Nat
    BY Pow2Def, Pow2Type
  <2>2. QED
    BY <1>2, <2>1
<1>4. Pow2[a + (x - 1)] = Pow2[a] * Pow2[x - 1]
  BY <1>2, <1>3
<1>5. Pow2[a + x] = 2 * Pow2[a + (x - 1)] /\ Pow2[x] = 2 * Pow2[x - 1]
  BY <1>2, <1>3, Pow2Def
<1>6. Pow2[a] \in Nat /\ Pow2[x - 1] \in Nat
  BY <1>2, <1>3, Pow2Type
<1>7. QED
  BY <1>2, <1>4, <1>5, <1>6

LEMMA Pow2Mono ==
  ASSUME NEW a \in Nat, NEW b \in Nat, a <= b
  PROVE  Pow2[a] <= Pow2[b]
<1>1. Pow2[b] = Pow2[a] * Pow2[b - a]
  BY Pow2Add
<1>2. QED
  BY <1>1, Pow2Type

LEMMA DivDiv ==
  ASSUME NEW x \in Nat, NEW p \in Nat \ {0}, NEW q \in Nat \ {0}
  PROVE  (x \div p) \div q = x \div (p * q)
OBVIOUS

-----------------------------------------------------------------------------
(***************************************************************************)
(* Legal placement is placement on the path: a leaf whose lowest legal    *)
(* index is at most d lies in the subtree of the bucket at level d.  The  *)
(* depths at which a leaf agrees with Leaf form a prefix 1..c of 1..Height *)
(* (agreeing at k means agreeing at every k2 <= k), and c is the common   *)
(* ancestor height.                                                        *)
(***************************************************************************)
LEMMA LeavesNat == Leaves \subseteq Nat \ {0}
<1>1. Pow2[Height] \in Nat \ {0} /\ Pow2[Height + 1] \in Nat \ {0}
  BY Pow2Type
<1>2. QED
  BY <1>1 DEF Leaves

LEMMA DepthOfLeaf ==
  ASSUME NEW v \in Leaves
  PROVE  Depth(v) = Height
<1>0. Pow2[Height] \in Nat /\ Pow2[Height + 1] \in Nat /\ v \in Nat
  BY Pow2Type, LeavesNat
<1>1. Pow2[Height] <= v /\ v < Pow2[Height + 1]
  BY <1>0 DEF Leaves
<1>2. ASSUME NEW d \in 0 .. Height, Pow2[d] <= v, v < Pow2[d + 1]
      PROVE  d = Height
  <2>1. SUFFICES ASSUME d < Height PROVE FALSE
    OBVIOUS
  <2>2. Pow2[d + 1] <= Pow2[Height]
    BY <2>1, Pow2Mono, HeightAssumption
  <2>3. Pow2[d + 1] \in Nat
    BY Pow2Type
  <2>4. QED
    BY <1>0, <1>1, <1>2, <2>1, <2>2, <2>3
<1>3. /\ Depth(v) \in 0 .. Height
      /\ Pow2[Depth(v)] <= v
      /\ v < Pow2[Depth(v) + 1]
  BY <1>1, HeightAssumption DEF Depth
<1>4. QED
  BY <1>2, <1>3

\* Leaf v agrees with Leaf at depth k.
Agree(v, k) == v \div Pow2[Height - k] = Leaf \div Pow2[Height - k]

LEMMA AgreeDown ==
  ASSUME NEW v \in Leaves, NEW k \in 1 .. Height, NEW k2 \in 1 .. k, Agree(v, k)
  PROVE  Agree(v, k2)
<1>1. Pow2[Height - k2] = Pow2[Height - k] * Pow2[k - k2]
  <2>1. Height - k2 = (Height - k) + (k - k2)
    BY HeightAssumption
  <2>2. QED
    BY <2>1, Pow2Add, HeightAssumption
<1>2. Pow2[Height - k] \in Nat \ {0} /\ Pow2[k - k2] \in Nat \ {0}
  BY Pow2Type, HeightAssumption
<1>3. v \in Nat /\ Leaf \in Nat
  BY LeavesNat, LeafAssumption
<1>4. /\ v \div Pow2[Height - k2] = (v \div Pow2[Height - k]) \div Pow2[k - k2]
      /\ Leaf \div Pow2[Height - k2] = (Leaf \div Pow2[Height - k]) \div Pow2[k - k2]
  BY <1>1, <1>2, <1>3, DivDiv
<1>5. QED
  BY <1>4 DEF Agree

LEMMA CommonAncestorOfLeaf ==
  ASSUME NEW v \in Leaves
  PROVE  CommonAncestorHeight(v) = Cardinality({k \in 1 .. Height : Agree(v, k)})
<1>1. Depth(v) = Height /\ Depth(Leaf) = Height
  BY DepthOfLeaf, LeafAssumption
<1>2. {k \in 1 .. Height : k <= Depth(v) /\ AncestorAt(v, k) = AncestorAt(Leaf, k)}
        = {k \in 1 .. Height : Agree(v, k)}
  BY <1>1 DEF AncestorAt, Agree
<1>3. QED
  BY <1>2 DEF CommonAncestorHeight

\* A block whose lowest legal index (lowest_height_legal_index_impl) is at
\* most d belongs to the subtree of bucket d of the branch: the index
\* arithmetic of the code agrees with the subtree relation checkout uses.
LEMMA LegalInSubtree ==
  ASSUME NEW v \in Leaves, NEW d \in 0 .. N - 1, LowestHeightLegalIndex(v) <= d
  PROVE  InSubtree(v, d)
<1> DEFINE S == {k \in 1 .. Height : Agree(v, k)}
<1>1. v # 0 /\ v \in Nat
  BY LeavesNat
<1>2. LowestHeightLegalIndex(v) = Height - Cardinality(S)
  BY <1>1, CommonAncestorOfLeaf DEF LowestHeightLegalIndex, N
<1>3. IsFiniteSet(S) /\ Cardinality(S) \in Nat
  <2>1. IsFiniteSet(1 .. Height)
    BY FS_Interval
  <2>2. IsFiniteSet(S)
    BY <2>1, FS_Subset
  <2>3. QED
    BY <2>2, FS_CardinalityType
<1>4. CASE d = Height
  <2>1. Pow2[Height] \in Nat \ {0} /\ Pow2[Height + 1] = 2 * Pow2[Height]
    BY Pow2Type, Pow2Def, HeightAssumption
  <2>2. Leaf \in Leaves
    BY LeafAssumption
  <2>3. \A w \in Leaves : w \div Pow2[Height] = 1
    BY <2>1 DEF Leaves
  <2>4. QED
    BY <1>4, <2>2, <2>3 DEF InSubtree
<1>5. CASE d < Height
  <2> DEFINE m == Height - d
  <2>1. m \in 1 .. Height /\ Cardinality(S) >= m
    BY <1>2, <1>3, <1>5, HeightAssumption DEF N
  <2>2. Agree(v, m)
    <3>1. SUFFICES ASSUME ~Agree(v, m) PROVE FALSE
      OBVIOUS
    <3>2. S \subseteq 1 .. m - 1
      BY <3>1, <2>1, AgreeDown
    <3>3. Cardinality(S) <= m - 1
      <4>1. IsFiniteSet(1 .. m - 1) /\ Cardinality(1 .. m - 1) = m - 1
        BY <2>1, FS_Interval
      <4>2. QED
        BY <3>2, <4>1, FS_Subset
    <3>4. QED
      BY <2>1, <3>3, <1>3
  <2>3. QED
    BY <2>2, HeightAssumption DEF Agree, InSubtree
<1>6. QED
  BY <1>4, <1>5 DEF N


\* Conversely, a block in the subtree of bucket d has its lowest legal index
\* at or below d: ct_insert and pack (which test
\* lowest_height_legal_index_impl <= d) may put any block of the subtree
\* there, so the code's legality test is exactly the subtree relation.
LEMMA SubtreeIsLegal ==
  ASSUME NEW v \in Leaves, NEW d \in 0 .. N - 1, InSubtree(v, d)
  PROVE  LowestHeightLegalIndex(v) <= d
<1> DEFINE S == {k \in 1 .. Height : Agree(v, k)}
<1>1. v # 0 /\ v \in Nat
  BY LeavesNat
<1>2. LowestHeightLegalIndex(v) = Height - Cardinality(S)
  BY <1>1, CommonAncestorOfLeaf DEF LowestHeightLegalIndex, N
<1>3. IsFiniteSet(S) /\ Cardinality(S) \in Nat
  <2>1. IsFiniteSet(1 .. Height)
    BY FS_Interval
  <2>2. IsFiniteSet(S)
    BY <2>1, FS_Subset
  <2>3. QED
    BY <2>2, FS_CardinalityType
<1>4. CASE d = Height
  BY <1>4, LegalIndexRange DEF N
<1>5. CASE d < Height
  <2> DEFINE m == Height - d
  <2>1. m \in 1 .. Height /\ Height - m = d
    BY <1>5, HeightAssumption DEF N
  <2>2. Agree(v, m)
    BY <2>1 DEF Agree, InSubtree
  <2>3. 1 .. m \subseteq S
    BY <2>1, <2>2, AgreeDown
  <2>4. Cardinality(S) >= m
    <3>1. IsFiniteSet(1 .. m) /\ Cardinality(1 .. m) = m
      BY <2>1, FS_Interval
    <3>2. Cardinality(1 .. m) <= Cardinality(S)
      BY <1>3, <2>3, FS_Subset
    <3>3. QED
      BY <3>1, <3>2
  <2>5. QED
    BY <1>2, <1>3, <2>1, <2>4, HeightAssumption
<1>6. QED
  BY <1>4, <1>5 DEF N

=============================================================================
