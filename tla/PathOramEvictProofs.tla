------------------------- MODULE PathOramEvictProofs -------------------------
(***************************************************************************)
(* Proofs about PathOramEvict, for every tree height, bucket size, stash   *)
(* size and branch leaf: the greedy eviction keeps its variables in range  *)
(* and, when it returns, no block left in the stash could have been       *)
(* placed on the branch.                                                   *)
(***************************************************************************)
EXTENDS PathOramEvict, BranchTreeLemmas, TLAPS

USE HeightAssumption, ZAssumption, StashSizeAssumption

\* Writing a block into a slot never creates a vacancy.
LEMMA VacancyShrinks ==
  ASSUME TypeOK, NEW l \in 0 .. N - 1, NEW j \in 0 .. Z - 1, NEW v, v # 0,
         branch_meta' = [branch_meta EXCEPT ![l][j] = v]
  PROVE  \A k \in 0 .. N - 1 : HasVacancy(k)' => HasVacancy(k)
BY DEF HasVacancy, TypeOK

LEMMA InitMaximalInv == Init => MaximalInv
BY DEF Init, MaximalInv, TypeOK, ValidBranches

LEMMA NextMaximalInv == MaximalInv /\ [Next]_vars => MaximalInv'
<1> SUFFICES ASSUME MaximalInv, [Next]_vars PROVE MaximalInv'
  OBVIOUS
<1>0. TypeOK
  BY DEF MaximalInv
<1>1. CASE PackMove
  <2>1. PICK l \in 0 .. N - 1, i \in 0 .. Z - 1, d \in 0 .. N - 1, j \in 0 .. Z - 1 :
           /\ branch_meta[l][i] # 0
           /\ branch_meta' = [branch_meta EXCEPT ![l][i] = 0, ![d][j] = branch_meta[l][i]]
    BY <1>1 DEF PackMove
  <2>2. branch_meta[l][i] \in SlotValues /\ 0 \in SlotValues
    BY <1>0 DEF TypeOK, SlotValues
  <2>3. branch_meta' \in [0 .. N - 1 -> [0 .. Z - 1 -> SlotValues]]
    BY <1>0, <2>1, <2>2 DEF TypeOK
  <2>4. pc = "pack" /\ UNCHANGED <<stash_meta, idx, pc>>
    BY <1>1 DEF PackMove
  <2>5. TypeOK'
    BY <1>0, <2>3, <2>4 DEF TypeOK
  <2>6. QED
    BY <2>4, <2>5 DEF MaximalInv
<1>2. CASE PackDone
  BY <1>0, <1>2 DEF PackDone, MaximalInv, TypeOK
<1>3. CASE InsertStashSlot
  <2> DEFINE v == stash_meta[idx]
  <2>0. pc = "insert" /\ idx \in 0 .. StashSize - 1 /\ idx' = idx + 1 /\ pc' = pc
    BY <1>0, <1>3 DEF InsertStashSlot, TypeOK
  <2>1. \A j \in 0 .. idx - 1 : ~CanInsert(stash_meta[j])
    BY <2>0 DEF MaximalInv
  <2>2. CASE \E l \in 0 .. N - 1, j \in 0 .. Z - 1 :
               /\ v # 0
               /\ InsertPosition(v, l, j)
               /\ branch_meta' = [branch_meta EXCEPT ![l][j] = v]
               /\ stash_meta' = [stash_meta EXCEPT ![idx] = 0]
    <3>1. PICK l \in 0 .. N - 1, j \in 0 .. Z - 1 :
               /\ v # 0
               /\ branch_meta' = [branch_meta EXCEPT ![l][j] = v]
               /\ stash_meta' = [stash_meta EXCEPT ![idx] = 0]
      BY <2>2
    <3>2. \A k \in 0 .. N - 1 : HasVacancy(k)' => HasVacancy(k)
      BY <1>0, <3>1, VacancyShrinks
    <3>3. TypeOK'
      BY <1>0, <2>0, <3>1 DEF TypeOK, SlotValues
    <3>4. ASSUME NEW k \in 0 .. idx' - 1 PROVE (~CanInsert(stash_meta[k]))'
      <4>1. CASE k = idx
        BY <1>0, <3>1, <4>1, <2>0 DEF CanInsert, TypeOK
      <4>2. CASE k # idx
        <5>1. stash_meta'[k] = stash_meta[k] /\ ~CanInsert(stash_meta[k])
          BY <1>0, <2>0, <2>1, <3>1, <4>2 DEF TypeOK
        <5>2. CASE stash_meta[k] = 0
          BY <5>1, <5>2 DEF CanInsert
        <5>3. CASE stash_meta[k] # 0
          <6>1. \A m \in LowestHeightLegalIndex(stash_meta[k]) .. N - 1 : ~HasVacancy(m)
            BY <5>1, <5>3 DEF CanInsert
          <6>2. LowestHeightLegalIndex(stash_meta[k]) \in 0 .. N - 1
            BY LegalIndexRange
          <6>3. \A m \in LowestHeightLegalIndex(stash_meta[k]) .. N - 1 : ~HasVacancy(m)'
            BY <6>1, <6>2, <3>2
          <6>4. QED
            BY <5>1, <6>3 DEF CanInsert
        <5>4. QED
          BY <5>2, <5>3
      <4>3. QED
        BY <4>1, <4>2
    <3>5. QED
      BY <2>0, <3>3, <3>4 DEF MaximalInv
  <2>3. CASE ~CanInsert(v) /\ UNCHANGED <<branch_meta, stash_meta>>
    <3>1. ASSUME NEW k \in 0 .. idx' - 1 PROVE (~CanInsert(stash_meta[k]))'
      <4>1. ~CanInsert(stash_meta[k])
        BY <2>0, <2>1, <2>3
      <4>2. QED
        BY <4>1, <2>3 DEF CanInsert, HasVacancy
    <3>2. TypeOK'
      BY <1>0, <2>0, <2>3 DEF TypeOK
    <3>3. QED
      BY <2>0, <3>1, <3>2 DEF MaximalInv
  <2>4. QED
    BY <1>3, <2>2, <2>3 DEF InsertStashSlot
<1>4. CASE EvictDone
  BY <1>0, <1>4 DEF EvictDone, MaximalInv, TypeOK, CanInsert, HasVacancy
<1>5. CASE UNCHANGED vars
  BY <1>0, <1>5 DEF vars, MaximalInv, TypeOK, CanInsert, HasVacancy
<1>6. QED
  BY <1>1, <1>2, <1>3, <1>4, <1>5 DEF Next


\* The greedy Path ORAM eviction keeps its variables in range (TypeOK)
\* for every height, bucket size, stash size and leaf.
THEOREM EvictTypeCorrect == Spec => []TypeOK
<1>1. Spec => []MaximalInv
  BY InitMaximalInv, NextMaximalInv, PTL DEF Spec
<1>2. QED
  BY <1>1, PTL DEF MaximalInv

\* When evict_from_stash_to_branch returns, every block left in the stash
\* has no vacant slot anywhere on its legal part of the branch
\* (EvictionMaximal): the loop visited every stash slot and no insert
\* reopened room for an earlier one, for every height, bucket size, stash
\* size and leaf.
THEOREM EvictionMaximalHolds == Spec => []EvictionMaximal
<1>1. Spec => []MaximalInv
  BY InitMaximalInv, NextMaximalInv, PTL DEF Spec
<1>2. MaximalInv => EvictionMaximal
  BY DEF MaximalInv, EvictionMaximal
<1>3. QED
  BY <1>1, <1>2, PTL


=============================================================================
