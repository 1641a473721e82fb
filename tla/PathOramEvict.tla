---------------------------- MODULE PathOramEvict ----------------------------
(***************************************************************************)
(* path_oram_eviction_strategy of evictor.rs, the body of                  *)
(* evict_from_stash_to_branch for both evictors: branch.pack(), then       *)
(* branch.ct_insert(1, stash[idx]) for every stash slot, vacant or not.   *)
(*                                                                         *)
(* pack and ct_insert belong to BranchCheckout (path_oram, outside this    *)
(* file) and are modelled from their contracts: pack defragments the      *)
(* branch by moving blocks down to vacant legal slots, any number of them; *)
(* ct_insert puts a non-vacant block into the first vacant slot at or      *)
(* above its lowest legal index (deepest bucket first, lowest slot first)  *)
(* and marks the source vacant, and does nothing when there is no such    *)
(* slot or the source is vacant.                                           *)
(***************************************************************************)
EXTENDS BranchTree

VARIABLES
  branch_meta,  \* [0..N-1 -> [0..Z-1 -> SlotValues]]: the checked-out branch
  stash_meta,   \* [0..StashSize-1 -> SlotValues]
  idx,          \* the stash slot the insert loop is at
  pc            \* "pack" | "insert" | "done"

vars == <<branch_meta, stash_meta, idx, pc>>

\* Level l has a vacant slot.
HasVacancy(l) == \E j \in 0 .. Z - 1 : branch_meta[l][j] = 0

\* ct_insert's choice for a block bound for v: slot j of level l is vacant,
\* l is legal for v, and every slot before it in the scan (the legal levels
\* below l, then the slots of l before j) is occupied.
InsertPosition(v, l, j) ==
  /\ LowestHeightLegalIndex(v) <= l
  /\ branch_meta[l][j] = 0
  /\ \A k \in LowestHeightLegalIndex(v) .. l - 1 : ~HasVacancy(k)
  /\ \A i \in 0 .. j - 1 : branch_meta[l][i] # 0

\* ct_insert finds room for a block bound for v: it is not vacant and some
\* bucket at or above its lowest legal index has a vacant slot.
CanInsert(v) ==
  v # 0 /\ \E l \in LowestHeightLegalIndex(v) .. N - 1 : HasVacancy(l)

-----------------------------------------------------------------------------
\* evict_from_stash_to_branch is called on a checked-out (well-formed)
\* branch and any stash.
Init ==
  /\ branch_meta \in ValidBranches
  /\ stash_meta \in [0 .. StashSize - 1 -> SlotValues]
  /\ idx = 0
  /\ pc = "pack"

\* One move of branch.pack(): a block of bucket l goes down to a vacant
\* slot j of a deeper bucket d that is legal for it.
PackMove ==
  /\ pc = "pack"
  /\ \E l \in 0 .. N - 1, i \in 0 .. Z - 1, d \in 0 .. N - 1, j \in 0 .. Z - 1 :
        LET v == branch_meta[l][i]
        IN  /\ v # 0
            /\ branch_meta[d][j] = 0
            /\ LowestHeightLegalIndex(v) <= d
            /\ d < l
            /\ branch_meta' = [branch_meta EXCEPT ![l][i] = 0, ![d][j] = v]
  /\ UNCHANGED <<stash_meta, idx, pc>>

\* branch.pack() returns and the insert loop starts at slot 0.
PackDone ==
  /\ pc = "pack"
  /\ idx' = 0
  /\ pc' = "insert"
  /\ UNCHANGED <<branch_meta, stash_meta>>

\* One iteration of `for idx in 0..stash_data.len()`: ct_insert of stash
\* slot idx, which moves its block into the branch or leaves everything as
\* it is (always for a vacant slot).
InsertStashSlot ==
  /\ pc = "insert"
  /\ idx < StashSize
  /\ LET v == stash_meta[idx]
     IN  \/ \E l \in 0 .. N - 1, j \in 0 .. Z - 1 :
               /\ v # 0
               /\ InsertPosition(v, l, j)
               /\ branch_meta' = [branch_meta EXCEPT ![l][j] = v]
               /\ stash_meta' = [stash_meta EXCEPT ![idx] = 0]
         \/ /\ ~CanInsert(v)
            /\ UNCHANGED <<branch_meta, stash_meta>>
  /\ idx' = idx + 1
  /\ UNCHANGED pc

\* Variant whose loop bound misses the last stash slot.
EvictDoneEarly ==
  /\ pc = "insert"
  /\ idx + 1 >= StashSize
  /\ pc' = "done"
  /\ UNCHANGED <<branch_meta, stash_meta, idx>>

\* The loop has visited every stash slot: evict_from_stash_to_branch returns.
EvictDone ==
  /\ pc = "insert"
  /\ idx = StashSize
  /\ pc' = "done"
  /\ UNCHANGED <<branch_meta, stash_meta, idx>>

Next == PackMove \/ PackDone \/ InsertStashSlot \/ EvictDone

Spec == Init /\ [][Next]_vars

-----------------------------------------------------------------------------
TypeOK ==
  /\ branch_meta \in [0 .. N - 1 -> [0 .. Z - 1 -> SlotValues]]
  /\ stash_meta \in [0 .. StashSize - 1 -> SlotValues]
  /\ idx \in 0 .. StashSize
  /\ pc \in {"pack", "insert", "done"}

\* The greedy packer is maximal: when evict_from_stash_to_branch returns, no
\* block left in the stash could have been placed, i.e. every legal bucket
\* of its path is full.  A slot skipped by the loop, or a later insert that
\* frees room for an earlier one, would break it.
EvictionMaximal ==
  pc = "done" => \A j \in 0 .. StashSize - 1 : ~CanInsert(stash_meta[j])

-----------------------------------------------------------------------------
\* The inductive invariant behind EvictionMaximal: every stash slot the
\* loop has passed holds a block that cannot be placed, and the loop has
\* passed them all when the call returns.  It holds because inserts only
\* fill slots: a path without room never regains room.
MaximalInv ==
  /\ TypeOK
  /\ pc \in {"insert", "done"} => \A j \in 0 .. idx - 1 : ~CanInsert(stash_meta[j])
  /\ pc = "done" => idx = StashSize

=============================================================================
