--------------------------- MODULE CircuitPrepare ---------------------------
(***************************************************************************)
(* Circuit ORAM branch preparation of evictor.rs: the root-to-leaf scan    *)
(* prepare_deepest followed by the leaf-to-root scan prepare_target, run   *)
(* on one checked-out branch and the stash (the stash being the virtual   *)
(* level N = branch length).                                               *)
(*                                                                         *)
(* A slot's metadata is abstracted to its destination leaf: 0 means the   *)
(* slot is vacant (meta_is_vacant), any other value is a leaf of the tree. *)
(* Block ids and payloads are not read by these scans and are left out.    *)
(* The scan of prepare_deepest takes one step per slot, exactly as the     *)
(* code's inner loop does its conditional moves; prepare_target takes one  *)
(* step per bucket, bucket_has_empty_slot being an OR over the slots.      *)
(***************************************************************************)
EXTENDS BranchTree

-----------------------------------------------------------------------------
VARIABLES
  branch_meta,   \* [0..N-1 -> [0..Z-1 -> SlotValues]], read only
  stash_meta,    \* [0..StashSize-1 -> SlotValues], read only
  deepest_meta,  \* the array built by prepare_deepest
  target_meta,   \* the array built by prepare_target
  goal,          \* prepare_deepest: deepest legal index seen so far
  src,           \* source level (prepare_deepest, then prepare_target)
  dest,          \* prepare_target: the pending vacancy
  bucket_num,    \* the level the current loop is at
  slot,          \* the slot the inner loop of prepare_deepest is at
  pc             \* "take_src" | "scan" | "target" | "done"

vars == <<branch_meta, stash_meta, deepest_meta, target_meta, goal, src,
          dest, bucket_num, slot, pc>>

\* Number of slots of a level: Z for a bucket, StashSize for the stash.
SizeOf(l) == IF l = N THEN StashSize ELSE Z

\* The metadata of slot j of level l.
MetaAt(l, j) == IF l = N THEN stash_meta[j] ELSE branch_meta[l][j]

\* bucket_has_empty_slot: OR of the vacancy flags of every slot.
BucketHasEmptySlot(l) == \E j \in 0 .. Z - 1 : branch_meta[l][j] = 0

-----------------------------------------------------------------------------
Init ==
  /\ branch_meta \in ValidBranches
  /\ stash_meta \in [0 .. StashSize - 1 -> SlotValues]
  /\ deepest_meta = [l \in Levels |-> FLOOR_INDEX]
  /\ target_meta = [l \in Levels |-> FLOOR_INDEX]
  /\ goal = FLOOR_INDEX
  /\ src = FLOOR_INDEX
  /\ dest = FLOOR_INDEX
  /\ bucket_num = N          \* the stash is processed first
  /\ slot = 0
  /\ pc = "take_src"

\* Variant with an off-by-one: src is taken only strictly above the goal.
TakeSrcForDeepestStrict ==
  /\ pc = "take_src"
  /\ deepest_meta' = [deepest_meta EXCEPT
                        ![bucket_num] = CMov(bucket_num > goal, src, @)]
  /\ slot' = 0
  /\ pc' = "scan"
  /\ UNCHANGED <<branch_meta, stash_meta, target_meta, goal, src, dest, bucket_num>>

\* update_goal_and_deepest_for_a_single_bucket, first part: deepest[bucket]
\* takes src when the bucket is at or above the current goal.
TakeSrcForDeepest ==
  /\ pc = "take_src"
  /\ deepest_meta' = [deepest_meta EXCEPT
                        ![bucket_num] = CMov(~(bucket_num < goal), src, @)]
  /\ slot' = 0
  /\ pc' = "scan"
  /\ UNCHANGED <<branch_meta, stash_meta, target_meta, goal, src, dest, bucket_num>>

\* Variant without the vacancy test: a vacant slot (treated as the root by
\* lowest_height_legal_index_impl) can become the goal.
UpdateGoalForElemNoVacancyTest ==
  /\ pc = "scan"
  /\ slot < SizeOf(bucket_num)
  /\ LET elem == MetaAt(bucket_num, slot)
         elem_destination == LowestHeightLegalIndex(elem)
         is_elem_deeper == elem_destination < goal /\ elem_destination < bucket_num
     IN  /\ goal' = CMov(is_elem_deeper, elem_destination, goal)
         /\ src' = CMov(is_elem_deeper, bucket_num, src)
  /\ slot' = slot + 1
  /\ UNCHANGED <<branch_meta, stash_meta, deepest_meta, target_meta, dest, bucket_num, pc>>

\* The loop over the bucket's slots: a non-vacant block whose legal index
\* is below both the goal and the bucket becomes the new goal, and this
\* bucket the new src.
UpdateGoalForElem ==
  /\ pc = "scan"
  /\ slot < SizeOf(bucket_num)
  /\ LET elem == MetaAt(bucket_num, slot)
         elem_destination == LowestHeightLegalIndex(elem)
         is_elem_deeper == /\ elem_destination < goal
                           /\ elem_destination < bucket_num
                           /\ elem # 0
     IN  /\ goal' = CMov(is_elem_deeper, elem_destination, goal)
         /\ src' = CMov(is_elem_deeper, bucket_num, src)
  /\ slot' = slot + 1
  /\ UNCHANGED <<branch_meta, stash_meta, deepest_meta, target_meta, dest, bucket_num, pc>>

\* Variant of the loop bound that steps past the leaf bucket.
NextDeepestBucketPastLeaf ==
  /\ pc = "scan"
  /\ slot = SizeOf(bucket_num)
  /\ bucket_num' = bucket_num - 1
  /\ pc' = "take_src"
  /\ UNCHANGED <<branch_meta, stash_meta, deepest_meta, target_meta, goal, src, dest, slot>>

\* The root-to-leaf loop of prepare_deepest moves to the next bucket.
NextDeepestBucket ==
  /\ pc = "scan"
  /\ slot = SizeOf(bucket_num)
  /\ bucket_num > 0
  /\ bucket_num' = bucket_num - 1
  /\ pc' = "take_src"
  /\ UNCHANGED <<branch_meta, stash_meta, deepest_meta, target_meta, goal, src, dest, slot>>

\* prepare_deepest returns after the leaf bucket; prepare_target starts
\* with a fresh target array and dest = src = FLOOR_INDEX.
StartPrepareTarget ==
  /\ pc = "scan"
  /\ slot = SizeOf(bucket_num)
  /\ bucket_num = 0
  /\ target_meta' = [l \in Levels |-> FLOOR_INDEX]
  /\ dest' = FLOOR_INDEX
  /\ src' = FLOOR_INDEX
  /\ bucket_num' = 0
  /\ pc' = "target"
  /\ UNCHANGED <<branch_meta, stash_meta, deepest_meta, goal, slot>>

\* Variant that forgets bucket_has_empty_slot: any level without a pending
\* dest counts as a vacancy.
PrepareTargetBucketNoEmptySlotTest ==
  /\ pc = "target"
  /\ bucket_num < N
  /\ LET b == bucket_num
         should_set_target == b = src
         dest1 == CMov(should_set_target, FLOOR_INDEX, dest)
         src1 == CMov(should_set_target, FLOOR_INDEX, src)
         is_there_a_vacancy == dest1 = FLOOR_INDEX \/ should_set_target
         is_this_a_future_target == is_there_a_vacancy /\ deepest_meta[b] # FLOOR_INDEX
     IN  /\ target_meta' = [target_meta EXCEPT ![b] = CMov(should_set_target, dest, @)]
         /\ src' = CMov(is_this_a_future_target, deepest_meta[b], src1)
         /\ dest' = CMov(is_this_a_future_target, b, dest1)
  /\ bucket_num' = bucket_num + 1
  /\ UNCHANGED <<branch_meta, stash_meta, deepest_meta, goal, slot, pc>>

\* One iteration of the leaf-to-root loop of prepare_target.
PrepareTargetBucket ==
  /\ pc = "target"
  /\ bucket_num < N
  /\ LET b == bucket_num
         should_set_target == b = src
         dest1 == CMov(should_set_target, FLOOR_INDEX, dest)
         src1 == CMov(should_set_target, FLOOR_INDEX, src)
         is_there_a_vacancy == \/ dest1 = FLOOR_INDEX /\ BucketHasEmptySlot(b)
                               \/ should_set_target
         is_this_a_future_target == is_there_a_vacancy /\ deepest_meta[b] # FLOOR_INDEX
     IN  /\ target_meta' = [target_meta EXCEPT ![b] = CMov(should_set_target, dest, @)]
         /\ src' = CMov(is_this_a_future_target, deepest_meta[b], src1)
         /\ dest' = CMov(is_this_a_future_target, b, dest1)
  /\ bucket_num' = bucket_num + 1
  /\ UNCHANGED <<branch_meta, stash_meta, deepest_meta, goal, slot, pc>>

\* Variant that returns without the final stash check.
PrepareTargetStashSkipped ==
  /\ pc = "target"
  /\ bucket_num = N
  /\ pc' = "done"
  /\ UNCHANGED <<branch_meta, stash_meta, deepest_meta, target_meta, goal, src, dest, bucket_num, slot>>

\* After the loop the stash is treated as an extension of the branch.
PrepareTargetStash ==
  /\ pc = "target"
  /\ bucket_num = N
  /\ target_meta' = [target_meta EXCEPT ![N] = CMov(N = src, dest, @)]
  /\ pc' = "done"
  /\ UNCHANGED <<branch_meta, stash_meta, deepest_meta, goal, src, dest, bucket_num, slot>>

Next ==
  \/ TakeSrcForDeepest
  \/ UpdateGoalForElem
  \/ NextDeepestBucket
  \/ StartPrepareTarget
  \/ PrepareTargetBucket
  \/ PrepareTargetStash

Spec == Init /\ [][Next]_vars

-----------------------------------------------------------------------------
(***************************************************************************)
(* Properties.                                                             *)
(***************************************************************************)
TypeOK ==
  /\ branch_meta \in [0 .. N - 1 -> [0 .. Z - 1 -> SlotValues]]
  /\ stash_meta \in [0 .. StashSize - 1 -> SlotValues]
  /\ deepest_meta \in [Levels -> Levels \cup {FLOOR_INDEX}]
  /\ target_meta \in [Levels -> Levels \cup {FLOOR_INDEX}]
  /\ goal \in (0 .. N - 1) \cup {FLOOR_INDEX}
  /\ src \in Levels \cup {FLOOR_INDEX}
  /\ dest \in Levels \cup {FLOOR_INDEX}
  /\ bucket_num \in Levels
  /\ slot \in 0 .. Z + StashSize
  /\ pc \in {"take_src", "scan", "target", "done"}

\* Level l holds a block that may legally reside in bucket d.
Movable(l, d) ==
  \E j \in 0 .. SizeOf(l) - 1 :
     MetaAt(l, j) # 0 /\ LowestHeightLegalIndex(MetaAt(l, j)) <= d

\* Legality of the plan (prepare_target): every non-floor target[i] moves a
\* block strictly towards the leaf, and level i holds a block that may
\* legally reside in bucket target[i].  A vacant stash slot, or a block
\* already at its deepest legal bucket, must never be scheduled.
PlanLegal ==
  \A i \in Levels :
     target_meta[i] # FLOOR_INDEX =>
        /\ target_meta[i] < i
        /\ Movable(i, target_meta[i])

\* The plan fits (prepare_target): no bucket is the target of two levels,
\* and a bucket that receives a block either has a vacant slot or sends one
\* of its own blocks further down in the same plan, so applying the plan
\* never overfills a bucket.
PlanFits ==
  \A i \in Levels :
     target_meta[i] # FLOOR_INDEX =>
        /\ \A k \in Levels \ {i} : target_meta[k] # target_meta[i]
        /\ \/ BucketHasEmptySlot(target_meta[i])
           \/ target_meta[target_meta[i]] # FLOOR_INDEX

\* Progress of the plan: when prepare_target returns, if some bucket has a
\* vacant slot and prepare_deepest found a block above it that may go
\* there, then the plan moves at least one block.
PlanProgress ==
  pc = "done" =>
     ((\E d \in 0 .. N - 1 : BucketHasEmptySlot(d) /\ deepest_meta[d] # FLOOR_INDEX)
        => \E i \in Levels : target_meta[i] # FLOOR_INDEX)

(***************************************************************************)
(* DeepestCorrect: once prepare_deepest has returned, deepest[i] is what   *)
(* the doc comment of prepare_deepest says, computed here from sets: among *)
(* the non-vacant blocks of levels i+1..N that can move below their own   *)
(* level, take the smallest legal index g; if g <= i, deepest[i] is the    *)
(* level nearest the root holding such a block with legal index g, and     *)
(* FLOOR_INDEX otherwise.                                                  *)
(***************************************************************************)
SetMin(S) == CHOOSE x \in S : \A y \in S : x <= y
SetMax(S) == CHOOSE x \in S : \A y \in S : x >= y

Candidates(i) ==
  {c \in (i + 1 .. N) \X (0 .. Z + StashSize) :
     /\ c[2] < SizeOf(c[1])
     /\ MetaAt(c[1], c[2]) # 0
     /\ LowestHeightLegalIndex(MetaAt(c[1], c[2])) < c[1]}

DeepestExpected(i) ==
  IF Candidates(i) = {} THEN FLOOR_INDEX
  ELSE LET g == SetMin({LowestHeightLegalIndex(MetaAt(c[1], c[2])) : c \in Candidates(i)})
       IN  IF g <= i
             THEN SetMax({c[1] : c \in {c \in Candidates(i) :
                                         LowestHeightLegalIndex(MetaAt(c[1], c[2])) = g}})
             ELSE FLOOR_INDEX

DeepestCorrect ==
  pc \in {"target", "done"} => \A i \in Levels : deepest_meta[i] = DeepestExpected(i)

-----------------------------------------------------------------------------
(***************************************************************************)
(* The inductive invariant behind PlanLegal, by parts.                    *)
(***************************************************************************)
\* Every entry prepare_deepest has written names a level above it that
\* holds a block allowed in it.
DeepestSound ==
  \A j \in Levels :
     deepest_meta[j] # FLOOR_INDEX =>
        /\ j < deepest_meta[j]
        /\ deepest_meta[j] \in Levels
        /\ Movable(deepest_meta[j], j)

\* During prepare_deepest: the goal comes with the level that holds a block
\* allowed there, and that level is at or above the current bucket
\* (strictly above before the bucket's own slots are scanned).
DeepestScanSound ==
  pc \in {"take_src", "scan"} =>
     /\ \A i \in Levels : target_meta[i] = FLOOR_INDEX
     /\ goal # FLOOR_INDEX =>
          /\ src \in Levels
          /\ goal < src
          /\ Movable(src, goal)
          /\ pc = "take_src" => bucket_num < src
          /\ pc = "scan" => bucket_num <= src

\* During prepare_target: a pending pair (src, dest) was read from deepest
\* at dest, below the current bucket, and src is not yet passed.
TargetScanSound ==
  (pc \in {"target", "done"} /\ src # FLOOR_INDEX) =>
        /\ dest \in Levels
        /\ deepest_meta[dest] = src
        /\ dest < bucket_num
        /\ pc = "target" => bucket_num <= src

\* Every move of the plan goes back along deepest (the spec's chain property).
ChainBack ==
  \A i \in Levels :
     target_meta[i] # FLOOR_INDEX => deepest_meta[target_meta[i]] = i

IInv ==
  /\ TypeOK
  /\ DeepestSound
  /\ DeepestScanSound
  /\ TargetScanSound
  /\ ChainBack

(***************************************************************************)
(* The inductive invariant behind PlanFits.  A level receives a block     *)
(* only if it has an empty slot or sends a block of its own; once          *)
(* prepare_target has passed a level its target entry never changes.      *)
(***************************************************************************)
\* Level d can take one more block once the plan is applied.
Fit(d) == BucketHasEmptySlot(d) \/ target_meta[d] # FLOOR_INDEX

FitsInv ==
  pc \in {"target", "done"} =>
     /\ \A i \in Levels : target_meta[i] # FLOOR_INDEX =>
           /\ target_meta[i] < bucket_num
           /\ Fit(target_meta[i])
     /\ \A i, k \in Levels :
           (i # k /\ target_meta[i] # FLOOR_INDEX) => target_meta[k] # target_meta[i]
     /\ (pc = "target" /\ src # FLOOR_INDEX) =>
           /\ \A k \in Levels : target_meta[k] # dest
           /\ Fit(dest)

(***************************************************************************)
(* The inductive invariant behind PlanProgress.  During prepare_target,    *)
(* either the plan already has a move, or a found source is pending (it   *)
(* lies at or above the current bucket, so the loop or the final stash     *)
(* check will record its move), or no bucket passed so far had a vacancy   *)
(* that prepare_deepest could fill.  A dispatched move clears dest along   *)
(* with src, and prepare_target returns only after the whole branch.      *)
(***************************************************************************)
ProgressInv ==
  /\ (pc = "target" /\ src = FLOOR_INDEX) => dest = FLOOR_INDEX
  /\ pc = "done" => bucket_num = N
  /\ pc \in {"target", "done"} =>
       \/ \E i \in Levels : target_meta[i] # FLOOR_INDEX
       \/ pc = "target" /\ src # FLOOR_INDEX
       \/ \A d \in 0 .. bucket_num - 1 :
             ~(BucketHasEmptySlot(d) /\ deepest_meta[d] # FLOOR_INDEX)

(***************************************************************************)
(* The inductive invariant behind DeepestCorrect.  prepare_deepest scans   *)
(* the slots from the stash towards the leaf.  Scanned is the set of       *)
(* candidate cells it has already read: every level above bucket_num, and  *)
(* the first slot cells of bucket_num once its slot loop has begun.  goal  *)
(* is the smallest legal index among them and src the level nearest the   *)
(* root that holds a block with that index (equal goals never replace an   *)
(* earlier src).  deepest[i] is final once level i has been taken.         *)
(***************************************************************************)
IsCandidate(c) ==
  /\ c[2] < SizeOf(c[1])
  /\ MetaAt(c[1], c[2]) # 0
  /\ LowestHeightLegalIndex(MetaAt(c[1], c[2])) < c[1]

Scanned ==
  {c \in Levels \X (0 .. Z + StashSize) :
     /\ IsCandidate(c)
     /\ \/ c[1] > bucket_num
        \/ c[1] = bucket_num /\ pc = "scan" /\ c[2] < slot}

\* The legal index of the block in cell c.
CellGoal(c) == LowestHeightLegalIndex(MetaAt(c[1], c[2]))

\* prepare_deepest has written deepest[i] (or left it FLOOR_INDEX for good).
Taken(i) ==
  \/ pc \in {"target", "done"}
  \/ i > bucket_num
  \/ i = bucket_num /\ pc = "scan"

GoalSrcInv ==
  /\ Scanned = {} => goal = FLOOR_INDEX
  /\ Scanned # {} =>
       /\ \E c \in Scanned : CellGoal(c) = goal /\ c[1] = src
       /\ \A c \in Scanned : goal <= CellGoal(c) /\ (CellGoal(c) = goal => c[1] <= src)

DeepestFinal ==
  \A i \in Levels :
     deepest_meta[i] = IF Taken(i) THEN DeepestExpected(i) ELSE FLOOR_INDEX

DeepInv ==
  /\ pc \in {"take_src", "scan"} => GoalSrcInv
  /\ DeepestFinal

=============================================================================
