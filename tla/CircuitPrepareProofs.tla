------------------------ MODULE CircuitPrepareProofs ------------------------
(***************************************************************************)
(* Proofs about CircuitPrepare, for every tree height, bucket size, stash  *)
(* size and branch leaf: the scans keep their variables in range,         *)
(* prepare_deepest computes the deepest-block table, and the plan          *)
(* prepare_target builds is legal, fits and is not empty when it can move. *)
(***************************************************************************)
EXTENDS CircuitPrepare, BranchTreeLemmas, TLAPS

USE HeightAssumption, ZAssumption, StashSizeAssumption

-----------------------------------------------------------------------------
(***************************************************************************)
(* Type correctness.                                                       *)
(***************************************************************************)
LEMMA InitTypeOK == Init => TypeOK
BY DEF Init, TypeOK, ValidBranches, Levels, FLOOR_INDEX, N

LEMMA NextTypeOK == TypeOK /\ [Next]_vars => TypeOK'
<1> SUFFICES ASSUME TypeOK, [Next]_vars PROVE TypeOK'
  OBVIOUS
<1> USE DEF TypeOK, Levels, FLOOR_INDEX, N, CMov
<1>1. CASE TakeSrcForDeepest
  BY <1>1 DEF TakeSrcForDeepest
<1>2. CASE UpdateGoalForElem
  <2> DEFINE elem == MetaAt(bucket_num, slot)
  <2>1. LowestHeightLegalIndex(elem) \in 0 .. N - 1
    BY LegalIndexRange
  <2>2. slot + 1 <= Z + StashSize
    BY <1>2 DEF UpdateGoalForElem, SizeOf
  <2>3. QED
    BY <1>2, <2>1, <2>2 DEF UpdateGoalForElem
<1>3. CASE NextDeepestBucket
  BY <1>3 DEF NextDeepestBucket
<1>4. CASE StartPrepareTarget
  BY <1>4 DEF StartPrepareTarget
<1>5. CASE PrepareTargetBucket
  BY <1>5 DEF PrepareTargetBucket
<1>6. CASE PrepareTargetStash
  BY <1>6 DEF PrepareTargetStash
<1>7. CASE UNCHANGED vars
  BY <1>7 DEF vars
<1>8. QED
  BY <1>1, <1>2, <1>3, <1>4, <1>5, <1>6, <1>7 DEF Next

\* The scans keep every variable in its range (TypeOK), for every height,
\* bucket size and stash size.
THEOREM TypeCorrect == Spec => []TypeOK
BY InitTypeOK, NextTypeOK, PTL DEF Spec

-----------------------------------------------------------------------------
(***************************************************************************)
(* Legality of the plan.  PlanLegal is not inductive by itself: a move     *)
(* target[i] = d is legal because deepest[d] = i (ChainBack) and every    *)
(* entry of deepest names a level holding a block allowed below it        *)
(* (DeepestSound); those in turn rest on what the running values goal,    *)
(* src and dest mean during each scan (DeepestScanSound, TargetScanSound). *)
(***************************************************************************)

\* Movable reads only the branch and the stash, which the scans never write.
LEMMA MovableStable ==
  ASSUME NEW l, NEW d, branch_meta' = branch_meta, stash_meta' = stash_meta
  PROVE  Movable(l, d)' <=> Movable(l, d)
BY DEF Movable, MetaAt, SizeOf

\* A block allowed in bucket d1 is allowed in every bucket above it.
LEMMA MovableMono ==
  ASSUME NEW l, NEW d1 \in Int, NEW d2 \in Int, d1 <= d2, Movable(l, d1)
  PROVE  Movable(l, d2)
<1>1. PICK j \in 0 .. SizeOf(l) - 1 :
         MetaAt(l, j) # 0 /\ LowestHeightLegalIndex(MetaAt(l, j)) <= d1
  BY DEF Movable
<1>2. LowestHeightLegalIndex(MetaAt(l, j)) \in Int
  BY LegalIndexRange
<1>3. QED
  BY <1>1, <1>2 DEF Movable

LEMMA InitIInv == Init => IInv
BY InitTypeOK DEF Init, IInv, DeepestSound, DeepestScanSound, TargetScanSound,
                  ChainBack, FLOOR_INDEX, Levels, N

LEMMA NextIInv == IInv /\ [Next]_vars => IInv'
<1> SUFFICES ASSUME IInv, [Next]_vars PROVE IInv'
  OBVIOUS
<1> USE DEF IInv, TypeOK, Levels, FLOOR_INDEX, N, CMov
<1>0. TypeOK'
  BY NextTypeOK
<1>1. CASE TakeSrcForDeepest
  <2>1. DeepestSound'
    <3> SUFFICES ASSUME NEW j \in Levels, deepest_meta'[j] # FLOOR_INDEX
                 PROVE  (/\ j < deepest_meta[j]
                         /\ deepest_meta[j] \in Levels
                         /\ Movable(deepest_meta[j], j))'
      BY DEF DeepestSound
    <3>1. CASE j = bucket_num /\ ~(bucket_num < goal)
      <4>1. deepest_meta'[j] = src
        BY <1>1, <3>1 DEF TakeSrcForDeepest
      <4>2. goal # FLOOR_INDEX /\ goal \in Int
        BY <3>1
      <4>3. src \in Levels /\ goal < src /\ Movable(src, goal) /\ bucket_num < src
        BY <1>1, <4>2 DEF DeepestScanSound, TakeSrcForDeepest
      <4>4. Movable(src, j)
        BY <3>1, <4>2, <4>3, MovableMono
      <4>5. QED
        BY <1>1, <4>1, <4>3, <4>4, <3>1 DEF TakeSrcForDeepest, Movable, MetaAt, SizeOf
    <3>2. CASE ~(j = bucket_num /\ ~(bucket_num < goal))
      <4>1. deepest_meta'[j] = deepest_meta[j]
        BY <1>1, <3>2 DEF TakeSrcForDeepest
      <4>2. deepest_meta[j] # FLOOR_INDEX
        BY <4>1
      <4>3. /\ j < deepest_meta[j]
            /\ deepest_meta[j] \in Levels
            /\ Movable(deepest_meta[j], j)
        BY <4>2 DEF DeepestSound
      <4>4. QED
        BY <1>1, <4>1, <4>3 DEF TakeSrcForDeepest, Movable, MetaAt, SizeOf
    <3>3. QED
      BY <3>1, <3>2
  <2>2. DeepestScanSound'
    BY <1>1, MovableStable DEF DeepestScanSound, TakeSrcForDeepest
  <2>3. TargetScanSound' /\ ChainBack'
    BY <1>1 DEF TargetScanSound, ChainBack, DeepestScanSound, TakeSrcForDeepest
  <2>4. QED
    BY <1>0, <2>1, <2>2, <2>3
<1>2. CASE UpdateGoalForElem
  <2> DEFINE elem == MetaAt(bucket_num, slot)
             ed == LowestHeightLegalIndex(elem)
             deeper == ed < goal /\ ed < bucket_num /\ elem # 0
  <2>1. ed \in 0 .. N - 1
    BY LegalIndexRange
  <2>2. DeepestSound'
    BY <1>2, MovableStable DEF DeepestSound, UpdateGoalForElem
  <2>3. CASE deeper
    <3>1. goal' = ed /\ src' = bucket_num
      BY <1>2, <2>3 DEF UpdateGoalForElem
    <3>2. slot \in 0 .. SizeOf(bucket_num) - 1
      BY <1>2 DEF UpdateGoalForElem, SizeOf
    <3>3. Movable(bucket_num, ed)
      <4>1. MetaAt(bucket_num, slot) # 0 /\ LowestHeightLegalIndex(MetaAt(bucket_num, slot)) <= ed
        BY <2>1, <2>3
      <4>2. QED
        BY <3>2, <4>1 DEF Movable
    <3>4. DeepestScanSound'
      BY <1>2, <2>1, <2>3, <3>1, <3>3, MovableStable DEF DeepestScanSound, UpdateGoalForElem
    <3>5. QED
      BY <1>0, <1>2, <2>2, <3>4 DEF TargetScanSound, ChainBack, UpdateGoalForElem
  <2>4. CASE ~deeper
    <3>1. goal' = goal /\ src' = src
      BY <1>2, <2>4 DEF UpdateGoalForElem
    <3>2. DeepestScanSound'
      BY <1>2, <3>1, MovableStable DEF DeepestScanSound, UpdateGoalForElem
    <3>3. QED
      BY <1>0, <1>2, <2>2, <3>2 DEF TargetScanSound, ChainBack, UpdateGoalForElem
  <2>5. QED
    BY <2>3, <2>4
<1>3. CASE NextDeepestBucket
  <2>1. DeepestSound' /\ DeepestScanSound'
    BY <1>3, MovableStable DEF DeepestSound, DeepestScanSound, NextDeepestBucket
  <2>2. QED
    BY <1>0, <1>3, <2>1 DEF TargetScanSound, ChainBack, NextDeepestBucket
<1>4. CASE StartPrepareTarget
  <2>1. DeepestSound'
    BY <1>4, MovableStable DEF DeepestSound, StartPrepareTarget
  <2>2. QED
    BY <1>0, <1>4, <2>1 DEF DeepestScanSound, TargetScanSound, ChainBack, StartPrepareTarget
<1>5. CASE PrepareTargetBucket
  <2> DEFINE b == bucket_num
             sst == b = src
             dest1 == IF sst THEN FLOOR_INDEX ELSE dest
             src1 == IF sst THEN FLOOR_INDEX ELSE src
             vac == (dest1 = FLOOR_INDEX /\ BucketHasEmptySlot(b)) \/ sst
             fut == vac /\ deepest_meta[b] # FLOOR_INDEX
  <2>0. /\ pc = "target" /\ b < N
        /\ target_meta' = [target_meta EXCEPT ![b] = IF sst THEN dest ELSE @]
        /\ src' = IF fut THEN deepest_meta[b] ELSE src1
        /\ dest' = IF fut THEN b ELSE dest1
        /\ bucket_num' = b + 1
        /\ UNCHANGED <<branch_meta, stash_meta, deepest_meta, pc>>
    BY <1>5 DEF PrepareTargetBucket
  <2>1. DeepestSound'
    BY <2>0, MovableStable DEF DeepestSound
  <2>2. DeepestScanSound'
    BY <2>0 DEF DeepestScanSound
  <2>3. ChainBack'
    <3> SUFFICES ASSUME NEW i \in Levels, target_meta'[i] # FLOOR_INDEX
                 PROVE  deepest_meta[target_meta'[i]] = i
      BY <2>0 DEF ChainBack
    <3>1. CASE i = b /\ sst
      BY <2>0, <3>1 DEF TargetScanSound
    <3>2. CASE ~(i = b /\ sst)
      BY <2>0, <3>2 DEF ChainBack
    <3>3. QED
      BY <3>1, <3>2
  <2>4. TargetScanSound'
    <3>1. CASE fut
      <4>1. deepest_meta[b] # FLOOR_INDEX
        BY <3>1
      <4>2. b < deepest_meta[b] /\ deepest_meta[b] \in Levels
        BY <4>1 DEF DeepestSound
      <4>3. src' = deepest_meta[b] /\ dest' = b
        BY <2>0, <3>1
      <4>4. QED
        BY <2>0, <4>2, <4>3 DEF TargetScanSound
    <3>2. CASE ~fut /\ sst
      <4>1. src' = FLOOR_INDEX
        BY <2>0, <3>2
      <4>2. QED
        BY <4>1 DEF TargetScanSound
    <3>3. CASE ~fut /\ ~sst
      BY <2>0, <3>3 DEF TargetScanSound
    <3>4. QED
      BY <3>1, <3>2, <3>3
  <2>5. QED
    BY <1>0, <2>1, <2>2, <2>3, <2>4
<1>6. CASE PrepareTargetStash
  <2>0. /\ pc = "target" /\ bucket_num = N
        /\ target_meta' = [target_meta EXCEPT ![N] = IF N = src THEN dest ELSE @]
        /\ pc' = "done"
        /\ UNCHANGED <<branch_meta, stash_meta, deepest_meta, goal, src, dest, bucket_num>>
    BY <1>6 DEF PrepareTargetStash
  <2>1. DeepestSound' /\ DeepestScanSound'
    BY <2>0, MovableStable DEF DeepestSound, DeepestScanSound
  <2>2. ChainBack'
    BY <2>0 DEF ChainBack, TargetScanSound
  <2>3. TargetScanSound'
    BY <2>0 DEF TargetScanSound
  <2>4. QED
    BY <1>0, <2>1, <2>2, <2>3
<1>7. CASE UNCHANGED vars
  <2>1. DeepestSound' /\ DeepestScanSound'
    BY <1>7, MovableStable DEF vars, DeepestSound, DeepestScanSound
  <2>2. QED
    BY <1>0, <1>7, <2>1 DEF vars, TargetScanSound, ChainBack
<1>8. QED
  BY <1>1, <1>2, <1>3, <1>4, <1>5, <1>6, <1>7 DEF Next

\* The inductive invariant implies the legality of the plan.
LEMMA IInvPlanLegal == IInv => PlanLegal
<1> SUFFICES ASSUME IInv, NEW i \in Levels, target_meta[i] # FLOOR_INDEX
             PROVE  target_meta[i] < i /\ Movable(i, target_meta[i])
  BY DEF PlanLegal
<1>1. deepest_meta[target_meta[i]] = i
  BY DEF IInv, ChainBack
<1>2. target_meta[i] \in Levels
  BY DEF IInv, TypeOK
<1>3. QED
  BY <1>1, <1>2 DEF IInv, DeepestSound, Levels, FLOOR_INDEX, N

\* Every move of the plan that prepare_target builds sends a block of level
\* i strictly towards the leaf, into a bucket that block may legally occupy
\* (PlanLegal), for every height, bucket size, stash size and leaf.
THEOREM PlanLegalHolds == Spec => []PlanLegal
<1>1. Spec => []IInv
  BY InitIInv, NextIInv, PTL DEF Spec
<1>2. QED
  BY <1>1, IInvPlanLegal, PTL

-----------------------------------------------------------------------------
(***************************************************************************)
(* The plan fits.  FitsInv says what prepare_target's registers and the   *)
(* entries it has written mean: every entry points below the current       *)
(* bucket to a level that can take a block, entries are distinct, and the *)
(* pending vacancy dest is free and not yet the target of anyone.  It     *)
(* rests on IInv for the range of dest (TargetScanSound) and for the      *)
(* target array being empty during prepare_deepest (DeepestScanSound).    *)
(***************************************************************************)
LEMMA InitFitsInv == Init => FitsInv
BY DEF Init, FitsInv

LEMMA NextFitsInv == IInv /\ FitsInv /\ [Next]_vars => FitsInv'
<1> SUFFICES ASSUME IInv, FitsInv, [Next]_vars PROVE FitsInv'
  OBVIOUS
<1> USE DEF TypeOK, Levels, FLOOR_INDEX, N, CMov
\* Fit after the step, the branch being read only.
<1> DEFINE FitN(d) == BucketHasEmptySlot(d) \/ target_meta'[d] # FLOOR_INDEX
<1>1. CASE TakeSrcForDeepest \/ UpdateGoalForElem \/ NextDeepestBucket
  <2>1. pc' \in {"take_src", "scan"}
    BY <1>1 DEF TakeSrcForDeepest, UpdateGoalForElem, NextDeepestBucket
  <2>2. QED
    BY <2>1 DEF FitsInv
<1>2. CASE StartPrepareTarget
  BY <1>2 DEF StartPrepareTarget, FitsInv
<1>3. CASE PrepareTargetBucket
  <2> DEFINE b == bucket_num
             sst == b = src
             dest1 == IF sst THEN FLOOR_INDEX ELSE dest
             src1 == IF sst THEN FLOOR_INDEX ELSE src
             vac == (dest1 = FLOOR_INDEX /\ BucketHasEmptySlot(b)) \/ sst
             fut == vac /\ deepest_meta[b] # FLOOR_INDEX
  <2>0. /\ pc = "target" /\ b < N
        /\ target_meta' = [target_meta EXCEPT ![b] = IF sst THEN dest ELSE @]
        /\ src' = IF fut THEN deepest_meta[b] ELSE src1
        /\ dest' = IF fut THEN b ELSE dest1
        /\ bucket_num' = b + 1
        /\ UNCHANGED <<branch_meta, stash_meta, deepest_meta, pc>>
    BY <1>3 DEF PrepareTargetBucket
  <2>1. TypeOK /\ b \in 0 .. N - 1
    BY <2>0 DEF IInv
  <2>2. sst => dest \in Levels /\ dest < b
    BY <2>0, <2>1 DEF IInv, TargetScanSound
  <2>3. sst => (\A k \in Levels : target_meta[k] # dest) /\ Fit(dest)
    BY <2>0, <2>1 DEF FitsInv
  \* Entries only change at b, and a non-floor entry stays non-floor.
  <2>4. \A i \in Levels : target_meta'[i] = IF i = b /\ sst THEN dest ELSE target_meta[i]
    BY <2>0, <2>1
  <2>5. \A d \in Levels : Fit(d) => FitN(d)
    BY <2>1, <2>2, <2>4 DEF Fit
  <2>6. \A i \in Levels : target_meta[i] # FLOOR_INDEX =>
           target_meta[i] < b /\ Fit(target_meta[i])
    BY <2>0 DEF FitsInv
  <2>7. ASSUME NEW i \in Levels, target_meta'[i] # FLOOR_INDEX
        PROVE  target_meta'[i] < b + 1 /\ FitN(target_meta'[i])
    <3>1. CASE i = b /\ sst
      BY <2>2, <2>3, <2>4, <2>5, <3>1
    <3>2. CASE ~(i = b /\ sst)
      <4>1. target_meta'[i] = target_meta[i] /\ target_meta[i] # FLOOR_INDEX
        BY <2>4, <2>7, <3>2
      <4>2. target_meta[i] \in Levels
        BY <2>1, <4>1
      <4>3. target_meta[i] < b /\ Fit(target_meta[i])
        BY <2>6, <4>1
      <4>4. QED
        <5>1. FitN(target_meta[i])
          BY <2>5, <4>2, <4>3
        <5>2. QED
          BY <2>1, <5>1, <4>1, <4>2, <4>3
    <3>3. QED
      BY <3>1, <3>2
  <2>8. ASSUME NEW i \in Levels, NEW k \in Levels, i # k, target_meta'[i] # FLOOR_INDEX
        PROVE  target_meta'[k] # target_meta'[i]
    <3>1. CASE sst /\ (i = b \/ k = b)
      BY <2>3, <2>4, <2>8, <3>1
    <3>2. CASE ~(sst /\ (i = b \/ k = b))
      BY <2>0, <2>4, <2>8, <3>2 DEF FitsInv
    <3>3. QED
      BY <3>1, <3>2
  <2>9. src' # FLOOR_INDEX =>
          (\A k \in Levels : target_meta'[k] # dest') /\ FitN(dest')
    <3>1. CASE fut
      <4>1. dest' = b
        BY <2>0, <3>1
      <4>2. \A k \in Levels : target_meta'[k] # b
        <5> SUFFICES ASSUME NEW k \in Levels, target_meta'[k] # FLOOR_INDEX
                     PROVE  target_meta'[k] # b
          BY <2>1
        <5>1. target_meta'[k] < b
          BY <2>2, <2>4, <2>6
        <5>2. QED
          BY <5>1, <2>1
      <4>3. FitN(b)
        <5>1. CASE dest1 = FLOOR_INDEX /\ BucketHasEmptySlot(b)
          BY <5>1
        <5>2. CASE sst
          BY <2>1, <2>2, <2>4, <5>2
        <5>3. QED
          BY <3>1, <5>1, <5>2
      <4>4. QED
        BY <4>1, <4>2, <4>3
    <3>2. CASE ~fut /\ sst
      BY <2>0, <3>2
    <3>3. CASE ~fut /\ ~sst
      <4>1. src' = src /\ dest' = dest /\ target_meta' = target_meta
        BY <2>0, <2>1, <2>4, <3>3
      <4>2. src # FLOOR_INDEX => dest \in Levels
        BY <2>0 DEF IInv, TargetScanSound
      <4>3. src # FLOOR_INDEX => (\A k \in Levels : target_meta[k] # dest) /\ Fit(dest)
        BY <2>0 DEF FitsInv
      <4>4. QED
        BY <2>5, <4>1, <4>2, <4>3
    <3>4. QED
      BY <3>1, <3>2, <3>3
  <2>10. \A i \in Levels : target_meta'[i] \in Levels \cup {FLOOR_INDEX}
    BY <2>1, <2>2, <2>4
  <2>11. dest' \in Levels \cup {FLOOR_INDEX}
    BY <2>0, <2>1
  <2>12. (\A i \in Levels : target_meta[i] # FLOOR_INDEX =>
            target_meta[i] < bucket_num /\ Fit(target_meta[i]))'
    BY <2>0, <2>7, <2>10 DEF Fit, FitN, BucketHasEmptySlot
  <2>13. ((pc = "target" /\ src # FLOOR_INDEX) =>
            (\A k \in Levels : target_meta[k] # dest) /\ Fit(dest))'
    BY <2>0, <2>9, <2>11 DEF Fit, FitN, BucketHasEmptySlot
  <2>14. QED
    BY <2>8, <2>12, <2>13 DEF FitsInv
<1>4. CASE PrepareTargetStash
  <2> DEFINE sst == N = src
  <2>0. /\ pc = "target" /\ bucket_num = N
        /\ target_meta' = [target_meta EXCEPT ![N] = IF sst THEN dest ELSE @]
        /\ pc' = "done"
        /\ UNCHANGED <<branch_meta, stash_meta, deepest_meta, goal, src, dest, bucket_num>>
    BY <1>4 DEF PrepareTargetStash
  <2>1. TypeOK
    BY DEF IInv
  <2>2. sst => dest \in Levels /\ dest < N
    BY <2>0, <2>1 DEF IInv, TargetScanSound
  <2>3. sst => (\A k \in Levels : target_meta[k] # dest) /\ Fit(dest)
    BY <2>0, <2>1 DEF FitsInv
  <2>4. \A i \in Levels : target_meta'[i] = IF i = N /\ sst THEN dest ELSE target_meta[i]
    BY <2>0, <2>1
  <2>5. \A d \in Levels : Fit(d) => FitN(d)
    BY <2>1, <2>2, <2>4 DEF Fit
  <2>6. \A i \in Levels : target_meta[i] # FLOOR_INDEX =>
           target_meta[i] < N /\ Fit(target_meta[i])
    BY <2>0 DEF FitsInv
  <2>7. ASSUME NEW i \in Levels, target_meta'[i] # FLOOR_INDEX
        PROVE  target_meta'[i] < N /\ FitN(target_meta'[i])
    <3>1. CASE i = N /\ sst
      BY <2>2, <2>3, <2>4, <2>5, <3>1
    <3>2. CASE ~(i = N /\ sst)
      <4>1. target_meta'[i] = target_meta[i] /\ target_meta[i] # FLOOR_INDEX
        BY <2>4, <2>7, <3>2
      <4>2. target_meta[i] \in Levels
        BY <2>1, <4>1
      <4>3. target_meta[i] < N /\ Fit(target_meta[i])
        BY <2>6, <4>1
      <4>4. QED
        BY <2>5, <4>1, <4>2, <4>3
    <3>3. QED
      BY <3>1, <3>2
  <2>8. ASSUME NEW i \in Levels, NEW k \in Levels, i # k, target_meta'[i] # FLOOR_INDEX
        PROVE  target_meta'[k] # target_meta'[i]
    <3>1. CASE sst /\ (i = N \/ k = N)
      BY <2>3, <2>4, <2>8, <3>1
    <3>2. CASE ~(sst /\ (i = N \/ k = N))
      BY <2>0, <2>4, <2>8, <3>2 DEF FitsInv
    <3>3. QED
      BY <3>1, <3>2
  <2>9. \A i \in Levels : target_meta'[i] \in Levels \cup {FLOOR_INDEX}
    BY <2>1, <2>2, <2>4
  <2>10. QED
    BY <2>0, <2>7, <2>8, <2>9 DEF FitsInv, Fit, FitN, BucketHasEmptySlot
<1>5. CASE UNCHANGED vars
  BY <1>5 DEF vars, FitsInv, Fit, BucketHasEmptySlot
<1>6. QED
  BY <1>1, <1>2, <1>3, <1>4, <1>5 DEF Next

\* The two invariants together give PlanFits: during prepare_deepest the
\* target array is empty, afterwards FitsInv says it directly.
LEMMA FitsInvPlanFits == IInv /\ FitsInv => PlanFits
<1> SUFFICES ASSUME IInv, FitsInv, NEW i \in Levels, target_meta[i] # FLOOR_INDEX
             PROVE  /\ \A k \in Levels \ {i} : target_meta[k] # target_meta[i]
                    /\ \/ BucketHasEmptySlot(target_meta[i])
                       \/ target_meta[target_meta[i]] # FLOOR_INDEX
  BY DEF PlanFits
<1>1. pc \in {"target", "done"}
  BY DEF IInv, TypeOK, DeepestScanSound
<1>2. QED
  BY <1>1 DEF FitsInv, Fit

\* Applying the plan prepare_target builds never overfills a bucket: no
\* level is the target of two levels, and a level that receives a block has
\* an empty slot or sends a block of its own (PlanFits), for every height,
\* bucket size, stash size and leaf.
THEOREM PlanFitsHolds == Spec => []PlanFits
<1>1. Spec => [](IInv /\ FitsInv)
  <2>1. Init => IInv /\ FitsInv
    BY InitIInv, InitFitsInv
  <2>2. IInv /\ FitsInv /\ [Next]_vars => (IInv /\ FitsInv)'
    BY NextIInv, NextFitsInv
  <2>3. QED
    BY <2>1, <2>2, PTL DEF Spec
<1>2. QED
  BY <1>1, FitsInvPlanFits, PTL


-----------------------------------------------------------------------------
(***************************************************************************)
(* PlanProgress, through ProgressInv.                                     *)
(***************************************************************************)
LEMMA InitProgressInv == Init => ProgressInv
BY DEF Init, ProgressInv

\* The third conjunct of ProgressInv, named for the steps below.
Progressing ==
  \/ \E i \in Levels : target_meta[i] # FLOOR_INDEX
  \/ pc = "target" /\ src # FLOOR_INDEX
  \/ \A d \in 0 .. bucket_num - 1 :
        ~(BucketHasEmptySlot(d) /\ deepest_meta[d] # FLOOR_INDEX)

LEMMA NextProgressInv == IInv /\ ProgressInv /\ [Next]_vars => ProgressInv'
<1> SUFFICES ASSUME IInv, ProgressInv, [Next]_vars PROVE ProgressInv'
  OBVIOUS
<1> USE DEF TypeOK, Levels, FLOOR_INDEX, N, CMov
<1>0. TypeOK
  BY DEF IInv
<1>1. CASE TakeSrcForDeepest \/ UpdateGoalForElem \/ NextDeepestBucket
  <2>1. pc' \in {"take_src", "scan"}
    BY <1>1 DEF TakeSrcForDeepest, UpdateGoalForElem, NextDeepestBucket
  <2>2. QED
    BY <2>1 DEF ProgressInv
<1>2. CASE StartPrepareTarget
  BY <1>2 DEF StartPrepareTarget, ProgressInv
<1>3. CASE PrepareTargetBucket
  <2> DEFINE b == bucket_num
             sst == b = src
             dest1 == IF sst THEN FLOOR_INDEX ELSE dest
             src1 == IF sst THEN FLOOR_INDEX ELSE src
             vac == (dest1 = FLOOR_INDEX /\ BucketHasEmptySlot(b)) \/ sst
             fut == vac /\ deepest_meta[b] # FLOOR_INDEX
  <2>0. /\ pc = "target" /\ b < N
        /\ target_meta' = [target_meta EXCEPT ![b] = IF sst THEN dest ELSE @]
        /\ src' = IF fut THEN deepest_meta[b] ELSE src1
        /\ dest' = IF fut THEN b ELSE dest1
        /\ bucket_num' = b + 1
        /\ UNCHANGED <<branch_meta, stash_meta, deepest_meta, pc>>
    BY <1>3 DEF PrepareTargetBucket
  <2>1. b \in 0 .. N - 1
    BY <1>0, <2>0
  \* A pending source is at or above b, and comes with its dest.
  <2>2. src # FLOOR_INDEX => dest \in Levels /\ b <= src
    BY <2>0 DEF IInv, TargetScanSound
  \* A future target names a source strictly above b.
  <2>3. deepest_meta[b] # FLOOR_INDEX => deepest_meta[b] \in Levels /\ b < deepest_meta[b]
    BY <2>1 DEF IInv, DeepestSound
  <2>4. \A i \in Levels : target_meta'[i] = IF i = b /\ sst THEN dest ELSE target_meta[i]
    BY <1>0, <2>0, <2>1
  <2>5. ((pc = "target" /\ src = FLOOR_INDEX) => dest = FLOOR_INDEX)'
    BY <2>0 DEF ProgressInv
  <2>6. (pc = "done" => bucket_num = N)'
    BY <2>0
  <2>7. Progressing'
    <3>1. CASE \E i \in Levels : target_meta[i] # FLOOR_INDEX
      BY <3>1, <2>2, <2>4 DEF Progressing
    <3>2. CASE src # FLOOR_INDEX /\ sst
      <4>1. target_meta'[b] # FLOOR_INDEX
        BY <3>2, <2>1, <2>2, <2>4
      <4>2. QED
        BY <4>1, <2>1 DEF Progressing
    <3>3. CASE src # FLOOR_INDEX /\ ~sst
      <4>1. src' # FLOOR_INDEX
        BY <3>3, <2>0, <2>3
      <4>2. QED
        BY <4>1, <2>0 DEF Progressing
    <3>4. CASE src = FLOOR_INDEX
                 /\ \A d \in 0 .. b - 1 : ~(BucketHasEmptySlot(d) /\ deepest_meta[d] # FLOOR_INDEX)
      <4>1. dest = FLOOR_INDEX /\ ~sst
        BY <3>4, <2>0, <2>1 DEF ProgressInv
      <4>2. CASE BucketHasEmptySlot(b) /\ deepest_meta[b] # FLOOR_INDEX
        <5>1. src' # FLOOR_INDEX
          BY <4>1, <4>2, <2>0, <2>3
        <5>2. QED
          BY <5>1, <2>0 DEF Progressing
      <4>3. CASE ~(BucketHasEmptySlot(b) /\ deepest_meta[b] # FLOOR_INDEX)
        <5>1. \A d \in 0 .. bucket_num' - 1 :
                 ~(BucketHasEmptySlot(d) /\ deepest_meta[d] # FLOOR_INDEX)'
          BY <3>4, <4>3, <2>0, <2>1 DEF BucketHasEmptySlot
        <5>2. QED
          BY <5>1 DEF Progressing
      <4>4. QED
        BY <4>2, <4>3
    <3>5. QED
      BY <2>0 , <3>1, <3>2, <3>3, <3>4 DEF ProgressInv, Progressing
  <2>8. QED
    BY <2>5, <2>6, <2>7 DEF ProgressInv, Progressing
<1>4. CASE PrepareTargetStash
  <2>0. /\ pc = "target" /\ bucket_num = N
        /\ target_meta' = [target_meta EXCEPT ![N] = IF N = src THEN dest ELSE @]
        /\ pc' = "done"
        /\ UNCHANGED <<branch_meta, stash_meta, deepest_meta, src, dest, bucket_num>>
    BY <1>4 DEF PrepareTargetStash
  <2>1. src # FLOOR_INDEX => dest \in Levels /\ src = N
    BY <1>0, <2>0 DEF IInv, TargetScanSound
  <2>2. \A i \in Levels : target_meta'[i] = IF i = N /\ N = src THEN dest ELSE target_meta[i]
    BY <1>0, <2>0
  <2>3. Progressing'
    <3>1. CASE src # FLOOR_INDEX
      BY <3>1, <2>1, <2>2 DEF Progressing
    <3>2. CASE src = FLOOR_INDEX
      BY <3>2, <2>0, <2>2 DEF ProgressInv, Progressing, BucketHasEmptySlot
    <3>3. QED
      BY <3>1, <3>2
  <2>4. QED
    BY <2>0, <2>3 DEF ProgressInv, Progressing
<1>5. CASE UNCHANGED vars
  BY <1>5 DEF vars, ProgressInv, BucketHasEmptySlot
<1>6. QED
  BY <1>1, <1>2, <1>3, <1>4, <1>5 DEF Next

LEMMA ProgressInvPlanProgress == ProgressInv => PlanProgress
BY DEF ProgressInv, PlanProgress

\* When prepare_target returns and some bucket has a vacant slot that
\* prepare_deepest found a block for, the plan moves at least one block
\* (PlanProgress): a source found on the way up is recorded when the loop
\* reaches it, or by the final stash check, for every height, bucket size,
\* stash size and leaf.
THEOREM PlanProgressHolds == Spec => []PlanProgress
<1>1. Spec => [](IInv /\ ProgressInv)
  <2>1. Init => IInv /\ ProgressInv
    BY InitIInv, InitProgressInv
  <2>2. IInv /\ ProgressInv /\ [Next]_vars => (IInv /\ ProgressInv)'
    BY NextIInv, NextProgressInv
  <2>3. QED
    BY <2>1, <2>2, PTL DEF Spec
<1>2. QED
  BY <1>1, ProgressInvPlanProgress, PTL


-----------------------------------------------------------------------------
(***************************************************************************)
(* DeepestCorrect.  DeepInv (in CircuitPrepare) says what goal and src     *)
(* are over the cells prepare_deepest has scanned, and that every taken    *)
(* entry of deepest already has its final value.  When the scan takes     *)
(* level b, the scanned cells are exactly Candidates(b), so the cmov of    *)
(* deepest[b] computes DeepestExpected(b).                                 *)
(***************************************************************************)
\* The minimum and the maximum of a set of integers are the element that
\* bounds all others, whichever element CHOOSE would otherwise pick.
LEMMA SetMinIs ==
  ASSUME NEW S \in SUBSET Int, NEW m \in S, \A y \in S : m <= y
  PROVE  SetMin(S) = m
<1>1. SetMin(S) \in S /\ \A y \in S : SetMin(S) <= y
  BY Zenon DEF SetMin
<1>2. SetMin(S) \in Int /\ m \in Int
  BY <1>1
<1>3. QED
  BY <1>1, <1>2

LEMMA SetMaxIs ==
  ASSUME NEW S \in SUBSET Int, NEW m \in S, \A y \in S : m >= y
  PROVE  SetMax(S) = m
<1>1. SetMax(S) \in S /\ \A y \in S : SetMax(S) >= y
  BY Zenon DEF SetMax
<1>2. SetMax(S) \in Int /\ m \in Int
  BY <1>1
<1>3. QED
  BY <1>1, <1>2

\* DeepestExpected reads only the branch and the stash.
LEMMA ExpectedStable ==
  ASSUME NEW i, branch_meta' = branch_meta, stash_meta' = stash_meta
  PROVE  DeepestExpected(i)' = DeepestExpected(i)
BY DEF DeepestExpected, Candidates, MetaAt, SizeOf

\* Before the slots of level b are read, the scanned cells are the
\* candidates of b: the cells of the levels above it.
LEMMA ScannedAtTake ==
  ASSUME TypeOK, pc = "take_src"
  PROVE  Candidates(bucket_num) = Scanned
<1>1. ASSUME NEW c
      PROVE  c \in Candidates(bucket_num) <=> c \in Scanned
  BY DEF TypeOK, Candidates, Scanned, IsCandidate, Levels
<1>2. QED
  BY <1>1

\* The cmov of deepest[bucket_num] in
\* update_goal_and_deepest_for_a_single_bucket stores DeepestExpected.
LEMMA ExpectedFromScan ==
  ASSUME TypeOK, DeepInv, pc = "take_src"
  PROVE  DeepestExpected(bucket_num) = CMov(~(bucket_num < goal), src, FLOOR_INDEX)
<1> DEFINE b == bucket_num
           C == Candidates(b)
           G == {LowestHeightLegalIndex(MetaAt(c[1], c[2])) : c \in C}
           Top == {c \in C : LowestHeightLegalIndex(MetaAt(c[1], c[2])) = goal}
<1>1. C = Scanned
  BY ScannedAtTake
<1>2. b \in 0 .. N /\ goal \in Int
  BY DEF TypeOK, Levels, FLOOR_INDEX
<1>3. CASE Scanned = {}
  <2>1. goal = FLOOR_INDEX
    BY <1>3 DEF DeepInv, GoalSrcInv
  <2>2. b < goal
    BY <1>2, <2>1 DEF FLOOR_INDEX, N
  <2>3. QED
    BY <1>1, <1>3, <2>2 DEF DeepestExpected, CMov
<1>4. CASE Scanned # {}
  <2>1. /\ \E c \in Scanned : CellGoal(c) = goal /\ c[1] = src
        /\ \A c \in Scanned : goal <= CellGoal(c) /\ (CellGoal(c) = goal => c[1] <= src)
    BY <1>4 DEF DeepInv, GoalSrcInv
  <2>2. G \in SUBSET Int
    BY LegalIndexRange
  <2>3. SetMin(G) = goal
    BY <1>1, <2>1, <2>2, SetMinIs DEF CellGoal
  <2>4. {c[1] : c \in Top} \in SUBSET Int
    BY <1>1 DEF Scanned, Levels
  <2>5. SetMax({c[1] : c \in Top}) = src
    <3>1. src \in {c[1] : c \in Top}
      BY <1>1, <2>1 DEF CellGoal
    <3>2. \A y \in {c[1] : c \in Top} : src >= y
      BY <1>1, <2>1 DEF CellGoal
    <3>3. QED
      BY <2>4, <3>1, <3>2, SetMaxIs
  <2>6. C # {}
    BY <1>1, <1>4
  <2>7. DeepestExpected(b) = IF SetMin(G) <= b THEN SetMax({c[1] : c \in Top}) ELSE FLOOR_INDEX
    BY <2>3, <2>6, Zenon DEF DeepestExpected
  <2>8. QED
    BY <1>2, <2>3, <2>5, <2>7 DEF CMov
<1>5. QED
  BY <1>3, <1>4

LEMMA InitDeepInv == Init => DeepInv
<1> SUFFICES ASSUME Init PROVE DeepInv
  OBVIOUS
<1>1. Scanned = {}
  BY DEF Init, Scanned, Levels, N
<1>2. \A i \in Levels : ~Taken(i)
  BY DEF Init, Taken, Levels, N
<1>3. QED
  BY <1>1, <1>2 DEF Init, DeepInv, GoalSrcInv, DeepestFinal


\* The cells' candidacy and legal index read only the branch and the stash.
LEMMA CellStable ==
  ASSUME NEW c, branch_meta' = branch_meta, stash_meta' = stash_meta
  PROVE  /\ CellGoal(c)' = CellGoal(c)
         /\ IsCandidate(c)' <=> IsCandidate(c)
BY DEF CellGoal, IsCandidate, MetaAt, SizeOf

\* A step that leaves the scanned cells, goal and src alone keeps GoalSrcInv.
LEMMA GoalSrcStable ==
  ASSUME GoalSrcInv, Scanned' = Scanned, goal' = goal, src' = src,
         branch_meta' = branch_meta, stash_meta' = stash_meta
  PROVE  GoalSrcInv'
<1>1. \A c : CellGoal(c)' = CellGoal(c)
  BY CellStable
<1>2. QED
  BY <1>1 DEF GoalSrcInv

\* A step that leaves deepest and the taken levels alone keeps DeepestFinal.
LEMMA DeepestFinalStable ==
  ASSUME DeepestFinal, deepest_meta' = deepest_meta,
         \A i \in Levels : Taken(i)' <=> Taken(i),
         branch_meta' = branch_meta, stash_meta' = stash_meta
  PROVE  DeepestFinal'
<1>1. \A i : DeepestExpected(i)' = DeepestExpected(i)
  BY ExpectedStable
<1>2. QED
  BY <1>1 DEF DeepestFinal

LEMMA NextDeepInv == TypeOK /\ DeepInv /\ [Next]_vars => DeepInv'
<1> SUFFICES ASSUME TypeOK, DeepInv, [Next]_vars PROVE DeepInv'
  OBVIOUS
<1> DEFINE b == bucket_num
<1>0. branch_meta' = branch_meta /\ stash_meta' = stash_meta
  BY DEF Next, vars, TakeSrcForDeepest, UpdateGoalForElem, NextDeepestBucket,
         StartPrepareTarget, PrepareTargetBucket, PrepareTargetStash
<1>1. \A c : CellGoal(c)' = CellGoal(c) /\ (IsCandidate(c)' <=> IsCandidate(c))
  BY <1>0, CellStable
<1>2. \A i : DeepestExpected(i)' = DeepestExpected(i)
  BY <1>0, ExpectedStable
<1>3. /\ b \in Levels /\ goal \in Int /\ src \in Int /\ slot \in Nat
      /\ deepest_meta \in [Levels -> Levels \cup {FLOOR_INDEX}]
  BY DEF TypeOK, Levels, FLOOR_INDEX, N
<1>4. DeepestFinal /\ (pc \in {"take_src", "scan"} => GoalSrcInv)
  BY DEF DeepInv
<1>5. CASE TakeSrcForDeepest
  <2>0. PICK k : k = bucket_num
    OBVIOUS
  <2>1. \A c : c \in Scanned' <=> c \in Scanned
    BY <1>1, <1>5 DEF TakeSrcForDeepest, Scanned
  <2>2. GoalSrcInv'
    BY <1>0, <1>4, <1>5, <2>1, GoalSrcStable DEF TakeSrcForDeepest
  <2>3. ~Taken(k) /\ Taken(k)'
    BY <1>3, <1>5, <2>0 DEF Taken, TakeSrcForDeepest, Levels
  <2>4. deepest_meta[k] = FLOOR_INDEX
    BY <1>3, <1>4, <2>0, <2>3 DEF DeepestFinal
  <2>5. deepest_meta'[k] = DeepestExpected(k)'
    <3>1. DeepestExpected(k) = CMov(~(k < goal), src, FLOOR_INDEX)
      BY <1>5, <2>0, ExpectedFromScan DEF TakeSrcForDeepest
    <3>2. QED
      BY <1>2, <1>3, <1>5, <2>0, <2>4, <3>1 DEF TakeSrcForDeepest, CMov
  <2>6. ASSUME NEW i \in Levels, i # k
        PROVE  deepest_meta'[i] = IF Taken(i)' THEN DeepestExpected(i)' ELSE FLOOR_INDEX
    <3>1. deepest_meta'[i] = deepest_meta[i] /\ (Taken(i)' <=> Taken(i))
      BY <1>3, <1>5, <2>0, <2>6 DEF Taken, TakeSrcForDeepest
    <3>2. QED
      BY <1>2, <1>4, <3>1 DEF DeepestFinal
  <2>7. DeepestFinal'
    <3>1. SUFFICES ASSUME NEW i \in Levels
                   PROVE  deepest_meta'[i] = IF Taken(i)' THEN DeepestExpected(i)' ELSE FLOOR_INDEX
      BY DEF DeepestFinal
    <3>2. CASE i = k
      BY <2>3, <2>5, <3>2
    <3>3. CASE i # k
      BY <2>6, <3>3
    <3>4. QED
      BY <3>2, <3>3
  <2>8. QED
    BY <2>2, <2>7 DEF DeepInv
<1>6. CASE UpdateGoalForElem
  <2>0. PICK c0 : c0 = <<b, slot>>
    OBVIOUS
  <2> DEFINE ed == CellGoal(c0)
  <2>1. /\ slot < SizeOf(b) /\ slot' = slot + 1 /\ b' = b
        /\ pc = "scan" /\ pc' = "scan" /\ deepest_meta' = deepest_meta
    BY <1>6 DEF UpdateGoalForElem
  <2>2. c0 \in Levels \X (0 .. Z + StashSize)
    BY <1>3, <2>0, <2>1 DEF SizeOf
  <2>3. \A c : c \in Scanned' <=> c \in Scanned \/ (c = c0 /\ IsCandidate(c0))
    BY <1>1, <1>3, <2>0, <2>1, <2>2 DEF Scanned
  <2>4. IsCandidate(c0) <=> MetaAt(b, slot) # 0 /\ ed < b
    BY <2>0, <2>1 DEF IsCandidate, CellGoal
  <2>5. ed \in 0 .. N - 1
    BY LegalIndexRange DEF CellGoal
  <2>6. /\ goal' = CMov(IsCandidate(c0) /\ ed < goal, ed, goal)
        /\ src' = CMov(IsCandidate(c0) /\ ed < goal, b, src)
    BY <1>6, <2>0, <2>4 DEF UpdateGoalForElem, CellGoal
  <2>7. \A c \in Scanned : c[1] >= b
    BY <1>3 DEF Scanned, Levels
  <2>8. \A c \in Scanned : CellGoal(c) \in Int
    BY LegalIndexRange DEF CellGoal
  <2>9. GoalSrcInv
    BY <1>4, <2>1
  <2>10. DeepestFinal'
    BY <1>0, <1>4, <2>1, DeepestFinalStable DEF Taken
  <2>11. CASE ~IsCandidate(c0)
    <3>1. Scanned' = Scanned
      BY <2>3, <2>11
    <3>2. goal' = goal /\ src' = src
      BY <2>6, <2>11 DEF CMov
    <3>3. GoalSrcInv'
      BY <1>0, <2>9, <3>1, <3>2, GoalSrcStable
    <3>4. QED
      BY <2>10, <3>3 DEF DeepInv
  <2>12. CASE IsCandidate(c0) /\ ed < goal
    <3>1. goal' = ed /\ src' = b
      BY <2>6, <2>12 DEF CMov
    <3>2. c0 \in Scanned' /\ CellGoal(c0)' = goal' /\ c0[1] = src'
      BY <1>1, <2>0, <2>3, <2>12, <3>1
    <3>3. Scanned # {} => \A c \in Scanned : ed < CellGoal(c)
      BY <1>3, <2>5, <2>8, <2>9, <2>12 DEF GoalSrcInv
    <3>4. \A c \in Scanned' : goal' <= CellGoal(c)' /\ (CellGoal(c)' = goal' => c[1] <= src')
      <4>1. SUFFICES ASSUME NEW c \in Scanned'
                     PROVE  goal' <= CellGoal(c)' /\ (CellGoal(c)' = goal' => c[1] <= src')
        OBVIOUS
      <4>2. CellGoal(c)' = CellGoal(c)
        BY <1>1
      <4>3. CASE c = c0
        <5>1. CellGoal(c)' = goal' /\ goal' \in Int
          BY <2>5, <3>1, <4>2, <4>3
        <5>2. c[1] = src' /\ src' \in Int
          BY <1>3, <2>0, <3>1, <4>3 DEF Levels
        <5>3. QED
          BY <5>1, <5>2
      <4>4. CASE c \in Scanned
        <5>1. ed < CellGoal(c) /\ CellGoal(c) \in Int
          BY <2>8, <3>3, <4>4
        <5>2. QED
          BY <2>5, <3>1, <4>2, <5>1
      <4>5. QED
        BY <2>3, <4>3, <4>4
    <3>5. GoalSrcInv'
      BY <3>2, <3>4 DEF GoalSrcInv
    <3>6. QED
      BY <2>10, <3>5 DEF DeepInv
  <2>13. CASE IsCandidate(c0) /\ ~(ed < goal)
    <3>1. goal' = goal /\ src' = src
      BY <2>6, <2>13 DEF CMov
    <3>2. Scanned # {}
      BY <1>3, <2>5, <2>9, <2>13 DEF GoalSrcInv, FLOOR_INDEX, N
    <3>3. PICK w \in Scanned : CellGoal(w) = goal /\ w[1] = src
      BY <2>9, <3>2 DEF GoalSrcInv
    <3>4. src >= b
      BY <2>7, <3>3
    <3>5. w \in Scanned' /\ CellGoal(w)' = goal' /\ w[1] = src'
      BY <1>1, <2>3, <3>1, <3>3
    <3>6. \A c \in Scanned : goal <= CellGoal(c) /\ (CellGoal(c) = goal => c[1] <= src)
      BY <2>9, <3>2 DEF GoalSrcInv
    <3>7. \A c \in Scanned' : goal' <= CellGoal(c)' /\ (CellGoal(c)' = goal' => c[1] <= src')
      <4>1. SUFFICES ASSUME NEW c \in Scanned'
                     PROVE  goal' <= CellGoal(c)' /\ (CellGoal(c)' = goal' => c[1] <= src')
        OBVIOUS
      <4>2. CellGoal(c)' = CellGoal(c)
        BY <1>1
      <4>3. CASE c = c0
        BY <1>3, <2>0, <2>5, <2>13, <3>1, <3>4, <4>2, <4>3
      <4>4. CASE c \in Scanned
        BY <3>1, <3>6, <4>2, <4>4
      <4>5. QED
        BY <2>3, <4>3, <4>4
    <3>8. GoalSrcInv'
      BY <3>5, <3>7 DEF GoalSrcInv
    <3>9. QED
      BY <2>10, <3>8 DEF DeepInv
  <2>14. QED
    BY <2>11, <2>12, <2>13
<1>7. CASE NextDeepestBucket
  <2>1. \A c : c \in Scanned' <=> c \in Scanned
    BY <1>1, <1>3, <1>7 DEF NextDeepestBucket, Scanned, IsCandidate, Levels
  <2>2. \A i \in Levels : Taken(i)' <=> Taken(i)
    BY <1>3, <1>7 DEF NextDeepestBucket, Taken, Levels
  <2>3. GoalSrcInv'
    BY <1>0, <1>4, <1>7, <2>1, GoalSrcStable DEF NextDeepestBucket
  <2>4. DeepestFinal'
    BY <1>0, <1>4, <1>7, <2>2, DeepestFinalStable DEF NextDeepestBucket
  <2>5. QED
    BY <2>3, <2>4 DEF DeepInv
<1>8. CASE StartPrepareTarget
  <2>1. \A i \in Levels : Taken(i) /\ Taken(i)'
    BY <1>8 DEF StartPrepareTarget, Taken, Levels
  <2>2. DeepestFinal'
    BY <1>0, <1>4, <1>8, <2>1, DeepestFinalStable DEF StartPrepareTarget
  <2>3. QED
    BY <1>8, <2>2 DEF DeepInv, StartPrepareTarget
<1>9. CASE PrepareTargetBucket \/ PrepareTargetStash
  <2>1. pc = "target" /\ pc' \in {"target", "done"} /\ deepest_meta' = deepest_meta
    BY <1>9 DEF PrepareTargetBucket, PrepareTargetStash
  <2>2. \A i \in Levels : Taken(i) /\ Taken(i)'
    BY <2>1 DEF Taken
  <2>3. DeepestFinal'
    BY <1>0, <1>4, <2>1, <2>2, DeepestFinalStable
  <2>4. QED
    BY <2>1, <2>3 DEF DeepInv
<1>10. CASE UNCHANGED vars
  <2>1. \A c : c \in Scanned' <=> c \in Scanned
    BY <1>1, <1>10 DEF vars, Scanned
  <2>2. \A i \in Levels : Taken(i)' <=> Taken(i)
    BY <1>10 DEF vars, Taken
  <2>3. (pc \in {"take_src", "scan"} => GoalSrcInv)'
    BY <1>0, <1>4, <1>10, <2>1, GoalSrcStable DEF vars
  <2>4. DeepestFinal'
    BY <1>0, <1>4, <1>10, <2>2, DeepestFinalStable DEF vars
  <2>5. QED
    BY <2>3, <2>4 DEF DeepInv
<1>11. QED
  BY <1>5, <1>6, <1>7, <1>8, <1>9, <1>10 DEF Next


LEMMA DeepInvDeepestCorrect == DeepInv => DeepestCorrect
<1> SUFFICES ASSUME DeepInv, pc \in {"target", "done"}, NEW i \in Levels
             PROVE  deepest_meta[i] = DeepestExpected(i)
  BY DEF DeepestCorrect
<1>1. Taken(i)
  BY DEF Taken
<1>2. QED
  BY <1>1 DEF DeepInv, DeepestFinal

\* Once prepare_deepest has returned, deepest[i] is, for every level i, the
\* level nearest the root holding a block that can go deepest below i, as
\* its doc comment says (DeepestCorrect), for every height, bucket size,
\* stash size and leaf: the root-to-leaf scan keeps goal and src the
\* minimum legal index over the slots read so far and the highest level
\* attaining it, so the cmov at each bucket stores the expected entry.
THEOREM DeepestCorrectHolds == Spec => []DeepestCorrect
<1>1. Spec => [](TypeOK /\ DeepInv)
  <2>1. Init => TypeOK /\ DeepInv
    BY InitTypeOK, InitDeepInv
  <2>2. TypeOK /\ DeepInv /\ [Next]_vars => (TypeOK /\ DeepInv)'
    BY NextTypeOK, NextDeepInv
  <2>3. QED
    BY <2>1, <2>2, PTL DEF Spec
<1>2. QED
  BY <1>1, DeepInvDeepestCorrect, PTL

=============================================================================
