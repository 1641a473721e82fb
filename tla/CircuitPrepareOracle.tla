------------------------ MODULE CircuitPrepareOracle ------------------------
(***************************************************************************)
(* The non-oblivious reference implementations of the test module of       *)
(* evictor.rs, which test_prepare_deepest_and_target_with_random_comparison *)
(* compares prepare_deepest and prepare_target against.  They are defined  *)
(* on the state of CircuitPrepare so that TLC can compare them, on every   *)
(* input, with what the oblivious scans compute.  Used by TLC only.        *)
(***************************************************************************)
EXTENDS CircuitPrepare

(***************************************************************************)
(* find_source_for_deepest_elem_in_stash_non_oblivious_for_testing: scans  *)
(* every stash slot, then the buckets from the root down to test_level,    *)
(* keeping the first slot with a strictly smaller legal index.  No slot is *)
(* skipped for being vacant.  The result is the smallest legal index and   *)
(* the level nearest the root that holds a slot with it.                   *)
(***************************************************************************)
RefScannedSlots(test_level) ==
  {c \in ({N} \cup (test_level .. N - 1)) \X (0 .. Z + StashSize) : c[2] < SizeOf(c[1])}

RefLowest(test_level) ==
  LET slots == RefScannedSlots(test_level)
  IN  IF slots = {} THEN <<FLOOR_INDEX, FLOOR_INDEX>>
      ELSE LET g == SetMin({LowestHeightLegalIndex(MetaAt(c[1], c[2])) : c \in slots})
           IN  <<SetMax({c[1] : c \in {c \in slots : LowestHeightLegalIndex(MetaAt(c[1], c[2])) = g}}),
                 g>>

\* prepare_deepest_non_oblivious_for_testing: <<source, destination>> of
\* the search from level i+1, kept when it lands at or below i from above.
RefDeepest ==
  [i \in Levels |->
     LET found == RefLowest(i + 1)
     IN  IF found[2] <= i /\ found[1] > i THEN found[1] ELSE FLOOR_INDEX]

(***************************************************************************)
(* prepare_target_nonoblivious_for_testing: a leaf-to-root walk that jumps *)
(* from a level with a vacancy to its deepest source and records the move. *)
(***************************************************************************)
RECURSIVE RefTargetWalk(_, _, _)
RefTargetWalk(i, has_vacancy, target) ==
  IF i >= N THEN target
  ELSE LET hv == has_vacancy \/ BucketHasEmptySlot(i)
       IN  IF deepest_meta[i] = FLOOR_INDEX
             THEN RefTargetWalk(i + 1, FALSE, [target EXCEPT ![i] = FLOOR_INDEX])
           ELSE IF hv
             THEN RefTargetWalk(deepest_meta[i], hv,
                                [target EXCEPT ![deepest_meta[i]] = i])
           ELSE RefTargetWalk(i + 1, hv, target)

RefTarget == RefTargetWalk(0, FALSE, [l \in Levels |-> FLOOR_INDEX])

\* The test asserts assert_eq!(deepest_meta, deepest_meta_compare): the
\* oblivious prepare_deepest equals its non-oblivious reference.
RefDeepestAgrees ==
  pc \in {"target", "done"} => deepest_meta = RefDeepest

\* The test asserts assert_eq!(target_meta, test_target_meta): prepare_target
\* equals its non-oblivious reference run on the same deepest array.
RefTargetAgrees ==
  pc = "done" => target_meta = RefTarget

=============================================================================
