# Verification of `mc-oblivious-ram/src/evictor.rs`

This directory holds TLA+ models of the eviction code of the oblivious RAM crate
(`src/mc-oblivious-ram/src/evictor.rs`). It also holds the TLC configurations that
check the models on small trees, and the TLAPS proofs of the main safety
properties for trees of every size.

## The system

An ORAM access checks out a *branch*: the buckets on the path from the root to
one leaf, with `Z` slots each. Each slot carries metadata whose leaf number says
where its block must end up (0 means the slot is vacant). Blocks that do not fit
wait in the *stash*. After each access, an evictor pushes blocks from the stash
and the upper buckets towards the leaf. The file has three parts that interact:

| part | code | role |
|---|---|---|
| branch selector | `deterministic_get_next_branch_to_evict` (27-49), `PathOramDeterministicEvictor` (250-285), `PathOramRandomEvictor` (205-229), the creators (355-397) | Chooses the leaf of the branch to evict into next. |
| Circuit ORAM plan | `prepare_deepest` (55-138), `prepare_target` (140-193), `bucket_has_empty_slot` (195-203) | Two oblivious scans of the branch and stash. They compute `deepest[i]`, the level nearest the root holding a block that can go to `i` or below, and then `target[i]`, the level where the block now at `i` is moved (`FLOOR_INDEX` = none). The array-applying pass is outside this file. |
| Path ORAM eviction | `path_oram_eviction_strategy` (305-321) | `pack()` the branch, then `ct_insert` every stash slot. |
| test references | `prepare_deepest_non_oblivious_for_testing`, `find_source_..._for_testing`, `prepare_target_nonoblivious_for_testing` (415-525) | Plain-loop versions of the two scans. The random test asserts they are equal to the oblivious scans. |

External to this file: `BranchCheckout` (checkout, `pack`, `ct_insert`,
`lowest_height_legal_index_impl`), `TreeIndex`, and `CMov`. These are modelled from
the spec where the plan depends on them, and are marked `spec_modelled` in
`PROJECT.json`.

## Modules

* **`BranchTree`** holds what every model shares: the constants `Height`, `Z`,
  `StashSize` and `Leaf` with their assumptions, the leaves, the levels, `FLOOR_INDEX`,
  `lowest_height_legal_index_impl` (spec's definition: `N-1-common_ancestor_height`,
  vacant maps to the root) and `ValidBranches`, the branches a checkout can
  produce (each block in the subtree of its bucket). Powers of two (`1 << k` in
  `TreeIndex`) are the recursive function `Pow2[k]`, not `2^k`: TLC evaluates
  both alike, and the prover knows no laws of `^` but can unfold `Pow2`.
* **`CircuitPrepare`** models `prepare_deepest` followed by `prepare_target` as one
  state machine.
  * **Constants:** `Height`, `Z`, `StashSize` and `Leaf`.
  * **State:** the branch and stash metadata (leaf numbers), the arrays `deepest_meta`
    and `target_meta`, the scan registers `goal`, `src` and `dest`, the loop
    counters `bucket_num` and `slot`, and a program counter `pc`.
  * **Actions, one per loop iteration of the code:**
    * `TakeSrcForDeepest`: the `cmov` of `deepest_meta[bucket_num]` before a bucket's
      slots are read (lines 118-122).
    * `UpdateGoalForElem`: one slot of the inner loop (123-136).
    * `NextDeepestBucket`: moving one bucket towards the root (86-99).
    * `StartPrepareTarget`: the initialisation of `prepare_target`.
    * `PrepareTargetBucket`: one iteration of the leaf-to-root loop (168-189).
    * `PrepareTargetStash`: the final stash check (190-192).
  * **What is abstracted:** `lowest_height_legal_index_impl` is the spec's definition
    (`N-1-common_ancestor_height`, where vacant maps to the root). Only branches whose
    blocks lie in the subtree of their bucket are considered (`ValidBranches`), the
    state a checkout can produce. The stash is arbitrary.
* **`CircuitPrepareOracle`** (used by TLC only; it is recursive) defines the
  test module's reference implementations on the same state, and the two
  `assert_eq!`s of the random test as invariants.
* **`BranchSelector`** models the creator, `new`, and repeated calls of
  `get_next_branch_to_evict` for both evictors. Words have `W` bits; the bit
  reversal, the shift and the exclusive-or at line 267 are computed bit by bit.
  Ghost variables `visits` and `calls` record what was returned.
* **`PathOramEvict`** models `path_oram_eviction_strategy` (305-321), the body of
  both evictors' `evict_from_stash_to_branch`.
  * **State:** `branch_meta`, `stash_meta`, the loop index `idx`, and `pc`
    (`"pack"`, `"insert"`, `"done"`).
  * **Actions:**
    * `PackMove`: one move of `branch.pack()`. A block goes down to a vacant slot
      of a deeper bucket that is legal for it.
    * `PackDone`: `pack` returns and the loop starts.
    * `InsertStashSlot`: one iteration of the loop, `ct_insert` of stash slot `idx`.
      It either puts the block into the first vacant legal slot (deepest bucket
      first, lowest slot first) and marks the stash slot vacant, or, when the slot
      is vacant or no legal bucket has room, changes nothing. Either way `idx`
      advances.
    * `EvictDone`: the loop has visited every slot and the function returns.
  * `pack` and `ct_insert` belong to `BranchCheckout` in `path_oram`, which is not
    in this repository. They are modelled from the spec (`spec_modelled`).
* **`BranchTreeLemmas`**, **`CircuitPrepareProofs`** and **`PathOramEvictProofs`**
  hold the TLAPS proofs.
* **`MC*.tla`** are the model-checking instances.

## Runs

| run | cfg | expect | checks |
|---|---|---|---|
| `circuit_prepare` | `MCCircuitPrepare.cfg` | pass | `TypeOK`, `DeepestCorrect`, `PlanLegal`, `PlanFits`, `PlanProgress` |
| `path_oram_evict` | `MCPathOramEvict.cfg` | pass | `EvictionMaximal` |
| `oracle_deepest` | `MC_RefDeepestAgrees.cfg` | violation | `RefDeepestAgrees` |
| `oracle_target` | `MC_RefTargetAgrees.cfg` | violation | `RefTargetAgrees` |
| `det_selector_period` | `MC_PeriodicCoverage.cfg` | violation | `PeriodicCoverage` |
| `det_selector_panic` | `MC_NeverPanics.cfg` | violation | `NeverPanics` |

The properties of `circuit_prepare`:

* `DeepestCorrect`: when `prepare_deepest` returns, each `deepest[i]` is exactly
  the documented value. That value is the level nearest the root, strictly above
  `i`, that holds a non-vacant block whose lowest legal level is `i` or deeper,
  with the stash counted as the level above the root.
* `PlanLegal`: every move `target[i] = d` goes strictly towards the leaf, into a
  level that the block chosen at `i` may legally occupy.
* `PlanFits`: no two levels send to the same destination. Each destination either
  has an empty slot or sends its own block away in the same plan, so applying the
  plan never overfills a bucket.
* `PlanProgress`: if any non-vacant block of the stash or branch could move deeper,
  the plan has at least one move.

The run covers height 2 (three buckets and the stash), `Z = 2` and a stash of 2.
It enumerates every leaf-number assignment of a well-formed branch and every
stash: 472,500 distinct states in about 20 s. This makes full buckets, empty
buckets, vacant stash slots, ties between equally deep blocks, and move chains
of length 3 (stash → root → middle → leaf) all occur. Each property is killed by
a mutant of the code (see `PROJECT.json`).

The properties of `path_oram_evict`:

* `EvictionMaximal`: when the function returns, no block left in the stash has a
  vacant slot anywhere on its legal part of the branch. It fails if the loop
  stops one slot early (mutant `EvictDoneEarly`). It would also fail if an insert
  could reopen room for a block rejected earlier.

The run checks no liveness and no refinement. The loop is a bounded `for`
over `0..stash_data.len()`, so that it returns holds by its form. That each
step only relocates blocks (the `EvictionStrategy` contract, spec 3 and 8)
rests entirely on `pack` and `ct_insert` of `path_oram`, which this model
takes from the spec. So neither would say anything about the code of this
file.

The run covers height 2, `Z = 2` and a stash of 2, with every well-formed branch
and every stash: 72,612 distinct states in about 15 s. Full and empty paths,
vacant stash slots, two stash blocks competing for the last slot, and pack moves
that free a slot for an insert all occur. Deadlock checking is off because the
return (`pc = "done"`) is a terminal state.

## Findings

1. **`tree_breadth = 2u64 ^ tree_height` (line 267) is an exclusive-or.**
   * At height 3 the breadth is 1, so `create(3)` returns leaf 8 forever
     (`det_selector_period`).
   * At height 2 the breadth is 0, and the first call panics on `% 0` at line 278
     (`det_selector_panic`).
   * The unit test only calls the free function, so it does not see this.
2. **The deepest reference does not skip vacant stash slots.** A vacant slot
   maps to the root. So when the stash has only vacant slots, the reference plans
   a move out of the empty stash, and the oblivious code (correctly) does not.
   The random test always fills the stash (`oracle_deepest`).
3. **The target reference overwrites `target[i]` with `FLOOR_INDEX`** when it jumps
   to a source level `i` whose own `deepest[i]` is `FLOOR_INDEX`. This loses the move
   the oblivious code keeps (`oracle_target`).

## Proofs (all checked by `tlapm`)

The assumptions are `Height ∈ Nat`, `Z ≥ 1` and `StashSize ∈ Nat`.

### `BranchTreeLemmas` (shared by both proof modules)

* `LegalIndexRange`: `lowest_height_legal_index_impl` returns a level `0..N-1`.
* Laws of `Pow2` (`Pow2Type`, `Pow2Add`, `Pow2Mono`) and of division
  (`DivDiv`). Induction over `Nat` is done without an operator parameter:
  `NatMinimum` takes the least counterexample from the well-foundedness of `<`
  on `Nat` (`WFMin`), and each law is refuted at that minimum.
* `DepthOfLeaf`: every leaf has depth `Height`.
* `CommonAncestorOfLeaf`: the common-ancestor height of a leaf with `Leaf` is
  the number of levels `k` at which their indices agree after dropping
  `Height - k` bits. Agreement is downward closed (`AgreeDown`).
* `LegalInSubtree`: if a leaf's lowest legal index is at most `d`, then the
  leaf lies in the subtree of bucket `d` of the branch. This ties the index
  arithmetic of the code to the subtree relation that `ValidBranches` uses.
* `SubtreeIsLegal`: the converse. A leaf in the subtree of bucket `d` has its
  lowest legal index at most `d`. Together the two say that the code's test
  `lowest_height_legal_index_impl(v) <= d` is exactly subtree membership.

### `CircuitPrepareProofs`

* `TypeCorrect`: `Spec => []TypeOK`, for every `Height ∈ Nat`, `Z ≥ 1`,
  `StashSize ∈ Nat` and `Leaf` a leaf. The key lemma, `LegalIndexRange`, says
  that `lowest_height_legal_index_impl` returns a level `0..N-1`. It is proved by
  bounding the cardinality of the common-ancestor set.
* `PlanLegalHolds`: `Spec => []PlanLegal`. `PlanLegal` alone is not inductive,
  because the plan is built from registers carried across iterations. The
  inductive invariant `IInv` adds four conjuncts:
  * `DeepestSound`: each recorded `deepest[i]` names a level above `i` with a
    block that can go to `i`.
  * `DeepestScanSound`: during the first scan, a non-`FLOOR` `goal` is backed by
    `src`, which lies above `goal` and above or at the current bucket.
  * `TargetScanSound`: during the second scan, a pending `src`/`dest` pair
    satisfies `deepest[dest] = src` with `dest` below the current bucket.
  * `ChainBack`: every recorded move `target[src] = dest` satisfies
    `deepest[dest] = src`.

  `IInv` was first checked with TLC as an invariant of `circuit_prepare`, then
  proved (`InitIInv`, `NextIInv` with one step per action and per conjunct).
  The monotonicity lemma `MovableMono` carries the "may go to `d`" fact from one
  level to a deeper one.

* `PlanFitsHolds`: `Spec => []PlanFits`. The strengthening `FitsInv` holds once
  the second scan has started, and has three parts:
  * every recorded destination is deeper than the current bucket (a smaller
    index), and either has an empty slot or is itself a source (`Fit`);
  * recorded destinations are pairwise distinct;
  * a pending `dest` is not yet used by any move, and it fits.

  `FitsInv` was checked with TLC on all 472,500 states before it was proved
  together with `IInv`.

* `PlanProgressHolds`: `Spec => []PlanProgress`. The strengthening
  `ProgressInv` (in `CircuitPrepare`) covers the downward scan of
  `prepare_target`. As long as the plan is still empty and no source is
  pending, no bucket already scanned has both an empty slot and a block
  destined for it (`deepest_meta[d] # FLOOR`). A pending `FLOOR` source has
  `FLOOR` as its destination, and at the end `bucket_num = N`. `ProgressInv`
  was checked with TLC together with `IInv` and `FitsInv` on all 472,500
  states, then proved (`InitProgressInv`, `NextProgressInv`).

* `DeepestCorrectHolds`: `Spec => []DeepestCorrect`. The result of
  `prepare_deepest` matches the declarative `DeepestExpected` (the level of the
  deepest-going block above each bucket). The strengthening is `DeepInv`, in
  `CircuitPrepare`, with two parts:
  * `GoalSrcInv` (during the first scan): `goal` is the minimum legal index over
    the cells scanned so far (`Scanned`), and `src` is the highest level that
    attains it. When nothing is scanned yet, `goal = FLOOR`.
  * `DeepestFinal`: an entry `deepest_meta[i]` is already `DeepestExpected(i)`
    once bucket `i` is taken (`Taken`), and is still `FLOOR` before that.

  `DeepInv` was checked with TLC on all 472,500 states before it was proved.
  The supporting lemmas are:
  * `SetMinIs` and `SetMaxIs` characterise the `CHOOSE`-based minimum and
    maximum;
  * `ScannedAtTake`: when a bucket is taken, the scanned cells are its
    candidates;
  * `ExpectedFromScan`: the `cmov` in `take_src` computes `DeepestExpected`;
  * `NextDeepInv`, with one step per action and, for `UpdateGoal`, one per
    branch of the comparison with `goal`.

### `PathOramEvictProofs`

* `EvictTypeCorrect`: `Spec => []TypeOK`.
* `EvictionMaximalHolds`: `Spec => []EvictionMaximal`. The inductive invariant
  `MaximalInv` says that every stash slot below `idx` holds a block that cannot
  be placed, and that `idx = StashSize` at the return. The key lemma,
  `VacancyShrinks`, says that writing a non-vacant block into a slot never
  creates a vacancy. So a path with no room never regains room during the loop.
### Only model-checked (TLC, height 2)

* The comparisons with the references. The references are recursive
  operators, which TLAPS cannot reason about. The declarative properties they
  are compared with are proved instead.
* The selector's periodic visiting is a safety property over the ghost counters.

## Not modelled (yet) and plan

* **`pack` and `ct_insert` themselves** are in `path_oram`, which is not in this
  repository. They are modelled from the spec as described above.
* **Applying a Circuit ORAM plan** (outside this file).
  * Next: an abstract `CircuitPlan` spec of one eviction pass (a set of legal
    moves along the branch).
  * `CircuitPrepare` will be shown to refine it through `INSTANCE ... WITH`.
* **A composition `Evictor`**: selector, then eviction, over a sequence of accesses,
  with liveness under weak fairness of the access loop (every leaf is eventually
  evicted into once the selector bug is fixed).
* **Proofs to come**: the selector's properties (only model-checked so far).
* **The random selector** has no passing run. Its only promise, a leaf of the
  tree, holds by the construction of the choice. The trait and creator scaffolding
  has no state, and the storage and I/O layers are out of scope.
