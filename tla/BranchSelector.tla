--------------------------- MODULE BranchSelector ---------------------------
(***************************************************************************)
(* The branch selectors of evictor.rs: PathOramDeterministicEvictor, built *)
(* by PathOramDeterministicEvictorCreator::create(height), and             *)
(* PathOramRandomEvictor.  The owning ORAM calls get_next_branch_to_evict  *)
(* once per eviction; the leaf it returns names the branch to evict into.  *)
(*                                                                         *)
(* Machine words have W bits (u64 in the code: W = 64).  The reversal and  *)
(* shift of deterministic_get_next_branch_to_evict are modelled bit by bit *)
(* at that width, and so is the exclusive-or that computes tree_breadth.   *)
(***************************************************************************)
EXTENDS Integers

CONSTANTS
  TreeHeight,  \* the height passed to create(height), in Nat and below W
  W,           \* bits of a machine word, in Nat \ {0}
  Policy,      \* "deterministic" or "random": which evictor the creator built
  MaxCalls     \* bound on the number of calls explored, in Nat

Leaves == 2^TreeHeight .. 2^(TreeHeight + 1) - 1

\* Bit k of x.
Bit(x, k) == (x \div 2^k) % 2

\* u64::reverse_bits at width W.
ReverseBits(x) ==
  LET r[k \in 0 .. W] == IF k = 0 THEN 0 ELSE 2 * r[k - 1] + Bit(x, k - 1)
  IN  r[W]

\* a ^ b on W-bit words.
BitXor(a, b) ==
  LET r[k \in 0 .. W] ==
        IF k = 0 THEN 0
        ELSE r[k - 1] + (IF Bit(a, k - 1) # Bit(b, k - 1) THEN 2^(k - 1) ELSE 0)
  IN  r[W]

\* deterministic_get_next_branch_to_evict(num_bits_to_be_reversed, iteration)
DeterministicNextBranch(num_bits_to_be_reversed, iteration) ==
  IF num_bits_to_be_reversed = 0 THEN 1
  ELSE LET leaf_significant_index == 2^num_bits_to_be_reversed
           test_position == (ReverseBits(iteration) \div 2^(W - num_bits_to_be_reversed))
                              % leaf_significant_index
       IN  leaf_significant_index + test_position

VARIABLES
  branches_evicted,  \* the evictor's counter
  tree_breadth,      \* PathOramDeterministicEvictor::tree_breadth
  leaf,              \* the leaf returned by the last call (0 before any)
  visits,            \* how many calls returned each leaf
  calls,             \* how many calls returned
  panicked           \* a call aborted the program

vars == <<branches_evicted, tree_breadth, leaf, visits, calls, panicked>>

\* create(height): PathOramDeterministicEvictor::new sets tree_breadth to
\* 2u64 ^ (tree_height as u64) and the counter to 0; the random evictor has
\* no breadth.
Init ==
  /\ branches_evicted = 0
  /\ tree_breadth = IF Policy = "deterministic" THEN BitXor(2, TreeHeight) ELSE 0
  /\ leaf = 0
  /\ visits = [l \in Leaves |-> 0]
  /\ calls = 0
  /\ panicked = FALSE

\* The bookkeeping of a call that returned leaf l.
Returned(l) ==
  /\ leaf' = l
  /\ visits' = [visits EXCEPT ![l] = @ + 1]
  /\ calls' = calls + 1

\* PathOramDeterministicEvictor::get_next_branch_to_evict: the remainder by
\* tree_breadth panics when tree_breadth is 0.
DeterministicGetNextBranch ==
  /\ Policy = "deterministic"
  /\ ~panicked
  /\ calls < MaxCalls
  /\ \/ /\ tree_breadth = 0
        /\ panicked' = TRUE
        /\ UNCHANGED <<branches_evicted, tree_breadth, leaf, visits, calls>>
     \/ /\ tree_breadth # 0
        /\ branches_evicted' = (branches_evicted + 1) % tree_breadth
        /\ Returned(DeterministicNextBranch(TreeHeight, branches_evicted))
        /\ UNCHANGED <<tree_breadth, panicked>>

\* PathOramRandomEvictor::get_next_branch_to_evict: a uniformly random leaf
\* at tree_height; the counter is incremented (it never wraps within any
\* bound explored here).
RandomGetNextBranch ==
  /\ Policy = "random"
  /\ calls < MaxCalls
  /\ branches_evicted' = branches_evicted + 1
  /\ \E l \in Leaves : Returned(l)
  /\ UNCHANGED <<tree_breadth, panicked>>

Next == DeterministicGetNextBranch \/ RandomGetNextBranch

Spec == Init /\ [][Next]_vars

-----------------------------------------------------------------------------
TypeOK ==
  /\ branches_evicted \in Nat
  /\ tree_breadth \in Nat
  /\ leaf \in {0} \cup Leaves
  /\ visits \in [Leaves -> Nat]
  /\ calls \in 0 .. MaxCalls
  /\ panicked \in BOOLEAN

\* The deterministic evictor's promise (its doc comment, and the spec's
\* periodicity test): after every 2^h calls each leaf has been returned
\* exactly once more, so that every branch is evicted into once per period.
PeriodicCoverage ==
  calls % 2^TreeHeight = 0 => \A l \in Leaves : visits[l] = calls \div 2^TreeHeight

\* get_next_branch_to_evict never aborts: the evictor's operations are
\* total over the heights create() accepts.
NeverPanics == ~panicked

=============================================================================
