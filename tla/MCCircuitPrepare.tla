-------------------------- MODULE MCCircuitPrepare --------------------------
(***************************************************************************)
(* Model-checking instance of CircuitPrepare: a tree of height 2 (three    *)
(* buckets per branch) or 3, a few slots per bucket and in the stash.      *)
(* Every well-formed branch content and every stash content is an initial *)
(* state, so each run covers every input the scans can be given.           *)
(***************************************************************************)
EXTENDS CircuitPrepare

\* The first leaf of the tree; by the symmetry of the binary tree every
\* other leaf gives the same runs up to renaming.
MCLeaf == 2^Height

=============================================================================
