--------------------------- MODULE MCPathOramEvict ---------------------------
(* Path ORAM eviction on a tree of height 2 (three buckets on the branch). *)
EXTENDS PathOramEvict

\* A branch other than the first, so that blocks of either half of the tree
\* meet on it.
MCEvictLeaf == 2^Height + 1

=============================================================================
