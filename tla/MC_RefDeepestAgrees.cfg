\* Height 2, two slots per bucket and in the stash: compares the scans with
\* the test module's non-oblivious reference.
CONSTANTS
  Height = 2
  Z = 2
  StashSize = 2
  Leaf <- MCOracleLeaf
SPECIFICATION Spec
INVARIANT RefDeepestAgrees
CHECK_DEADLOCK FALSE
