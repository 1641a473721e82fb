\* Height 2, two slots per bucket, two stash slots: full and partly full
\* paths, vacant stash slots, and blocks that fit only at the root all occur.
CONSTANTS
  Height = 2
  Z = 2
  StashSize = 2
  Leaf <- MCEvictLeaf

SPECIFICATION Spec
\* evict_from_stash_to_branch returns: the run ends in pc = "done".
CHECK_DEADLOCK FALSE

INVARIANTS
  EvictionMaximal
