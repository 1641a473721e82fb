\* Height 2: buckets 0..2 plus the stash at level 3; two slots everywhere.
CONSTANTS
  Height = 2
  Z = 2
  StashSize = 2
  Leaf <- MCLeaf
SPECIFICATION Spec
INVARIANTS
  TypeOK
  
  PlanLegal
  PlanFits
  PlanProgress
\* prepare_target returns: the scan ends in pc = "done".
CHECK_DEADLOCK FALSE
