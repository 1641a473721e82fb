\* Height 2: a tree of four leaves.
CONSTANTS
  TreeHeight = 2
  W = 16
  Policy = "deterministic"
  MaxCalls <- MCMaxCalls
SPECIFICATION Spec
INVARIANT NeverPanics
CHECK_DEADLOCK FALSE
