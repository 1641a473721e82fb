\* Height 3, as in test_deterministic_oram_get_branches_to_evict, but through
\* the evictor that create(3) builds.
CONSTANTS
  TreeHeight = 3
  W = 16
  Policy = "deterministic"
  MaxCalls <- MCMaxCalls
SPECIFICATION Spec
INVARIANT PeriodicCoverage
CHECK_DEADLOCK FALSE
