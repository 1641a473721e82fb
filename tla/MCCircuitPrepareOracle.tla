----------------------- MODULE MCCircuitPrepareOracle -----------------------
(***************************************************************************)
(* Model-checking instance of CircuitPrepareOracle on a tree of height 2.  *)
(***************************************************************************)
EXTENDS CircuitPrepareOracle

\* The first leaf of the tree.
MCOracleLeaf == 2^Height

=============================================================================
