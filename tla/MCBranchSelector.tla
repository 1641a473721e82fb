-------------------------- MODULE MCBranchSelector --------------------------
(***************************************************************************)
(* Model-checking instance of BranchSelector.  Words are 16 bits wide: the *)
(* heights explored are far below it, so the reversal and shift behave as  *)
(* at 64 bits.                                                             *)
(***************************************************************************)
EXTENDS BranchSelector

\* Two full periods of the deterministic selector at the chosen height.
MCMaxCalls == 2 * 2^TreeHeight + 1

=============================================================================
