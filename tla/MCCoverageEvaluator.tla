------------------------- MODULE MCCoverageEvaluator -------------------------
(* Small instances of CoverageEvaluator for TLC.                            *)
EXTENDS CoverageEvaluator
==============================================================================
