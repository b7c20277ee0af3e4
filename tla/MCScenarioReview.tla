-------------------------- MODULE MCScenarioReview --------------------------
(* Small instances of ScenarioReview for TLC.                               *)
EXTENDS ScenarioReviewRefines, TLC

Symmetry == Permutations(Requests)
============================================================================
