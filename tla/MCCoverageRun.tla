--------------------------- MODULE MCCoverageRun ---------------------------
(* Small instances of CoverageRun for TLC.                                  *)
EXTENDS CoverageRefinesLedger, TLC

CONSTANTS engineer, reviewer, s1, s2

\* The engineer writes the scenarios; the evaluator refuses the snapshot of s2.
MCAuthor == [s \in Scenarios |-> engineer]
MCOutcome ==
  [snapshot \in Snapshot |-> IF snapshot.scenario = s2 THEN EvaluationError ELSE 1]

\* Nothing reads the audit trail: where no property does, states that differ
\* only in it are one.
WithoutAudits == <<rows, request>>

Symmetry == Permutations(Requests) \cup Permutations(EvaluationIds)
              \cup Permutations(Keys)
============================================================================
