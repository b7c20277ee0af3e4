----------------------- MODULE ScenarioReviewRefines -----------------------
(* The service implements the workflow: the table itself is the workflow's  *)
(* state, and each conditional UPDATE, made long after its checks, is one   *)
(* of its indivisible steps.                                                *)
EXTENDS ScenarioReview

Workflow == INSTANCE ReviewWorkflow WITH scenarios <- rows

\* Checks and change are separate statements of concurrent requests; seen
\* through the table they happen at once.
ImplementsWorkflow == Workflow!WorkflowSpec
============================================================================
