---------------------------- MODULE MCProcessNodes ----------------------------
(* Small instances of ProcessNodes for TLC.                                 *)
EXTENDS ProcessNodes, TLC

\* Nothing reads the audit trail.
WithoutAudits == <<rows, scenarios, request>>

Symmetry == Permutations(Requests) \cup Permutations(NodeIds) \cup Permutations(Codes)
============================================================================
