------------------------ MODULE MCSafeguardLifecycle ------------------------
(* Small instances of SafeguardLifecycle for TLC.                           *)
EXTENDS SafeguardLifecycle, TLC

\* Nothing reads the audit trail.
WithoutAudits == <<rows, request, now>>

Symmetry == Permutations(Requests)
============================================================================
