-------------------------- MODULE EvaluationLedger -------------------------
(* What the coverage evaluation service promises its callers: a ledger with *)
(* at most one entry per Idempotency-Key, each entry moving once through    *)
(* its life in single, indivisible steps.  No requests, no statements, no   *)
(* row identities: CoverageRefinesLedger shows the service implements it.   *)
EXTENDS Naturals

CONSTANTS
  Keys, Users, Snapshot,
  AuthorOf,         \* the author of the scenario a snapshot was taken of
  Outcome,          \* the result of a snapshot, or EvaluationError
  EvaluationError, Null

VARIABLE ledger

Entry(snapshot) ==
  [snapshot |-> snapshot, phase |-> "accepted", score |-> 0, confirmedBy |-> Null]

Phase(k) == IF ledger[k] = Null THEN "free" ELSE ledger[k].phase

LedgerInit == ledger = [k \in Keys |-> Null]

Accept(k) ==
  /\ Phase(k) = "free"
  /\ \E s \in Snapshot : ledger' = [ledger EXCEPT ![k] = Entry(s)]

Complete(k) ==
  /\ Phase(k) = "accepted"
  /\ Outcome[ledger[k].snapshot] # EvaluationError
  /\ ledger' = [ledger EXCEPT ![k].phase = "completed",
                              ![k].score = Outcome[ledger[k].snapshot]]

Fail(k) ==
  /\ Phase(k) = "accepted"
  /\ Outcome[ledger[k].snapshot] = EvaluationError
  /\ ledger' = [ledger EXCEPT ![k].phase = "failed"]

ConfirmEntry(k, u) ==
  /\ Phase(k) = "completed"
  /\ u # AuthorOf[ledger[k].snapshot]
  /\ ledger' = [ledger EXCEPT ![k].phase = "confirmed", ![k].confirmedBy = u]

VoidEntry(k) ==
  /\ Phase(k) \in {"completed", "failed", "confirmed"}
  /\ ledger' = [ledger EXCEPT ![k].phase = "voided"]

Finish(k) == Complete(k) \/ Fail(k)

LedgerNext ==
  \E k \in Keys :
    \/ Accept(k) \/ Finish(k) \/ VoidEntry(k)
    \/ \E u \in Users : ConfirmEntry(k, u)

LedgerSpec == LedgerInit /\ [][LedgerNext]_ledger

\* An accepted entry gets its result.
LedgerFairSpec == LedgerSpec /\ \A k \in Keys : WF_ledger(Finish(k))
============================================================================
