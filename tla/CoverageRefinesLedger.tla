----------------------- MODULE CoverageRefinesLedger -----------------------
(* The refinement mapping from the coverage evaluation service to the       *)
(* ledger: an entry is the row with its key, queued and running are both    *)
(* "accepted", and the audit trail and the requests are hidden.             *)
EXTENDS CoverageRun

PhaseOf(state) == IF state \in Pending THEN "accepted" ELSE state

EntryOf(row) == [snapshot |-> row.snapshot, phase |-> PhaseOf(row.state),
                 score |-> row.score, confirmedBy |-> row.confirmedBy]

Entries == [snapshot : Snapshot, score : Nat, confirmedBy : Users \cup {Null},
            phase : (States \ Pending) \cup {"accepted"}]

ASSUME EntryAssumption == Null \notin Entries

RowsWithKey(table, k) ==
  {e \in EvaluationIds : table[e] # Null /\ table[e].key = k}

LedgerOf(table) ==
  [k \in Keys |->
     IF RowsWithKey(table, k) = {} THEN Null
     ELSE EntryOf(table[CHOOSE e \in EvaluationIds : e \in RowsWithKey(table, k)])]

Ledger == LedgerOf(rows)

Abstract == INSTANCE EvaluationLedger
              WITH ledger <- Ledger,
                   AuthorOf <- [s \in Snapshot |-> Author[s.scenario]]

\* Run, Confirm, Void and Replay, interleaved statement by statement and cut
\* short anywhere, look to their callers like the ledger's single steps.
ImplementsLedger == Abstract!LedgerSpec

\* Uninterrupted, they also give every accepted entry its result.
ImplementsFairLedger == Abstract!LedgerFairSpec
============================================================================
