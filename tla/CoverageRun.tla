---------------------------- MODULE CoverageRun ----------------------------
(* The coverage evaluation service: the requests run, confirm, void and     *)
(* replay, each a sequence of autocommitted database statements, over the   *)
(* coverage_evaluations and audit_logs tables.  A request is a process; one *)
(* action is one statement together with the Go code up to the next one.    *)
EXTENDS Naturals

CONSTANTS
  Requests,        \* handlers that can be in flight at once
  EvaluationIds,   \* primary keys the database hands out
  Keys,            \* values of the Idempotency-Key header, trimmed, 8..128 long
  Scenarios,       \* persisted deviation scenarios
  Users,           \* user ids
  Runners,         \* users whose role holds evaluation:run
  Confirmers,      \* users whose role holds evaluation:confirm
  Author,          \* created_by of each scenario; no statement ever writes it
  Contents,        \* what the node, scenario and safeguard rows can read as
  Outcome,         \* the evaluator: a pure function of the frozen snapshot
  EvaluationError, \* the evaluator returned an error
  Interrupts,      \* may a request stop between two of its statements?
  Null             \* SQL NULL, a row that does not exist, an unset local

VARIABLES
  rows,            \* coverage_evaluations, by primary key
  request,         \* the requests in flight
  audits           \* audit_logs of entity coverage_evaluation

vars == <<rows, request, audits>>

States == {"queued", "running", "completed", "failed", "confirmed", "voided"}
Pending == {"queued", "running"}

\* NewSnapshot: the scenario's identity and everything read about it.
Snapshot == [scenario : Scenarios, content : Contents]

\* sha256 of the canonical snapshot, taken as free of collisions.
HashString(snapshot) == <<"sha256", snapshot>>
Hashes == {HashString(s) : s \in Snapshot}

Row == [key : Keys, snapshot : Snapshot, hash : Hashes, score : Nat,
        state : States, confirmedBy : Users \cup {Null},
        replayPassed : BOOLEAN \cup {Null}]

Audit == [action : {"run", "confirm", "void", "replay"}, eval : EvaluationIds,
          actor : Users, hash : Hashes,
          before : States \cup {Null}, after : States \cup {Null},
          passed : BOOLEAN \cup {Null}]

Request == [op : {"run", "confirm", "void", "replay"} \cup {Null},
            pc : {"idle", "find", "freeze", "create", "start", "evaluate",
                  "read", "change", "store", "reload", "audit"},
            actor : Users \cup {Null}, key : Keys \cup {Null},
            scenario : Scenarios \cup {Null}, eval : EvaluationIds \cup {Null},
            snapshot : Snapshot \cup {Null}, hash : Hashes \cup {Null},
            before : States \cup {Null}, after : States \cup {Null},
            passed : BOOLEAN \cup {Null}]

ASSUME UserAssumption ==
  /\ Runners \subseteq Users
  /\ Confirmers \subseteq Users
  /\ Author \in [Scenarios -> Users]

ASSUME OutcomeAssumption ==
  /\ Outcome \in [Snapshot -> Nat \cup {EvaluationError}]
  /\ EvaluationError \notin Nat

ASSUME NullAssumption ==
  /\ Null \notin Row
  /\ Null \notin Users
  /\ Null \notin States
  /\ Null \notin BOOLEAN

ASSUME InterruptsAssumption == Interrupts \in BOOLEAN
----------------------------------------------------------------------------
Idle == [op |-> Null, pc |-> "idle", actor |-> Null, key |-> Null,
         scenario |-> Null, eval |-> Null, snapshot |-> Null, hash |-> Null,
         before |-> Null, after |-> Null, passed |-> Null]

\* A request answers, with a result or an error, and is forgotten.
Finish(r) == request' = [request EXCEPT ![r] = Idle]

\* Operators named "Faulty..." are wrong versions of the definition that
\* follows them, each a slip one could make in the code it models; Next does
\* not use them.  They show that the properties would notice.

\* The service's lookup.
FindByIdempotencyKey(k) ==
  {e \in EvaluationIds : rows[e] # Null /\ rows[e].key = k}

\* The table's unique index on idempotency_key, which refuses an INSERT.
KeyTaken(k) == \E e \in EvaluationIds : rows[e] # Null /\ rows[e].key = k

\* Fault: WHERE id = e, whatever the state.
FaultyMatchesId(e, from) == rows[e] # Null

\* WHERE id = e AND evaluation_state IN from.
Matches(e, from) == rows[e] # Null /\ rows[e].state \in from

\* Fault: the hash is left for later.
FaultyNewRow(k, snapshot) ==
  [key |-> k, snapshot |-> snapshot, hash |-> Null, score |-> 0,
   state |-> "queued", confirmedBy |-> Null, replayPassed |-> Null]

\* The row Run inserts: queued, no result yet, score at its zero value.
NewRow(k, snapshot) ==
  [key |-> k, snapshot |-> snapshot, hash |-> HashString(snapshot), score |-> 0,
   state |-> "queued", confirmedBy |-> Null, replayPassed |-> Null]

\* Fault: the start expects the state it is about to set.
FaultyStartable == {"running"}

\* The from-lists of the conditional updates.
Startable == {"queued"}
Confirmable == {"completed"}

\* Fault: a running evaluation can be voided, too.
FaultyVoidable == {"running", "completed", "failed", "confirmed"}

Voidable == {"completed", "failed", "confirmed"}

\* Fault: the score is missing from the update.
FaultyCompleted(row, snapshot) ==
  [row EXCEPT !.state = "completed", !.snapshot = snapshot,
              !.hash = HashString(snapshot)]

\* The whole result, stored by one UPDATE.
Completed(row, snapshot) ==
  [row EXCEPT !.state = "completed", !.snapshot = snapshot,
              !.hash = HashString(snapshot), !.score = Outcome[snapshot]]

\* Fault: voiding withdraws the confirmation.
FaultyVoided(row) == [row EXCEPT !.state = "voided", !.confirmedBy = Null]

Voided(row) == [row EXCEPT !.state = "voided"]

\* Fault: no separation of author and confirmer.
FaultyMayConfirm(row, u) == TRUE

MayConfirm(row, u) == Author[row.snapshot.scenario] # u

Init ==
  /\ rows = [e \in EvaluationIds |-> Null]
  /\ request = [r \in Requests |-> Idle]
  /\ audits = {}
----------------------------------------------------------------------------
(* Arrival of a request that passed authentication and its role check.      *)
BeginRun(r) ==
  /\ request[r].pc = "idle"
  /\ \E u \in Runners, k \in Keys, s \in Scenarios :
       request' = [request EXCEPT ![r] =
         [Idle EXCEPT !.op = "run", !.pc = "find", !.actor = u,
                      !.key = k, !.scenario = s]]
  /\ UNCHANGED <<rows, audits>>

BeginOn(r, op, actors) ==
  /\ request[r].pc = "idle"
  /\ \E u \in actors, e \in EvaluationIds :
       request' = [request EXCEPT ![r] =
         [Idle EXCEPT !.op = op, !.pc = "read", !.actor = u, !.eval = e]]
  /\ UNCHANGED <<rows, audits>>

BeginConfirm(r) == BeginOn(r, "confirm", Confirmers)
BeginVoid(r) == BeginOn(r, "void", Confirmers)
BeginReplay(r) == BeginOn(r, "replay", Runners)
----------------------------------------------------------------------------
(* Run.                                                                     *)

\* A row with the key answers the request whatever its state, caller and
\* scenario; otherwise the run goes on to read its input.
FindExisting(r) ==
  /\ request[r].pc = "find"
  /\ IF FindByIdempotencyKey(request[r].key) # {}
       THEN Finish(r)
       ELSE request' = [request EXCEPT ![r].pc = "freeze"]
  /\ UNCHANGED <<rows, audits>>

\* Scenario, node and safeguards are three reads of rows that others edit
\* meanwhile: what they add up to is any content.
FreezeInput(r) ==
  /\ request[r].pc = "freeze"
  /\ \E c \in Contents :
       request' = [request EXCEPT ![r].pc = "create",
         ![r].snapshot = [scenario |-> request[r].scenario, content |-> c]]
  /\ UNCHANGED <<rows, audits>>

\* The INSERT, refused by the unique index on idempotency_key when another
\* run was faster; the second lookup then only reads, and answers.
CreateRow(r) ==
  /\ request[r].pc = "create"
  /\ \/ /\ ~KeyTaken(request[r].key)
        /\ \E e \in EvaluationIds :
             /\ rows[e] = Null
             /\ rows' = [rows EXCEPT ![e] =
                           NewRow(request[r].key, request[r].snapshot)]
             /\ request' = [request EXCEPT ![r].pc = "start", ![r].eval = e]
     \/ /\ KeyTaken(request[r].key)
        /\ Finish(r)
        /\ UNCHANGED rows
  /\ UNCHANGED audits

StartEvaluation(r) ==
  /\ request[r].pc = "start"
  /\ LET e == request[r].eval IN
       IF Matches(e, Startable)
         THEN /\ rows' = [rows EXCEPT ![e].state = "running"]
              /\ request' = [request EXCEPT ![r].pc = "evaluate"]
         ELSE Finish(r) /\ UNCHANGED rows
  /\ UNCHANGED audits

\* Evaluate succeeded: one conditional UPDATE stores the whole result.
CompleteEvaluation(r) ==
  /\ request[r].pc = "evaluate"
  /\ Outcome[request[r].snapshot] # EvaluationError
  /\ LET e == request[r].eval
         s == request[r].snapshot
     IN  IF Matches(e, {"running"})
           THEN /\ rows' = [rows EXCEPT ![e] = Completed(rows[e], s)]
                /\ request' = [request EXCEPT ![r].pc = "reload",
                                 ![r].hash = HashString(s)]
           ELSE Finish(r) /\ UNCHANGED rows
  /\ UNCHANGED audits

\* Evaluate returned an error: the row is failed and nothing is audited.
FailEvaluation(r) ==
  /\ request[r].pc = "evaluate"
  /\ Outcome[request[r].snapshot] = EvaluationError
  /\ LET e == request[r].eval IN
       rows' = IF Matches(e, {"running"})
                 THEN [rows EXCEPT ![e].state = "failed"] ELSE rows
  /\ Finish(r)
  /\ UNCHANGED audits
----------------------------------------------------------------------------
(* Confirm and void: read, check, conditional update, reload, audit.        *)

\* The author is read through the evaluation and never changes, so the two
\* reads are one step.
ReadForConfirm(r) ==
  /\ request[r].pc = "read"
  /\ request[r].op = "confirm"
  /\ LET e == request[r].eval IN
       IF rows[e] # Null /\ MayConfirm(rows[e], request[r].actor)
         THEN request' = [request EXCEPT ![r].pc = "change",
                ![r].before = rows[e].state, ![r].hash = rows[e].hash]
         ELSE Finish(r)
  /\ UNCHANGED <<rows, audits>>

Confirm(r) ==
  /\ request[r].pc = "change"
  /\ request[r].op = "confirm"
  /\ LET e == request[r].eval IN
       IF Matches(e, Confirmable)
         THEN /\ rows' = [rows EXCEPT ![e].state = "confirmed",
                            ![e].confirmedBy = request[r].actor]
              /\ request' = [request EXCEPT ![r].pc = "reload"]
         ELSE Finish(r) /\ UNCHANGED rows
  /\ UNCHANGED audits

ReadForVoid(r) ==
  /\ request[r].pc = "read"
  /\ request[r].op = "void"
  /\ LET e == request[r].eval IN
       IF rows[e] # Null
         THEN request' = [request EXCEPT ![r].pc = "change",
                ![r].before = rows[e].state, ![r].hash = rows[e].hash]
         ELSE Finish(r)
  /\ UNCHANGED <<rows, audits>>

Void(r) ==
  /\ request[r].pc = "change"
  /\ request[r].op = "void"
  /\ LET e == request[r].eval IN
       IF Matches(e, Voidable)
         THEN /\ rows' = [rows EXCEPT ![e] = Voided(rows[e])]
              /\ request' = [request EXCEPT ![r].pc = "reload"]
         ELSE Finish(r) /\ UNCHANGED rows
  /\ UNCHANGED audits

\* The row as it is by now, which another request may have changed again.
Reload(r) ==
  /\ request[r].pc = "reload"
  /\ request' = [request EXCEPT ![r].pc = "audit",
                   ![r].after = IF request[r].op = "run" THEN Null
                                ELSE rows[request[r].eval].state]
  /\ UNCHANGED <<rows, audits>>
----------------------------------------------------------------------------
(* Replay: evaluate the stored snapshot again, in whatever state the row is *)
(* read, and store whether it gave the stored hash and score.               *)
Replays(row) ==
  /\ HashString(row.snapshot) = row.hash
  /\ Outcome[row.snapshot] # EvaluationError

\* Fault: only the hash is compared, not the score.
FaultyVerdict(row) == HashString(row.snapshot) = row.hash

Verdict(row) ==
  /\ HashString(row.snapshot) = row.hash
  /\ Outcome[row.snapshot] = row.score

ReadForReplay(r) ==
  /\ request[r].pc = "read"
  /\ request[r].op = "replay"
  /\ LET e == request[r].eval IN
       IF rows[e] # Null /\ Replays(rows[e])
         THEN request' = [request EXCEPT ![r].pc = "store",
                ![r].before = rows[e].state, ![r].hash = rows[e].hash,
                ![r].passed = Verdict(rows[e])]
         ELSE Finish(r)
  /\ UNCHANGED <<rows, audits>>

SetReplayResult(r) ==
  /\ request[r].pc = "store"
  /\ rows' = [rows EXCEPT ![request[r].eval].replayPassed = request[r].passed]
  /\ request' = [request EXCEPT ![r].pc = "audit"]
  /\ UNCHANGED audits
----------------------------------------------------------------------------
(* The audit row is a statement of its own, after the change it describes.  *)
\* Fault: the action name of Confirm was copied into Void.
FaultyAuditOf(q) ==
  [action |-> IF q.op = "void" THEN "confirm" ELSE q.op, eval |-> q.eval,
   actor |-> q.actor, hash |-> q.hash, before |-> Null, after |-> q.after,
   passed |-> q.passed]

AuditOf(q) ==
  [action |-> q.op, eval |-> q.eval, actor |-> q.actor, hash |-> q.hash,
   before |-> IF q.op = "replay" THEN Null ELSE q.before, after |-> q.after,
   passed |-> q.passed]

RecordAudit(r) ==
  /\ request[r].pc = "audit"
  /\ audits' = audits \cup {AuditOf(request[r])}
  /\ Finish(r)
  /\ UNCHANGED rows

\* The caller disconnects (its context cancels the next statement), a
\* statement fails, or the process stops: what was committed stays.
Interrupt(r) ==
  /\ Interrupts
  /\ request[r].pc # "idle"
  /\ Finish(r)
  /\ UNCHANGED <<rows, audits>>

Begin(r) == BeginRun(r) \/ BeginConfirm(r) \/ BeginVoid(r) \/ BeginReplay(r)

Step(r) ==
  \/ FindExisting(r) \/ FreezeInput(r) \/ CreateRow(r) \/ StartEvaluation(r)
  \/ CompleteEvaluation(r) \/ FailEvaluation(r)
  \/ ReadForConfirm(r) \/ Confirm(r) \/ ReadForVoid(r) \/ Void(r) \/ Reload(r)
  \/ ReadForReplay(r) \/ SetReplayResult(r) \/ RecordAudit(r)

Next == \E r \in Requests : Begin(r) \/ Step(r) \/ Interrupt(r)

Spec == Init /\ [][Next]_vars

\* The Go runtime keeps running every handler it has accepted.
FairSpec == Spec /\ \A r \in Requests : WF_vars(Step(r))
----------------------------------------------------------------------------
(* Properties.                                                              *)

\* Every row, request and audit entry has the shape its table or handler
\* gives it.
TypeOK ==
  /\ rows \in [EvaluationIds -> Row \cup {Null}]
  /\ request \in [Requests -> Request]
  /\ audits \subseteq Audit

\* Between its INSERT and its result, a run is alone on its row and finds it
\* as it left it: the two conflict answers of Run after Create cannot happen.
Executing(r) == request[r].pc \in {"start", "evaluate"}

RunOwnsItsRow ==
  \A r \in Requests :
    Executing(r) =>
      /\ Matches(request[r].eval,
                 {IF request[r].pc = "start" THEN "queued" ELSE "running"})
      /\ rows[request[r].eval].snapshot = request[r].snapshot
      /\ \A q \in Requests \ {r} :
           Executing(q) => request[q].eval # request[r].eval

\* A stored result is the evaluator's result for the snapshot stored beside
\* it, and no row that never completed carries one (Create, Complete).
ResultOfSnapshot ==
  \A e \in EvaluationIds :
    rows[e] # Null =>
      /\ rows[e].hash = HashString(rows[e].snapshot)
      /\ rows[e].state \in {"completed", "confirmed"} =>
           rows[e].score = Outcome[rows[e].snapshot]
      /\ rows[e].state \in {"queued", "running", "failed"} => rows[e].score = 0

\* Whoever confirmed an evaluation is not the author of its scenario, also
\* after a racing void; a confirmed row always says who confirmed it.
ConfirmerSeparated ==
  \A e \in EvaluationIds :
    rows[e] # Null =>
      /\ rows[e].confirmedBy # Null =>
           /\ rows[e].confirmedBy # Author[rows[e].snapshot.scenario]
           /\ rows[e].state \in {"confirmed", "voided"}
      /\ rows[e].state = "confirmed" => rows[e].confirmedBy # Null

\* The table of coverage_state.go, which no service consults: the from-lists
\* of the conditional updates have to agree with it.
CanTransition ==
  {<<"queued", "running">>, <<"running", "completed">>, <<"running", "failed">>,
   <<"completed", "confirmed">>, <<"completed", "voided">>,
   <<"failed", "voided">>, <<"confirmed", "voided">>}

LegalTransition(old, new) ==
  IF old = Null THEN new = Null \/ new.state = "queued"
  ELSE new # Null /\ (new.state = old.state \/ <<old.state, new.state>> \in CanTransition)

LegalTransitions ==
  [][\A e \in EvaluationIds : LegalTransition(rows[e], rows'[e])]_vars

\* History is never overwritten: the frozen input, and once there is one the
\* result and the confirmer, survive every later request on the row.
Frozen(old, new) ==
  old # Null =>
    /\ new.key = old.key /\ new.snapshot = old.snapshot /\ new.hash = old.hash
    /\ old.state \notin Pending => new.score = old.score
    /\ old.confirmedBy # Null => new.confirmedBy = old.confirmedBy

EvidenceFrozen == [][\A e \in EvaluationIds : Frozen(rows[e], rows'[e])]_vars

\* A run that stopped between Create and its result leaves a row nothing can
\* move any more: the key only finds it, void and confirm refuse it.
Abandoned(e) ==
  /\ Matches(e, Pending)
  /\ \A r \in Requests : Executing(r) => request[r].eval # e

AbandonedForGood ==
  [][\A e \in EvaluationIds :
       Abandoned(e) => rows'[e].state = rows[e].state]_vars

\* A row marked as passing its replay carries the result its snapshot gives,
\* whatever state the replay read it in and whatever runs, confirms and voids
\* went by before it stored the verdict (Replay, SetReplayResult).
PassedReplaysHold ==
  \A e \in EvaluationIds :
    rows[e] # Null /\ rows[e].replayPassed = TRUE =>
      /\ rows[e].hash = HashString(rows[e].snapshot)
      /\ rows[e].score = Outcome[rows[e].snapshot]

\* A confirmation entry names the user the row was confirmed by, and every
\* entry the input its evaluation was run on, though both are written later.
AuditNamesConfirmer ==
  \A a \in audits :
    /\ rows[a.eval] # Null
    /\ a.hash = rows[a.eval].hash
    /\ a.action = "confirm" => a.actor = rows[a.eval].confirmedBy

\* As long as no request is cut short (with Interrupts the entry may be lost),
\* every result, confirmation and voiding is in the audit trail or about to be
\* written by the request that made it.  A run that fails writes no entry.
Audited(e, op) ==
  \/ \E a \in audits : a.eval = e /\ a.action = op
  \/ \E r \in Requests :
       request[r].eval = e /\ request[r].op = op
         /\ request[r].pc \in {"reload", "audit"}

ChangesAudited ==
  \A e \in EvaluationIds :
    rows[e] # Null =>
      /\ rows[e].state \in {"completed", "confirmed"} => Audited(e, "run")
      /\ rows[e].confirmedBy # Null => Audited(e, "confirm")
      /\ rows[e].state = "voided" => Audited(e, "void")

\* An evaluation that has a result is not marked as failing its replay: the
\* evaluator is deterministic and the input is frozen.
CompletedNeverFailsReplay ==
  \A e \in EvaluationIds :
    Matches(e, {"completed", "confirmed"}) => rows[e].replayPassed # FALSE

\* Without interruption every accepted run leaves its row finished.
EveryRunFinishes ==
  \A e \in EvaluationIds : Matches(e, Pending) ~> ~Matches(e, Pending)
============================================================================
