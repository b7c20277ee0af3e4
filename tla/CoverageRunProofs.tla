------------------------- MODULE CoverageRunProofs -------------------------
(* Theorems about CoverageRun for every set of requests, rows, keys, users, *)
(* scenarios and inputs, with or without interruptions.                     *)
EXTENDS CoverageRefinesLedger, TLAPS

(* What a request knows at each of its program counters.                    *)
RequestOK(r) ==
  LET q == request[r] IN
  /\ q.pc # "idle" => q.actor \in Users /\ q.op \in {"run", "confirm", "void", "replay"}
  /\ q.pc \in {"find", "freeze", "create"} =>
       q.key \in Keys /\ q.scenario \in Scenarios
  /\ q.pc \in {"create", "start", "evaluate"} => q.snapshot \in Snapshot
  /\ q.pc \in {"start", "evaluate", "read", "change", "reload", "store", "audit"} =>
       q.eval \in EvaluationIds
  /\ q.pc \in {"start", "evaluate", "change", "reload", "store", "audit"} =>
       rows[q.eval] # Null
  /\ q.pc \in {"change", "reload", "store", "audit"} => q.hash \in Hashes
  /\ q.pc = "store" => q.passed \in BOOLEAN /\ q.op = "replay"
  /\ q.pc \in {"find", "freeze", "create", "start", "evaluate"} => q.op = "run"

TypeInv == TypeOK /\ \A r \in Requests : RequestOK(r)

\* An idle request record is well typed.
LEMMA IdleType == Idle \in Request
BY NullAssumption DEF Idle, Request

\* The row Run inserts is well typed and is not NULL.
LEMMA NewRowType ==
  ASSUME NEW k \in Keys, NEW s \in Snapshot
  PROVE  NewRow(k, s) \in Row /\ NewRow(k, s) # Null
BY NullAssumption DEF NewRow, Row, States, Hashes

\* No database row: every request is idle.
LEMMA TypeInvInit == Init => TypeInv
BY IdleType DEF Init, TypeInv, TypeOK, RequestOK, Idle

\* What one step of request r has to show: the new record of r, the new
\* table, and that no row disappears; the other requests follow.
LEMMA TypeInvStep ==
  ASSUME TypeInv, NEW r \in Requests, NEW q \in Request,
         request' = [request EXCEPT ![r] = q],
         rows' \in [EvaluationIds -> Row \cup {Null}],
         \A e \in EvaluationIds : rows[e] # Null => rows'[e] # Null,
         audits' \subseteq Audit,
         RequestOK(r)'
  PROVE  TypeInv'
<1>1. TypeOK'
  BY DEF TypeInv, TypeOK
<1>2. ASSUME NEW p \in Requests PROVE RequestOK(p)'
  <2>1. CASE p = r
    BY <2>1
  <2>2. CASE p # r
    <3>1. request'[p] = request[p] /\ RequestOK(p)
      BY <2>2 DEF TypeInv, TypeOK
    <3>. QED BY <3>1 DEF RequestOK
  <2>. QED BY <2>1, <2>2
<1>. QED BY <1>1, <1>2 DEF TypeInv

\* Answering.
LEMMA TypeInvFinish ==
  ASSUME TypeInv, NEW r \in Requests, Finish(r),
         rows' \in [EvaluationIds -> Row \cup {Null}],
         \A e \in EvaluationIds : rows[e] # Null => rows'[e] # Null,
         audits' \subseteq Audit
  PROVE  TypeInv'
<1>1. request' = [request EXCEPT ![r] = Idle]
  BY DEF Finish
<1>2. RequestOK(r)'
  BY <1>1 DEF RequestOK, Idle, TypeInv, TypeOK
<1>. QED BY <1>1, <1>2, IdleType, TypeInvStep

\* Beginning a request.
LEMMA TypeInvBegin ==
  ASSUME TypeInv, NEW r \in Requests, Begin(r)
  PROVE  TypeInv'
<1>0. /\ UNCHANGED <<rows, audits>>
      /\ rows \in [EvaluationIds -> Row \cup {Null}] /\ audits \subseteq Audit
      /\ request \in [Requests -> Request]
  BY DEF Begin, BeginRun, BeginConfirm, BeginVoid, BeginReplay, BeginOn, TypeInv, TypeOK
<1>1. CASE BeginRun(r)
  <2>1. PICK u \in Users, k \in Keys, s \in Scenarios :
          request' = [request EXCEPT ![r] =
            [Idle EXCEPT !.op = "run", !.pc = "find", !.actor = u,
                         !.key = k, !.scenario = s]]
    BY <1>1, UserAssumption DEF BeginRun
  <2>. DEFINE q == [Idle EXCEPT !.op = "run", !.pc = "find", !.actor = u,
                                !.key = k, !.scenario = s]
  <2>2. q \in Request
    BY IdleType DEF Request, Idle
  <2>3. RequestOK(r)'
    BY <2>1, <1>0 DEF RequestOK, Idle
  <2>. QED BY <2>1, <2>2, <2>3, <1>0, TypeInvStep
<1>2. CASE BeginConfirm(r) \/ BeginVoid(r) \/ BeginReplay(r)
  <2>1. PICK op \in {"confirm", "void", "replay"}, u \in Users, e \in EvaluationIds :
          request' = [request EXCEPT ![r] =
            [Idle EXCEPT !.op = op, !.pc = "read", !.actor = u, !.eval = e]]
    BY <1>2, UserAssumption DEF BeginConfirm, BeginVoid, BeginReplay, BeginOn
  <2>. DEFINE q == [Idle EXCEPT !.op = op, !.pc = "read", !.actor = u, !.eval = e]
  <2>2. q \in Request
    BY IdleType DEF Request, Idle
  <2>3. RequestOK(r)'
    BY <2>1, <1>0 DEF RequestOK, Idle
  <2>. QED BY <2>1, <2>2, <2>3, <1>0, TypeInvStep
<1>. QED BY <1>1, <1>2 DEF Begin

\* What the type invariant says of one request, spelled out.
LEMMA TypeFacts ==
  ASSUME TypeInv, NEW r \in Requests
  PROVE  /\ rows \in [EvaluationIds -> Row \cup {Null}]
         /\ request \in [Requests -> Request]
         /\ audits \subseteq Audit
         /\ request[r] \in Request
         /\ RequestOK(r)
         /\ request[r].eval \in EvaluationIds /\ rows[request[r].eval] # Null
              => rows[request[r].eval] \in Row
BY DEF TypeInv, TypeOK

\* The statements of Run.
LEMMA TypeInvRun ==
  ASSUME TypeInv, NEW r \in Requests,
         FindExisting(r) \/ FreezeInput(r) \/ CreateRow(r) \/ StartEvaluation(r)
           \/ CompleteEvaluation(r) \/ FailEvaluation(r)
  PROVE  TypeInv'
<1>. USE TypeFacts
<1>1. CASE FindExisting(r)
  <2>1. CASE Finish(r)
    BY <1>1, <2>1, TypeInvFinish DEF FindExisting
  <2>2. CASE request' = [request EXCEPT ![r].pc = "freeze"]
    <3>. DEFINE q == [request[r] EXCEPT !.pc = "freeze"]
    <3>1. q \in Request /\ request' = [request EXCEPT ![r] = q]
      BY <2>2 DEF Request
    <3>2. RequestOK(r)'
      BY <1>1, <2>2 DEF FindExisting, RequestOK, Request
    <3>. QED BY <1>1, <3>1, <3>2, TypeInvStep DEF FindExisting
  <2>. QED BY <1>1, <2>1, <2>2 DEF FindExisting
<1>2. CASE FreezeInput(r)
  <2>1. PICK c \in Contents :
          request' = [request EXCEPT ![r].pc = "create",
            ![r].snapshot = [scenario |-> request[r].scenario, content |-> c]]
    BY <1>2 DEF FreezeInput
  <2>. DEFINE q == [request[r] EXCEPT !.pc = "create",
                     !.snapshot = [scenario |-> request[r].scenario, content |-> c]]
  <2>2. [scenario |-> request[r].scenario, content |-> c] \in Snapshot
    BY <1>2 DEF FreezeInput, RequestOK, Snapshot
  <2>3. q \in Request /\ request' = [request EXCEPT ![r] = q]
    BY <2>1, <2>2 DEF Request
  <2>4. RequestOK(r)'
    BY <1>2, <2>1, <2>2 DEF FreezeInput, RequestOK, Request
  <2>. QED BY <1>2, <2>3, <2>4, TypeInvStep DEF FreezeInput
<1>3. CASE CreateRow(r)
  <2>1. CASE Finish(r) /\ UNCHANGED rows
    BY <1>3, <2>1, TypeInvFinish DEF CreateRow
  <2>2. ASSUME NEW e \in EvaluationIds,
               rows[e] = Null,
               rows' = [rows EXCEPT ![e] = NewRow(request[r].key, request[r].snapshot)],
               request' = [request EXCEPT ![r].pc = "start", ![r].eval = e]
        PROVE  TypeInv'
    <3>. DEFINE q == [request[r] EXCEPT !.pc = "start", !.eval = e]
    <3>1. request' = [request EXCEPT ![r] = q]
      BY <2>2 DEF Request
    <3>6. q \in Request
      BY TypeFacts DEF Request
    <3>2. request[r].key \in Keys /\ request[r].snapshot \in Snapshot
      BY <1>3 DEF CreateRow, RequestOK
    <3>3. rows'[e] \in Row /\ rows'[e] # Null
      BY <2>2, <3>2, NewRowType
    <3>4. /\ rows' \in [EvaluationIds -> Row \cup {Null}]
          /\ \A f \in EvaluationIds : rows[f] # Null => rows'[f] # Null
      BY <2>2, <3>3
    <3>5. RequestOK(r)'
      BY <1>3, <2>2, <3>3 DEF CreateRow, RequestOK, Request
    <3>. QED BY <1>3, <3>1, <3>6, <3>4, <3>5, TypeInvStep DEF CreateRow
  <2>. QED BY <1>3, <2>1, <2>2 DEF CreateRow
<1>4. CASE StartEvaluation(r)
  <2>. DEFINE e == request[r].eval
  <2>1. CASE Finish(r) /\ UNCHANGED rows
    BY <1>4, <2>1, TypeInvFinish DEF StartEvaluation
  <2>2. CASE /\ rows' = [rows EXCEPT ![e].state = "running"]
             /\ request' = [request EXCEPT ![r].pc = "evaluate"]
    <3>. DEFINE q == [request[r] EXCEPT !.pc = "evaluate"]
    <3>1. q \in Request /\ request' = [request EXCEPT ![r] = q]
      BY <2>2 DEF Request
    <3>2. e \in EvaluationIds /\ rows[e] # Null /\ rows[e] \in Row
      BY <1>4 DEF StartEvaluation, RequestOK
    <3>3. rows'[e] \in Row /\ rows'[e] # Null
      BY <2>2, <3>2, NullAssumption DEF Row, States
    <3>4. /\ rows' \in [EvaluationIds -> Row \cup {Null}]
          /\ \A f \in EvaluationIds : rows[f] # Null => rows'[f] # Null
      BY <2>2, <3>3
    <3>5. RequestOK(r)'
      BY <1>4, <2>2, <3>3 DEF StartEvaluation, RequestOK, Request
    <3>. QED BY <1>4, <3>1, <3>4, <3>5, TypeInvStep DEF StartEvaluation
  <2>. QED BY <1>4, <2>1, <2>2 DEF StartEvaluation
<1>5. CASE CompleteEvaluation(r)
  <2>. DEFINE e == request[r].eval
              s == request[r].snapshot
  <2>1. CASE Finish(r) /\ UNCHANGED rows
    BY <1>5, <2>1, TypeInvFinish DEF CompleteEvaluation
  <2>2. CASE /\ rows' = [rows EXCEPT ![e] = Completed(rows[e], s)]
             /\ request' = [request EXCEPT ![r].pc = "reload",
                              ![r].hash = HashString(s)]
    <3>. DEFINE q == [request[r] EXCEPT !.pc = "reload", !.hash = HashString(s)]
    <3>1. /\ s \in Snapshot /\ HashString(s) \in Hashes /\ Outcome[s] \in Nat
          /\ e \in EvaluationIds /\ rows[e] # Null /\ rows[e] \in Row
      BY <1>5, OutcomeAssumption DEF CompleteEvaluation, RequestOK, Hashes
    <3>2. q \in Request /\ request' = [request EXCEPT ![r] = q]
      BY <2>2, <3>1 DEF Request
    <3>3. rows'[e] \in Row /\ rows'[e] # Null
      <4>. HIDE DEF s
      <4>. QED BY <2>2, <3>1, NullAssumption DEF Row, States, Completed
    <3>4. /\ rows' \in [EvaluationIds -> Row \cup {Null}]
          /\ \A f \in EvaluationIds : rows[f] # Null => rows'[f] # Null
      BY <2>2, <3>3
    <3>5. RequestOK(r)'
      <4>1. /\ request'[r].pc = "reload" /\ request'[r].eval = e
            /\ request'[r].op = request[r].op /\ request'[r].actor = request[r].actor
            /\ request'[r].hash = HashString(s)
        BY <3>2 DEF Request
      <4>2. request[r].pc = "evaluate"
        BY <1>5 DEF CompleteEvaluation
      <4>. QED BY <4>1, <4>2, <3>1, <3>3 DEF RequestOK
    <3>. QED BY <1>5, <3>2, <3>4, <3>5, TypeInvStep DEF CompleteEvaluation
  <2>. QED BY <1>5, <2>1, <2>2 DEF CompleteEvaluation
<1>6. CASE FailEvaluation(r)
  <2>. DEFINE e == request[r].eval
  <2>1. e \in EvaluationIds /\ rows[e] # Null /\ rows[e] \in Row
    BY <1>6 DEF FailEvaluation, RequestOK
  <2>2. rows' = [rows EXCEPT ![e].state = "failed"] \/ rows' = rows
    BY <1>6 DEF FailEvaluation
  <2>3. rows'[e] \in Row /\ rows'[e] # Null
    BY <2>1, <2>2, NullAssumption DEF Row, States
  <2>4. /\ rows' \in [EvaluationIds -> Row \cup {Null}]
        /\ \A f \in EvaluationIds : rows[f] # Null => rows'[f] # Null
    BY <2>2, <2>3
  <2>. QED BY <1>6, <2>4, TypeInvFinish DEF FailEvaluation
<1>. QED BY <1>1, <1>2, <1>3, <1>4, <1>5, <1>6

\* A statement that only touches fields of one existing row.
LEMMA RowUpdate ==
  ASSUME TypeInv, NEW e \in EvaluationIds, rows[e] # Null, NEW w \in Row,
         rows' = [rows EXCEPT ![e] = w]
  PROVE  /\ rows' \in [EvaluationIds -> Row \cup {Null}]
         /\ \A f \in EvaluationIds : rows[f] # Null => rows'[f] # Null
         /\ rows'[e] = w /\ rows'[e] # Null
BY NullAssumption DEF TypeInv, TypeOK

\* The statements of Confirm, Void and Replay, and the audit entry.
LEMMA TypeInvRead ==
  ASSUME TypeInv, NEW r \in Requests,
         ReadForConfirm(r) \/ ReadForVoid(r) \/ ReadForReplay(r)
  PROVE  TypeInv'
<1>. USE TypeFacts
<1>. DEFINE e == request[r].eval
<1>0. UNCHANGED <<rows, audits>> /\ request[r].pc = "read"
  BY DEF ReadForConfirm, ReadForVoid, ReadForReplay
<1>1. CASE Finish(r)
  BY <1>0, <1>1, TypeInvFinish
<1>2. CASE /\ rows[e] # Null
           /\ request' = [request EXCEPT ![r].pc = "change",
                            ![r].before = rows[e].state, ![r].hash = rows[e].hash]
  <2>. DEFINE q == [request[r] EXCEPT !.pc = "change",
                     !.before = rows[e].state, !.hash = rows[e].hash]
  <2>1. e \in EvaluationIds /\ rows[e].state \in States /\ rows[e].hash \in Hashes
    BY <1>0, <1>2 DEF RequestOK, Row
  <2>2. request' = [request EXCEPT ![r] = q]
    BY <1>2 DEF Request
  <2>3. q \in Request
    BY <2>1 DEF Request
  <2>4. RequestOK(r)'
    BY <1>0, <1>2, <2>1 DEF RequestOK, Request
  <2>. QED BY <1>0, <2>2, <2>3, <2>4, TypeInvStep
<1>3. CASE /\ rows[e] # Null /\ request[r].op = "replay"
           /\ request' = [request EXCEPT ![r].pc = "store",
                ![r].before = rows[e].state, ![r].hash = rows[e].hash,
                ![r].passed = Verdict(rows[e])]
  <2>. DEFINE p == Verdict(rows[e])
              q == [request[r] EXCEPT !.pc = "store",
                     !.before = rows[e].state, !.hash = rows[e].hash, !.passed = p]
  <2>1. e \in EvaluationIds /\ rows[e].state \in States /\ rows[e].hash \in Hashes
    BY <1>0, <1>3 DEF RequestOK, Row
  <2>2. p \in BOOLEAN
    BY DEF Verdict
  <2>. HIDE DEF p
  <2>3. request' = [request EXCEPT ![r] = q]
    BY <1>3 DEF Request, p
  <2>4. q \in Request
    BY <2>1, <2>2 DEF Request
  <2>5. /\ request'[r].pc = "store" /\ request'[r].eval = e
        /\ request'[r].op = request[r].op /\ request'[r].actor = request[r].actor
        /\ request'[r].hash = rows[e].hash /\ request'[r].passed = p
    BY <2>3 DEF Request
  <2>6. RequestOK(r)'
    BY <1>0, <1>3, <2>1, <2>2, <2>5 DEF RequestOK
  <2>. QED BY <1>0, <2>3, <2>4, <2>6, TypeInvStep
<1>. QED BY <1>1, <1>2, <1>3 DEF ReadForConfirm, ReadForVoid, ReadForReplay

\* The conditional updates of Confirm and Void.
LEMMA TypeInvChange ==
  ASSUME TypeInv, NEW r \in Requests, Confirm(r) \/ Void(r)
  PROVE  TypeInv'
<1>. USE TypeFacts
<1>. DEFINE e == request[r].eval
            q == [request[r] EXCEPT !.pc = "reload"]
<1>0. /\ request[r].pc = "change" /\ UNCHANGED audits
      /\ e \in EvaluationIds /\ rows[e] # Null /\ rows[e] \in Row
      /\ request[r].actor \in Users
  BY DEF Confirm, Void, RequestOK
<1>1. CASE Finish(r) /\ UNCHANGED rows
  BY <1>0, <1>1, TypeInvFinish
<1>2. ASSUME NEW w \in Row, rows' = [rows EXCEPT ![e] = w],
             request' = [request EXCEPT ![r].pc = "reload"]
      PROVE  TypeInv'
  <2>1. request' = [request EXCEPT ![r] = q]
    BY <1>2 DEF Request
  <2>2. q \in Request
    BY DEF Request
  <2>4. rows'[e] # Null
    BY <1>0, <1>2, RowUpdate
  <2>5. request'[r] = q
    BY <1>2 DEF Request
  <2>3. RequestOK(r)'
    BY <1>0, <2>4, <2>5 DEF RequestOK, Request
  <2>. QED BY <1>0, <1>2, <2>1, <2>2, <2>3, RowUpdate, TypeInvStep
<1>3. [rows[e] EXCEPT !.state = "confirmed", !.confirmedBy = request[r].actor] \in Row
  BY <1>0 DEF Row, States
<1>4. Voided(rows[e]) \in Row
  BY <1>0 DEF Row, States, Voided
<1>5. CASE Confirm(r)
  <2>. DEFINE w == [rows[e] EXCEPT !.state = "confirmed", !.confirmedBy = request[r].actor]
  <2>1. CASE /\ rows' = [rows EXCEPT ![e].state = "confirmed",
                            ![e].confirmedBy = request[r].actor]
             /\ request' = [request EXCEPT ![r].pc = "reload"]
    <3>1. rows' = [rows EXCEPT ![e] = w]
      BY <1>0, <2>1 DEF Row
    <3>. QED BY <2>1, <3>1, <1>2, <1>3
  <2>. QED BY <1>5, <1>1, <2>1 DEF Confirm
<1>6. CASE Void(r)
  <2>. DEFINE w == Voided(rows[e])
  <2>1. CASE /\ rows' = [rows EXCEPT ![e] = Voided(rows[e])]
             /\ request' = [request EXCEPT ![r].pc = "reload"]
    <3>1. rows' = [rows EXCEPT ![e] = w]
      BY <1>0, <2>1 DEF Row
    <3>. QED BY <2>1, <3>1, <1>2, <1>4
  <2>. QED BY <1>6, <1>1, <2>1 DEF Void
<1>. QED BY <1>5, <1>6

\* The reload, the replay's verdict, the audit entry, an interruption.
LEMMA TypeInvAfter ==
  ASSUME TypeInv, NEW r \in Requests,
         Reload(r) \/ SetReplayResult(r) \/ RecordAudit(r) \/ Interrupt(r)
  PROVE  TypeInv'
<1>. USE TypeFacts
<1>. DEFINE e == request[r].eval
<1>1. CASE Reload(r)
  <2>. DEFINE a == IF request[r].op = "run" THEN Null ELSE rows[e].state
              q == [request[r] EXCEPT !.pc = "audit", !.after = a]
  <2>1. e \in EvaluationIds /\ rows[e] # Null /\ a \in States \cup {Null}
    BY <1>1 DEF Reload, RequestOK, Row
  <2>. HIDE DEF a
  <2>2. request' = [request EXCEPT ![r] = q]
    BY <1>1 DEF Reload, Request, a
  <2>3. q \in Request
    BY <2>1 DEF Request
  <2>4. RequestOK(r)'
    BY <1>1, <2>2 DEF Reload, RequestOK, Request
  <2>. QED BY <1>1, <2>2, <2>3, <2>4, TypeInvStep DEF Reload
<1>2. CASE SetReplayResult(r)
  <2>. DEFINE w == [rows[e] EXCEPT !.replayPassed = request[r].passed]
              q == [request[r] EXCEPT !.pc = "audit"]
  <2>1. e \in EvaluationIds /\ rows[e] # Null /\ w \in Row
    BY <1>2 DEF SetReplayResult, RequestOK, Row
  <2>2. rows' = [rows EXCEPT ![e] = w]
    BY <1>2 DEF SetReplayResult
  <2>3. q \in Request /\ request' = [request EXCEPT ![r] = q]
    BY <1>2 DEF SetReplayResult, Request
  <2>. HIDE DEF w
  <2>4. RequestOK(r)'
    <3>1. rows'[e] # Null
      BY <2>1, <2>2, RowUpdate
    <3>2. request'[r] = q /\ request[r].pc = "store"
      BY <1>2, <2>3 DEF SetReplayResult
    <3>. QED BY <2>1, <3>1, <3>2 DEF RequestOK, Request
  <2>. QED BY <1>2, <2>1, <2>2, <2>3, <2>4, RowUpdate, TypeInvStep DEF SetReplayResult
<1>3. CASE RecordAudit(r)
  <2>1. AuditOf(request[r]) \in Audit
    BY <1>3 DEF RecordAudit, AuditOf, RequestOK, Request, Audit
  <2>. QED BY <1>3, <2>1, TypeInvFinish DEF RecordAudit
<1>4. CASE Interrupt(r)
  BY <1>4, TypeInvFinish DEF Interrupt
<1>. QED BY <1>1, <1>2, <1>3, <1>4

\* The type invariant is inductive.
LEMMA TypeInvNext == TypeInv /\ [Next]_vars => TypeInv'
<1>. SUFFICES ASSUME TypeInv, [Next]_vars PROVE TypeInv'
  OBVIOUS
<1>1. CASE Next
  BY <1>1, TypeInvBegin, TypeInvRun, TypeInvRead, TypeInvChange, TypeInvAfter
  DEF Next, Step
<1>2. CASE UNCHANGED vars
  BY <1>2 DEF vars, TypeInv, TypeOK, RequestOK
<1>. QED BY <1>1, <1>2

\* Whatever requests run and wherever they stop, the tables and the handlers'
\* locals keep their shape.
THEOREM TypeCorrect == Spec => []TypeOK
<1>1. TypeInv => TypeOK
  BY DEF TypeInv
<1>. QED BY <1>1, TypeInvInit, TypeInvNext, PTL DEF Spec
----------------------------------------------------------------------------
(* The inductive invariant.  None of its parts is inductive alone: a result *)
(* belongs to its snapshot because the run that stores it still owns the    *)
(* row, and a confirmer is separated because the check it made before the   *)
(* update still holds at the update.                                        *)
ConfirmChecked ==
  \A r \in Requests :
    request[r].pc = "change" /\ request[r].op = "confirm"
      => Author[rows[request[r].eval].snapshot.scenario] # request[r].actor

\* An Idempotency-Key names at most one evaluation.
OneRowPerKey ==
  \A e, f \in EvaluationIds :
    rows[e] # Null /\ rows[f] # Null /\ rows[e].key = rows[f].key => e = f

Inv == /\ TypeInv /\ OneRowPerKey /\ RunOwnsItsRow
       /\ ResultOfSnapshot /\ ConfirmerSeparated /\ ConfirmChecked

\* What one UPDATE may do to a row.
Kept(old, new) ==
  /\ old \in Row /\ new \in Row
  /\ new.key = old.key /\ new.snapshot = old.snapshot /\ new.hash = old.hash

Starts(old, new) ==
  /\ old.state = "queued" /\ new.state = "running"
  /\ new.score = old.score /\ new.confirmedBy = old.confirmedBy

Completes(old, new) ==
  /\ old.state = "running" /\ new.state = "completed"
  /\ Outcome[old.snapshot] # EvaluationError
  /\ new.score = Outcome[old.snapshot] /\ new.confirmedBy = old.confirmedBy

Fails(old, new) ==
  /\ old.state = "running" /\ new.state = "failed"
  /\ Outcome[old.snapshot] = EvaluationError
  /\ new.score = old.score /\ new.confirmedBy = old.confirmedBy

Confirms(old, new) ==
  /\ old.state = "completed" /\ new.state = "confirmed" /\ new.score = old.score
  /\ new.confirmedBy \in Users /\ new.confirmedBy # Author[old.snapshot.scenario]

Voids(old, new) ==
  /\ old.state \in {"completed", "failed", "confirmed"} /\ new.state = "voided"
  /\ new.score = old.score /\ new.confirmedBy = old.confirmedBy

Marks(old, new) ==
  /\ new.state = old.state
  /\ new.score = old.score /\ new.confirmedBy = old.confirmedBy

Owned(r, e) == Executing(r) /\ request[r].eval = e

\* Every statement leaves the table alone, inserts a row under a key that had
\* none, or changes one row in one of the ways above; only the run that owns
\* a row starts, completes or fails it.
RowStep(r) ==
  \/ UNCHANGED rows
  \/ \E e \in EvaluationIds, k \in Keys, s \in Snapshot :
       /\ rows[e] = Null /\ ~KeyTaken(k)
       /\ rows' = [rows EXCEPT ![e] = NewRow(k, s)]
  \/ \E e \in EvaluationIds, w \in Row :
       /\ rows[e] # Null /\ rows' = [rows EXCEPT ![e] = w]
       /\ Kept(rows[e], w)
       /\ \/ Confirms(rows[e], w) \/ Voids(rows[e], w) \/ Marks(rows[e], w)
          \/ /\ Owned(r, e)
             /\ Starts(rows[e], w) \/ Completes(rows[e], w) \/ Fails(rows[e], w)

\* Every step of a request is one of these.
LEMMA RowStepNext ==
  ASSUME Inv, NEW r \in Requests, Begin(r) \/ Step(r) \/ Interrupt(r)
  PROVE  RowStep(r)
<1>. DEFINE e == request[r].eval
<1>. TypeInv
  BY DEF Inv
<1>. USE TypeFacts
<1>1. CASE UNCHANGED rows
  BY <1>1 DEF RowStep
<1>2. CASE CreateRow(r)
  <2>1. request[r].key \in Keys /\ request[r].snapshot \in Snapshot
    BY <1>2 DEF CreateRow, RequestOK
  <2>. QED BY <1>2, <2>1 DEF CreateRow, RowStep
<1>3. CASE StartEvaluation(r)
  <2>. DEFINE w == [rows[e] EXCEPT !.state = "running"]
  <2>1. e \in EvaluationIds /\ rows[e] # Null /\ rows[e] \in Row /\ Owned(r, e)
    BY <1>3 DEF StartEvaluation, RequestOK, Owned, Executing
  <2>2. CASE Matches(e, Startable) /\ rows' = [rows EXCEPT ![e].state = "running"]
    <3>1. rows' = [rows EXCEPT ![e] = w]
      BY <2>2
    <3>2. w \in Row /\ Kept(rows[e], w) /\ Starts(rows[e], w)
      BY <2>1, <2>2 DEF Row, States, Kept, Starts, Matches, Startable
    <3>. QED BY <2>1, <3>1, <3>2 DEF RowStep
  <2>. QED BY <1>1, <1>3, <2>2 DEF StartEvaluation
<1>4. CASE CompleteEvaluation(r)
  <2>. DEFINE s == request[r].snapshot
              w == Completed(rows[e], s)
  <2>1. e \in EvaluationIds /\ rows[e] # Null /\ rows[e] \in Row /\ Owned(r, e)
    BY <1>4 DEF CompleteEvaluation, RequestOK, Owned, Executing
  <2>2. CASE /\ Matches(e, {"running"})
             /\ rows' = [rows EXCEPT ![e] = Completed(rows[e], s)]
    <3>1. /\ rows[e].snapshot = s /\ rows[e].hash = HashString(s)
          /\ Outcome[s] # EvaluationError
          /\ s \in Snapshot /\ HashString(s) \in Hashes /\ Outcome[s] \in Nat
      BY <1>4, <2>1, OutcomeAssumption
      DEF CompleteEvaluation, RequestOK, Inv, RunOwnsItsRow, Executing,
          ResultOfSnapshot, Hashes
    <3>. HIDE DEF s
    <3>2. rows' = [rows EXCEPT ![e] = w]
      BY <2>2
    <3>3. w \in Row
      BY <2>1, <3>1 DEF Row, States, Completed
    <3>4. Kept(rows[e], w) /\ Completes(rows[e], w)
      BY <2>1, <2>2, <3>1, <3>3 DEF Row, Kept, Completes, Matches, Completed
    <3>. QED BY <2>1, <3>2, <3>3, <3>4 DEF RowStep
  <2>. QED BY <1>1, <1>4, <2>2 DEF CompleteEvaluation
<1>5. CASE FailEvaluation(r)
  <2>. DEFINE w == [rows[e] EXCEPT !.state = "failed"]
  <2>1. e \in EvaluationIds /\ rows[e] # Null /\ rows[e] \in Row /\ Owned(r, e)
    BY <1>5 DEF FailEvaluation, RequestOK, Owned, Executing
  <2>2. CASE Matches(e, {"running"}) /\ rows' = [rows EXCEPT ![e].state = "failed"]
    <3>1. rows' = [rows EXCEPT ![e] = w]
      BY <2>2
    <3>2. Outcome[rows[e].snapshot] = EvaluationError
      BY <1>5, <2>1 DEF FailEvaluation, Inv, RunOwnsItsRow, Owned
    <3>3. w \in Row /\ Kept(rows[e], w) /\ Fails(rows[e], w)
      BY <2>1, <2>2, <3>2 DEF Row, States, Kept, Fails, Matches
    <3>. QED BY <2>1, <3>1, <3>3 DEF RowStep
  <2>. QED BY <1>1, <1>5, <2>2 DEF FailEvaluation
<1>6. CASE Confirm(r)
  <2>. DEFINE u == request[r].actor
              w == [rows[e] EXCEPT !.state = "confirmed", !.confirmedBy = u]
  <2>1. e \in EvaluationIds /\ rows[e] # Null /\ rows[e] \in Row /\ u \in Users
    BY <1>6 DEF Confirm, RequestOK
  <2>2. u # Author[rows[e].snapshot.scenario]
    BY <1>6 DEF Confirm, Inv, ConfirmChecked
  <2>3. CASE /\ Matches(e, Confirmable)
             /\ rows' = [rows EXCEPT ![e].state = "confirmed", ![e].confirmedBy = u]
    <3>1. rows' = [rows EXCEPT ![e] = w]
      BY <2>3
    <3>2. w \in Row
      BY <2>1 DEF Row, States
    <3>3. Kept(rows[e], w) /\ Confirms(rows[e], w)
      BY <2>1, <2>2, <2>3, <3>2 DEF Row, Kept, Confirms, Matches, Confirmable
    <3>. QED BY <2>1, <3>1, <3>2, <3>3 DEF RowStep
  <2>. QED BY <1>1, <1>6, <2>3 DEF Confirm
<1>7. CASE Void(r)
  <2>. DEFINE w == Voided(rows[e])
  <2>1. e \in EvaluationIds /\ rows[e] # Null /\ rows[e] \in Row
    BY <1>7 DEF Void, RequestOK
  <2>2. CASE /\ Matches(e, Voidable)
             /\ rows' = [rows EXCEPT ![e] = Voided(rows[e])]
    <3>1. rows' = [rows EXCEPT ![e] = w]
      BY <2>2
    <3>2. w \in Row /\ Kept(rows[e], w) /\ Voids(rows[e], w)
      BY <2>1, <2>2 DEF Row, States, Kept, Voids, Matches, Voidable, Voided
    <3>. QED BY <2>1, <3>1, <3>2 DEF RowStep
  <2>. QED BY <1>1, <1>7, <2>2 DEF Void
<1>8. CASE SetReplayResult(r)
  <2>. DEFINE w == [rows[e] EXCEPT !.replayPassed = request[r].passed]
  <2>1. /\ e \in EvaluationIds /\ rows[e] # Null /\ rows[e] \in Row
        /\ request[r].passed \in BOOLEAN
    BY <1>8 DEF SetReplayResult, RequestOK
  <2>2. rows' = [rows EXCEPT ![e] = w]
    BY <1>8 DEF SetReplayResult
  <2>3. w \in Row /\ Kept(rows[e], w) /\ Marks(rows[e], w)
    BY <2>1 DEF Row, Kept, Marks
  <2>. QED BY <2>1, <2>2, <2>3 DEF RowStep
<1>9. CASE Begin(r) \/ Interrupt(r) \/ FindExisting(r) \/ FreezeInput(r)
             \/ ReadForConfirm(r) \/ ReadForVoid(r) \/ Reload(r)
             \/ ReadForReplay(r) \/ RecordAudit(r)
  <2>1. UNCHANGED rows
    BY <1>9 DEF Begin, BeginRun, BeginConfirm, BeginVoid, BeginReplay, BeginOn,
         Interrupt, FindExisting, FreezeInput, ReadForConfirm, ReadForVoid, Reload,
         ReadForReplay, RecordAudit
  <2>. QED BY <2>1, <1>1
<1>. QED BY <1>2, <1>3, <1>4, <1>5, <1>6, <1>7, <1>8, <1>9 DEF Step

\* The unique index: an inserted key is new, and no UPDATE writes the key.
LEMMA KeysStayUnique ==
  ASSUME Inv, NEW r \in Requests, RowStep(r)
  PROVE  OneRowPerKey'
<1>. rows \in [EvaluationIds -> Row \cup {Null}]
  BY DEF Inv, TypeInv, TypeOK
<1>1. CASE UNCHANGED rows
  BY <1>1 DEF Inv, OneRowPerKey
<1>2. ASSUME NEW e \in EvaluationIds, NEW k \in Keys, NEW s \in Snapshot,
             rows[e] = Null, ~KeyTaken(k),
             rows' = [rows EXCEPT ![e] = NewRow(k, s)]
      PROVE  OneRowPerKey'
  <2>1. \A f \in EvaluationIds : rows[f] # Null => rows[f].key # k
    BY <1>2 DEF KeyTaken
  <2>2. NewRow(k, s).key = k
    BY DEF NewRow
  <2>. QED BY <1>2, <2>1, <2>2 DEF Inv, OneRowPerKey
<1>3. ASSUME NEW e \in EvaluationIds, NEW w \in Row, rows[e] # Null,
             rows' = [rows EXCEPT ![e] = w], Kept(rows[e], w)
      PROVE  OneRowPerKey'
  BY <1>3 DEF Inv, OneRowPerKey, Kept
<1>. QED BY <1>1, <1>2, <1>3 DEF RowStep

\* A score is stored together with completion, by the owner.
LEMMA ResultStays ==
  ASSUME Inv, NEW r \in Requests, RowStep(r)
  PROVE  ResultOfSnapshot'
<1>. rows \in [EvaluationIds -> Row \cup {Null}]
  BY DEF Inv, TypeInv, TypeOK
<1>1. CASE UNCHANGED rows
  BY <1>1 DEF Inv, ResultOfSnapshot
<1>2. ASSUME NEW e \in EvaluationIds, NEW k \in Keys, NEW s \in Snapshot,
             rows' = [rows EXCEPT ![e] = NewRow(k, s)]
      PROVE  ResultOfSnapshot'
  BY <1>2 DEF Inv, ResultOfSnapshot, NewRow
<1>3. ASSUME NEW e \in EvaluationIds, NEW w \in Row, rows[e] # Null,
             rows' = [rows EXCEPT ![e] = w], Kept(rows[e], w),
             \/ Confirms(rows[e], w) \/ Voids(rows[e], w) \/ Marks(rows[e], w)
             \/ Starts(rows[e], w) \/ Completes(rows[e], w) \/ Fails(rows[e], w)
      PROVE  ResultOfSnapshot'
  <2>1. /\ w.hash = HashString(w.snapshot)
        /\ w.state \in {"completed", "confirmed"} => w.score = Outcome[w.snapshot]
        /\ w.state \in {"queued", "running", "failed"} => w.score = 0
    BY <1>3 DEF Inv, ResultOfSnapshot, Kept, Confirms, Voids, Marks, Starts,
         Completes, Fails
  <2>. QED BY <1>3, <2>1 DEF Inv, ResultOfSnapshot
<1>. QED BY <1>1, <1>2, <1>3 DEF RowStep

\* confirmed_by is written once, by someone else than the author.
LEMMA ConfirmerStays ==
  ASSUME Inv, NEW r \in Requests, RowStep(r)
  PROVE  ConfirmerSeparated'
<1>. rows \in [EvaluationIds -> Row \cup {Null}]
  BY DEF Inv, TypeInv, TypeOK
<1>1. CASE UNCHANGED rows
  BY <1>1 DEF Inv, ConfirmerSeparated
<1>2. ASSUME NEW e \in EvaluationIds, NEW k \in Keys, NEW s \in Snapshot,
             rows' = [rows EXCEPT ![e] = NewRow(k, s)]
      PROVE  ConfirmerSeparated'
  BY <1>2 DEF Inv, ConfirmerSeparated, NewRow
<1>3. ASSUME NEW e \in EvaluationIds, NEW w \in Row, rows[e] # Null,
             rows' = [rows EXCEPT ![e] = w], Kept(rows[e], w),
             \/ Confirms(rows[e], w) \/ Voids(rows[e], w) \/ Marks(rows[e], w)
             \/ Starts(rows[e], w) \/ Completes(rows[e], w) \/ Fails(rows[e], w)
      PROVE  ConfirmerSeparated'
  <2>1. /\ w.confirmedBy # Null =>
             /\ w.confirmedBy # Author[w.snapshot.scenario]
             /\ w.state \in {"confirmed", "voided"}
        /\ w.state = "confirmed" => w.confirmedBy # Null
    BY <1>3, NullAssumption DEF Inv, ConfirmerSeparated, Kept, Confirms, Voids,
         Marks, Starts, Completes, Fails
  <2>. QED BY <1>3, <2>1 DEF Inv, ConfirmerSeparated
<1>. QED BY <1>1, <1>2, <1>3 DEF RowStep

\* The other requests of a step.
LEMMA OthersUnchanged ==
  ASSUME TypeInv, NEW r \in Requests, Begin(r) \/ Step(r) \/ Interrupt(r),
         NEW p \in Requests, p # r
  PROVE  request'[p] = request[p]
BY DEF TypeInv, TypeOK, Begin, BeginRun, BeginConfirm, BeginVoid, BeginReplay,
  BeginOn, Step, Interrupt, Finish, FindExisting, FreezeInput, CreateRow,
  StartEvaluation, CompleteEvaluation, FailEvaluation, ReadForConfirm, Confirm,
  ReadForVoid, Void, Reload, ReadForReplay, SetReplayResult, RecordAudit

\* A request executes after a step only if the step is its INSERT or its
\* start, or it executed before.
LEMMA ExecutingNext ==
  ASSUME TypeInv, NEW r \in Requests, Begin(r) \/ Step(r) \/ Interrupt(r),
         Executing(r)'
  PROVE  CreateRow(r) \/ StartEvaluation(r)
<1>. request \in [Requests -> Request]
  BY DEF TypeInv, TypeOK
<1>1. CASE Begin(r) \/ Interrupt(r)
  <2>1. CASE BeginRun(r)
    <3>1. request'[r].pc = "find"
      BY <2>1 DEF BeginRun, Idle
    <3>. QED BY <3>1 DEF Executing
  <2>2. CASE BeginConfirm(r) \/ BeginVoid(r) \/ BeginReplay(r)
    <3>1. request'[r].pc = "read"
      BY <2>2 DEF BeginConfirm, BeginVoid, BeginReplay, BeginOn, Idle
    <3>. QED BY <3>1 DEF Executing
  <2>3. CASE Interrupt(r)
    <3>1. request'[r].pc = "idle"
      BY <2>3 DEF Interrupt, Finish, Idle
    <3>. QED BY <3>1 DEF Executing
  <2>. QED BY <1>1, <2>1, <2>2, <2>3 DEF Begin
<1>2. CASE FindExisting(r) \/ FreezeInput(r) \/ CompleteEvaluation(r) \/ FailEvaluation(r)
  BY <1>2 DEF FindExisting, FreezeInput, CompleteEvaluation, FailEvaluation,
    Finish, Idle, Executing, Request
<1>3. CASE ReadForConfirm(r) \/ Confirm(r) \/ ReadForVoid(r) \/ Void(r) \/ Reload(r)
             \/ ReadForReplay(r) \/ SetReplayResult(r) \/ RecordAudit(r)
  BY <1>3 DEF ReadForConfirm, Confirm, ReadForVoid, Void, Reload, ReadForReplay,
    SetReplayResult, RecordAudit, Finish, Idle, Executing, Request
<1>. QED BY <1>1, <1>2, <1>3 DEF Step

\* Nobody but its owner changes the state or the input of a pending row.
LEMMA PendingKept ==
  ASSUME Inv, NEW r \in Requests, RowStep(r), NEW e \in EvaluationIds,
         Matches(e, Pending), ~Owned(r, e)
  PROVE  /\ rows'[e] # Null /\ rows'[e].state = rows[e].state
         /\ rows'[e].snapshot = rows[e].snapshot
<1>. rows \in [EvaluationIds -> Row \cup {Null}]
  BY DEF Inv, TypeInv, TypeOK
<1>1. CASE UNCHANGED rows
  BY <1>1 DEF Matches
<1>2. ASSUME NEW f \in EvaluationIds, NEW k \in Keys, NEW s \in Snapshot,
             rows[f] = Null, rows' = [rows EXCEPT ![f] = NewRow(k, s)]
      PROVE  rows'[e] = rows[e]
  BY <1>2 DEF Matches
<1>3. ASSUME NEW f \in EvaluationIds, NEW w \in Row, rows[f] # Null,
             rows' = [rows EXCEPT ![f] = w], Kept(rows[f], w),
             \/ Confirms(rows[f], w) \/ Voids(rows[f], w) \/ Marks(rows[f], w)
             \/ Owned(r, f)
      PROVE  /\ rows'[e] # Null /\ rows'[e].state = rows[e].state
             /\ rows'[e].snapshot = rows[e].snapshot
  <2>1. CASE f # e
    BY <1>3, <2>1 DEF Matches
  <2>2. CASE f = e
    BY <1>3, <2>2, NullAssumption DEF Matches, Pending, Confirms, Voids, Marks, Kept
  <2>. QED BY <2>1, <2>2
<1>. QED BY <1>1, <1>2, <1>3 DEF RowStep, Matches

\* The owner's CAS finds what its own last statement left; nobody else can
\* get in between.
LEMMA OwnershipStays ==
  ASSUME Inv, NEW r \in Requests, Begin(r) \/ Step(r) \/ Interrupt(r)
  PROVE  RunOwnsItsRow'
<1>. TypeInv /\ RowStep(r)
  BY RowStepNext DEF Inv
<1>. USE TypeFacts
<1>. DEFINE Settled(q) ==
       /\ rows'[q.eval] # Null
       /\ rows'[q.eval].state = IF q.pc = "start" THEN "queued" ELSE "running"
       /\ rows'[q.eval].snapshot = q.snapshot
<1>1. ASSUME NEW p \in Requests \ {r}, Executing(p)'
      PROVE  /\ Executing(p) /\ request'[p] = request[p]
             /\ Settled(request[p])
  <2>1. request'[p] = request[p] /\ Executing(p)
    BY <1>1, OthersUnchanged DEF Executing
  <2>2. /\ request[p].eval \in EvaluationIds
        /\ Matches(request[p].eval,
                   {IF request[p].pc = "start" THEN "queued" ELSE "running"})
        /\ rows[request[p].eval].snapshot = request[p].snapshot
        /\ ~Owned(r, request[p].eval)
    BY <1>1, <2>1 DEF Inv, RunOwnsItsRow, Executing, Owned, TypeInv, RequestOK
  <2>3. Matches(request[p].eval, Pending)
    BY <2>2 DEF Matches, Pending
  <2>. QED BY <2>1, <2>2, <2>3, PendingKept DEF Matches
<1>2. ASSUME Executing(r)'
      PROVE  /\ Settled(request'[r])
             /\ \A p \in Requests \ {r} :
                  Executing(p) => request[p].eval # request'[r].eval
  <2>1. CASE CreateRow(r)
    <3>1. ~Finish(r)
      BY <1>2 DEF Finish, Idle, Executing
    <3>2. PICK e \in EvaluationIds :
            /\ rows[e] = Null
            /\ rows' = [rows EXCEPT ![e] = NewRow(request[r].key, request[r].snapshot)]
            /\ request' = [request EXCEPT ![r].pc = "start", ![r].eval = e]
      BY <2>1, <3>1 DEF CreateRow
    <3>3. /\ request'[r].eval = e /\ request'[r].pc = "start"
          /\ request'[r].snapshot = request[r].snapshot
      BY <3>2 DEF Request
    <3>4. request[r].key \in Keys /\ request[r].snapshot \in Snapshot
      BY <2>1 DEF CreateRow, RequestOK
    <3>5. rows'[e] = NewRow(request[r].key, request[r].snapshot) /\ rows'[e] # Null
      BY <3>2, <3>4, NewRowType
    <3>6. rows'[e].state = "queued" /\ rows'[e].snapshot = request[r].snapshot
      BY <3>5 DEF NewRow
    <3>7. \A p \in Requests \ {r} : Executing(p) => request[p].eval # e
      BY <3>2 DEF Executing, TypeInv, RequestOK
    <3>. QED BY <3>3, <3>5, <3>6, <3>7
  <2>2. CASE StartEvaluation(r)
    <3>. DEFINE e == request[r].eval
    <3>1. ~Finish(r)
      BY <1>2 DEF Finish, Idle, Executing
    <3>2. /\ Matches(e, Startable)
          /\ rows' = [rows EXCEPT ![e].state = "running"]
          /\ request' = [request EXCEPT ![r].pc = "evaluate"]
          /\ Executing(r) /\ e \in EvaluationIds
      BY <2>2, <3>1 DEF StartEvaluation, Executing, RequestOK
    <3>3. /\ request'[r].eval = e /\ request'[r].pc = "evaluate"
          /\ request'[r].snapshot = request[r].snapshot
      BY <3>2 DEF Request
    <3>4. /\ rows[e].snapshot = request[r].snapshot /\ rows[e] \in Row
          /\ \A p \in Requests \ {r} : Executing(p) => request[p].eval # e
      BY <3>2 DEF Inv, RunOwnsItsRow, Matches, Startable
    <3>5. /\ rows'[e].state = "running" /\ rows'[e].snapshot = request[r].snapshot
          /\ rows'[e] \in Row
      BY <3>2, <3>4 DEF Row, States
    <3>. QED BY <3>3, <3>4, <3>5, NullAssumption
  <2>. QED BY <1>2, <2>1, <2>2, ExecutingNext
<1>3. ASSUME NEW p \in Requests, Executing(p)'
      PROVE  /\ Settled(request'[p])
             /\ \A q \in Requests \ {p} :
                  Executing(q)' => request'[q].eval # request'[p].eval
  <2>1. CASE p = r
    BY <1>1, <1>2, <1>3, <2>1
  <2>2. CASE p # r
    <3>0. p \in Requests \ {r} /\ Executing(p) /\ request'[p] = request[p]
      BY <1>1, <1>3, <2>2
    <3>1. ASSUME NEW q \in Requests \ {p, r}, Executing(q)'
          PROVE  request'[q].eval # request'[p].eval
      <4>1. Executing(q) /\ request'[q] = request[q]
        BY <1>1, <3>1
      <4>. QED BY <3>0, <4>1 DEF Inv, RunOwnsItsRow
    <3>. QED BY <1>1, <1>2, <1>3, <2>2, <3>1
  <2>. QED BY <2>1, <2>2
<1>. QED BY <1>3 DEF RunOwnsItsRow, Matches

\* What a step keeps of every row there is, and of the whole table.
LEMMA FrozenStep ==
  ASSUME Inv, NEW r \in Requests, RowStep(r), NEW e \in EvaluationIds
  PROVE  /\ Frozen(rows[e], rows'[e])
         /\ LegalTransition(rows[e], rows'[e])
         /\ rows[e] # Null => rows'[e] # Null
<1>. rows \in [EvaluationIds -> Row \cup {Null}]
  BY DEF Inv, TypeInv, TypeOK
<1>1. CASE rows'[e] = rows[e]
  BY <1>1 DEF Frozen, LegalTransition
<1>2. ASSUME NEW k \in Keys, NEW s \in Snapshot, rows[e] = Null,
             rows'[e] = NewRow(k, s)
      PROVE  Frozen(rows[e], rows'[e]) /\ LegalTransition(rows[e], rows'[e])
  BY <1>2, NewRowType DEF Frozen, LegalTransition, NewRow
<1>3. ASSUME NEW w \in Row, rows[e] # Null, rows'[e] = w, Kept(rows[e], w),
             \/ Confirms(rows[e], w) \/ Voids(rows[e], w) \/ Marks(rows[e], w)
             \/ Starts(rows[e], w) \/ Completes(rows[e], w) \/ Fails(rows[e], w)
      PROVE  /\ Frozen(rows[e], rows'[e])
             /\ LegalTransition(rows[e], rows'[e])
             /\ rows'[e] # Null
  <2>1. rows'[e] # Null
    BY <1>3, NullAssumption
  <2>2. Frozen(rows[e], w)
    BY <1>3 DEF Frozen, Pending, Kept, Confirms, Voids, Marks, Starts, Completes,
      Fails, Inv, ConfirmerSeparated
  <2>3. w.state = rows[e].state \/ <<rows[e].state, w.state>> \in CanTransition
    BY <1>3 DEF CanTransition, Confirms, Voids, Marks, Starts, Completes, Fails
  <2>. QED BY <1>3, <2>1, <2>2, <2>3 DEF LegalTransition
<1>. QED BY <1>1, <1>2, <1>3 DEF RowStep

\* The author check of a confirmation, made on the row it read, still holds
\* when the update comes: no statement changes which scenario a row is of.
LEMMA ConfirmCheckStays ==
  ASSUME Inv, NEW r \in Requests, Begin(r) \/ Step(r) \/ Interrupt(r)
  PROVE  ConfirmChecked'
<1>. TypeInv /\ RowStep(r)
  BY RowStepNext DEF Inv
<1>. USE TypeFacts
<1>1. ASSUME NEW p \in Requests \ {r},
             request'[p].pc = "change", request'[p].op = "confirm"
      PROVE  Author[rows'[request'[p].eval].snapshot.scenario] # request'[p].actor
  <2>1. request'[p] = request[p]
    BY <1>1, OthersUnchanged
  <2>2. /\ request[p].eval \in EvaluationIds /\ rows[request[p].eval] # Null
        /\ Author[rows[request[p].eval].snapshot.scenario] # request[p].actor
    BY <1>1, <2>1 DEF Inv, ConfirmChecked, TypeInv, RequestOK
  <2>3. rows'[request[p].eval].snapshot = rows[request[p].eval].snapshot
    BY <2>2, FrozenStep DEF Frozen
  <2>. QED BY <2>1, <2>2, <2>3
<1>2. ASSUME request'[r].pc = "change", request'[r].op = "confirm"
      PROVE  Author[rows'[request'[r].eval].snapshot.scenario] # request'[r].actor
  <2>1. CASE Begin(r)
    <3>1. request'[r].pc \in {"find", "read"}
      BY <2>1 DEF Begin, BeginRun, BeginConfirm, BeginVoid, BeginReplay, BeginOn, Idle
    <3>. QED BY <3>1, <1>2
  <2>2. CASE Finish(r)
    BY <1>2, <2>2 DEF Finish, Idle
  <2>3. CASE ReadForConfirm(r) /\ ~Finish(r)
    BY <2>3 DEF ReadForConfirm, MayConfirm, Request
  <2>4. CASE ReadForVoid(r) /\ ~Finish(r)
    <3>1. request'[r].op = "void"
      BY <2>4 DEF ReadForVoid, Request
    <3>. QED BY <3>1, <1>2
  <2>5. CASE /\ ~Finish(r)
             /\ \/ FindExisting(r) \/ FreezeInput(r) \/ CreateRow(r)
                \/ StartEvaluation(r) \/ CompleteEvaluation(r) \/ FailEvaluation(r)
    <3>1. request'[r].pc \in {"freeze", "create", "start", "evaluate", "reload"}
      BY <2>5 DEF FindExisting, FreezeInput, CreateRow, StartEvaluation,
        CompleteEvaluation, FailEvaluation, Request
    <3>. QED BY <3>1, <1>2
  <2>6. CASE /\ ~Finish(r)
             /\ \/ Confirm(r) \/ Void(r) \/ Reload(r) \/ ReadForReplay(r)
                \/ SetReplayResult(r) \/ RecordAudit(r) \/ Interrupt(r)
    <3>1. request'[r].pc \in {"reload", "audit", "store"}
      BY <2>6 DEF Confirm, Void, Reload, ReadForReplay, SetReplayResult,
        RecordAudit, Interrupt, Request
    <3>. QED BY <3>1, <1>2
  <2>. QED BY <2>1, <2>2, <2>3, <2>4, <2>5, <2>6 DEF Step
<1>. QED BY <1>1, <1>2 DEF ConfirmChecked

\* An empty table satisfies the invariant.
LEMMA InvInit == Init => Inv
<1>. SUFFICES ASSUME Init PROVE Inv
  OBVIOUS
<1>1. /\ \A e \in EvaluationIds : rows[e] = Null
      /\ \A r \in Requests : request[r].pc = "idle"
  BY DEF Init, Idle
<1>. QED BY <1>1, TypeInvInit DEF Inv, OneRowPerKey, RunOwnsItsRow, Executing,
       ResultOfSnapshot, ConfirmerSeparated, ConfirmChecked

\* The invariant is inductive.
LEMMA InvNext == Inv /\ [Next]_vars => Inv'
<1>. SUFFICES ASSUME Inv, [Next]_vars PROVE Inv'
  OBVIOUS
<1>0. TypeInv'
  BY TypeInvNext DEF Inv
<1>1. ASSUME NEW r \in Requests, Begin(r) \/ Step(r) \/ Interrupt(r)
      PROVE  Inv'
  <2>1. RowStep(r)
    BY <1>1, RowStepNext
  <2>. QED BY <1>0, <1>1, <2>1, KeysStayUnique, OwnershipStays, ResultStays,
         ConfirmerStays, ConfirmCheckStays DEF Inv
<1>2. CASE UNCHANGED vars
  BY <1>0, <1>2 DEF vars, Inv, OneRowPerKey, RunOwnsItsRow, Executing, Matches,
    ResultOfSnapshot, ConfirmerSeparated, ConfirmChecked
<1>. QED BY <1>1, <1>2 DEF Next

\* A run is alone on its row until it has stored its result, so its two
\* conditional updates never miss.
THEOREM RunsAlone == Spec => []RunOwnsItsRow
<1>1. Inv => RunOwnsItsRow
  BY DEF Inv
<1>. QED BY <1>1, InvInit, InvNext, PTL DEF Spec

\* Every stored result belongs to the snapshot stored beside it.
THEOREM ResultsBelong == Spec => []ResultOfSnapshot
<1>1. Inv => ResultOfSnapshot
  BY DEF Inv
<1>. QED BY <1>1, InvInit, InvNext, PTL DEF Spec

\* No evaluation is ever confirmed by the author of its scenario.
THEOREM ConfirmersSeparated == Spec => []ConfirmerSeparated
<1>1. Inv => ConfirmerSeparated
  BY DEF Inv
<1>. QED BY <1>1, InvInit, InvNext, PTL DEF Spec

\* No step overwrites history.
THEOREM HistoryFrozen == Spec => EvidenceFrozen
<1>1. Inv /\ [Next]_vars => [\A e \in EvaluationIds : Frozen(rows[e], rows'[e])]_vars
  <2>. SUFFICES ASSUME Inv, Next, NEW e \in EvaluationIds
                PROVE  Frozen(rows[e], rows'[e])
    BY DEF vars, Frozen
  <2>. QED BY RowStepNext, FrozenStep DEF Next
<1>. QED BY <1>1, InvInit, InvNext, PTL DEF Spec, EvidenceFrozen

\* Every state change is one the transition table of coverage_state.go allows.
THEOREM TransitionsLegal == Spec => LegalTransitions
<1>1. Inv /\ [Next]_vars =>
        [\A e \in EvaluationIds : LegalTransition(rows[e], rows'[e])]_vars
  <2>. SUFFICES ASSUME Inv, Next, NEW e \in EvaluationIds
                PROVE  LegalTransition(rows[e], rows'[e])
    OBVIOUS
  <2>. QED BY RowStepNext, FrozenStep DEF Next
<1>. QED BY <1>1, InvInit, InvNext, PTL DEF Spec, LegalTransitions

\* Nothing the service offers gets an abandoned evaluation out of its state.
THEOREM AbandonedStays == Spec => AbandonedForGood
<1>1. Inv /\ [Next]_vars =>
        [\A e \in EvaluationIds : Abandoned(e) => rows'[e].state = rows[e].state]_vars
  <2>. SUFFICES ASSUME Inv, Next, NEW e \in EvaluationIds, Abandoned(e)
                PROVE  rows'[e].state = rows[e].state
    OBVIOUS
  <2>1. PICK r \in Requests : Begin(r) \/ Step(r) \/ Interrupt(r)
    BY DEF Next
  <2>2. Matches(e, Pending) /\ ~Owned(r, e)
    BY DEF Abandoned, Owned
  <2>. QED BY <2>1, <2>2, RowStepNext, PendingKept
<1>. QED BY <1>1, InvInit, InvNext, PTL DEF Spec, AbandonedForGood

\* The result of a row is the one its snapshot gives.
Reproducible(row) ==
  /\ row.hash = HashString(row.snapshot)
  /\ row.score = Outcome[row.snapshot]

\* A row marked as passed is reproducible, and so is one that a replay on its
\* way to its statement found to pass.
Passed ==
  /\ PassedReplaysHold
  /\ \A r \in Requests :
       request[r].pc = "store" /\ request[r].passed =>
         Reproducible(rows[request[r].eval])

\* What a replay found to pass stays so: a row gets its result once, and only
\* the one its snapshot gives.
LEMMA ReproducibleStays ==
  ASSUME Inv, NEW r \in Requests, RowStep(r), NEW e \in EvaluationIds,
         rows[e] # Null, Reproducible(rows[e])
  PROVE  rows'[e] # Null /\ Reproducible(rows'[e])
<1>. rows \in [EvaluationIds -> Row \cup {Null}]
  BY DEF Inv, TypeInv, TypeOK
<1>1. CASE UNCHANGED rows
  BY <1>1
<1>2. ASSUME NEW f \in EvaluationIds, NEW w, rows[f] = Null,
             rows' = [rows EXCEPT ![f] = w]
      PROVE  rows'[e] # Null /\ Reproducible(rows'[e])
  <2>1. rows'[e] = rows[e]
    BY <1>2
  <2>. QED BY <2>1
<1>3. ASSUME NEW f \in EvaluationIds, NEW w \in Row,
             rows' = [rows EXCEPT ![f] = w], Kept(rows[f], w),
             \/ Confirms(rows[f], w) \/ Voids(rows[f], w) \/ Marks(rows[f], w)
             \/ Starts(rows[f], w) \/ Completes(rows[f], w) \/ Fails(rows[f], w)
      PROVE  rows'[e] # Null /\ Reproducible(rows'[e])
  <2>1. CASE e # f
    <3>1. rows'[e] = rows[e]
      BY <1>3, <2>1
    <3>. QED BY <3>1
  <2>2. CASE e = f
    <3>1. rows'[e] = w
      BY <1>3, <2>2
    <3>2. w # Null
      BY NullAssumption
    <3>3. w.snapshot = rows[e].snapshot /\ w.hash = rows[e].hash
      BY <1>3, <2>2 DEF Kept
    <3>4. w.score = rows[e].score \/ w.score = Outcome[rows[e].snapshot]
      BY <1>3, <2>2 DEF Confirms, Voids, Marks, Starts, Completes, Fails
    <3>. QED BY <3>1, <3>2, <3>3, <3>4 DEF Reproducible
  <2>. QED BY <2>1, <2>2
<1>. QED BY <1>1, <1>2, <1>3 DEF RowStep

\* Only a replay's own statement marks a row.
LEMMA MarkWritten ==
  ASSUME Inv, NEW r \in Requests, Begin(r) \/ Step(r) \/ Interrupt(r),
         NEW e \in EvaluationIds, rows'[e] # Null, rows'[e].replayPassed = TRUE
  PROVE  \/ rows[e] # Null /\ rows[e].replayPassed = TRUE
         \/ request[r].pc = "store" /\ request[r].eval = e /\ request[r].passed
<1>. TypeInv /\ rows \in [EvaluationIds -> Row \cup {Null}]
  BY DEF Inv, TypeInv, TypeOK
<1>. USE TypeFacts, NullAssumption
<1>. DEFINE i == request[r].eval
<1>1. CASE rows'[e] = rows[e]
  BY <1>1
<1>2. CASE CreateRow(r)
  <2>1. PICK f \in EvaluationIds :
          rows' = rows \/ rows' = [rows EXCEPT ![f] =
                                     NewRow(request[r].key, request[r].snapshot)]
    BY <1>2 DEF CreateRow
  <2>2. NewRow(request[r].key, request[r].snapshot).replayPassed = Null
    BY DEF NewRow
  <2>3. rows'[e] = rows[e] \/ rows'[e] = NewRow(request[r].key, request[r].snapshot)
    BY <2>1
  <2>. QED BY <1>1, <2>2, <2>3
<1>3. CASE \/ StartEvaluation(r) \/ CompleteEvaluation(r) \/ FailEvaluation(r)
           \/ Confirm(r) \/ Void(r)
  <2>1. CASE i \in EvaluationIds /\ rows[i] # Null
    <3>1. rows[i] \in Row
      BY <2>1
    <3>2. PICK w :
             \/ rows' = rows
             \/ /\ rows' = [rows EXCEPT ![i] = w]
                /\ w.replayPassed = rows[i].replayPassed
      <4>1. CASE StartEvaluation(r)
        <5>. DEFINE w == [rows[i] EXCEPT !.state = "running"]
        <5>1. w.replayPassed = rows[i].replayPassed
          BY <3>1 DEF Row
        <5>2. rows' = rows \/ rows' = [rows EXCEPT ![i] = w]
          BY <4>1 DEF StartEvaluation
        <5>. QED BY <5>1, <5>2
      <4>2. CASE CompleteEvaluation(r)
        <5>. DEFINE w == Completed(rows[i], request[r].snapshot)
        <5>1. w.replayPassed = rows[i].replayPassed
          BY <3>1 DEF Row, Completed
        <5>2. rows' = rows \/ rows' = [rows EXCEPT ![i] = w]
          BY <4>2 DEF CompleteEvaluation
        <5>. QED BY <5>1, <5>2
      <4>3. CASE FailEvaluation(r)
        <5>. DEFINE w == [rows[i] EXCEPT !.state = "failed"]
        <5>1. w.replayPassed = rows[i].replayPassed
          BY <3>1 DEF Row
        <5>2. rows' = rows \/ rows' = [rows EXCEPT ![i] = w]
          BY <4>3 DEF FailEvaluation
        <5>. QED BY <5>1, <5>2
      <4>4. CASE Confirm(r)
        <5>. DEFINE w == [rows[i] EXCEPT !.state = "confirmed",
                                         !.confirmedBy = request[r].actor]
        <5>1. w.replayPassed = rows[i].replayPassed
          BY <3>1 DEF Row
        <5>2. rows' = rows \/ rows' = [rows EXCEPT ![i] = w]
          BY <4>4, <2>1 DEF Confirm
        <5>. QED BY <5>1, <5>2
      <4>5. CASE Void(r)
        <5>. DEFINE w == Voided(rows[i])
        <5>1. w.replayPassed = rows[i].replayPassed
          BY <3>1 DEF Row, Voided
        <5>2. rows' = rows \/ rows' = [rows EXCEPT ![i] = w]
          BY <4>5 DEF Void
        <5>. QED BY <5>1, <5>2
      <4>. QED BY <1>3, <4>1, <4>2, <4>3, <4>4, <4>5
    <3>. QED BY <1>1, <2>1, <3>2
  <2>2. CASE ~(i \in EvaluationIds /\ rows[i] # Null)
    <3>1. rows' = rows
      BY <1>3, <2>2 DEF StartEvaluation, CompleteEvaluation, FailEvaluation,
        Confirm, Void, RequestOK, Matches
    <3>. QED BY <1>1, <3>1
  <2>. QED BY <2>1, <2>2
<1>4. CASE SetReplayResult(r)
  <2>1. /\ i \in EvaluationIds /\ rows[i] # Null /\ rows[i] \in Row
        /\ request[r].passed \in BOOLEAN /\ request[r].pc = "store"
    BY <1>4 DEF SetReplayResult, RequestOK
  <2>2. CASE e # i
    BY <1>1, <1>4, <2>2 DEF SetReplayResult
  <2>3. CASE e = i
    <3>1. rows'[e] = [rows[e] EXCEPT !.replayPassed = request[r].passed]
      BY <1>4, <2>1, <2>3 DEF SetReplayResult
    <3>2. rows'[e].replayPassed = request[r].passed
      BY <2>1, <2>3, <3>1 DEF Row
    <3>. QED BY <2>1, <2>3, <3>2
  <2>. QED BY <2>2, <2>3
<1>5. CASE Begin(r) \/ Interrupt(r) \/ FindExisting(r) \/ FreezeInput(r)
             \/ ReadForConfirm(r) \/ ReadForVoid(r) \/ Reload(r)
             \/ ReadForReplay(r) \/ RecordAudit(r)
  <2>1. UNCHANGED rows
    BY <1>5 DEF Begin, BeginRun, BeginConfirm, BeginVoid, BeginReplay, BeginOn,
         Interrupt, FindExisting, FreezeInput, ReadForConfirm, ReadForVoid, Reload,
         ReadForReplay, RecordAudit
  <2>. QED BY <2>1, <1>1
<1>. QED BY <1>2, <1>3, <1>4, <1>5 DEF Step

\* Only a replay's read brings a request to its statement.
LEMMA PassedStays ==
  ASSUME Inv, Passed, NEW r \in Requests, Begin(r) \/ Step(r) \/ Interrupt(r)
  PROVE  Passed'
<1>0. TypeInv /\ RowStep(r)
  BY RowStepNext DEF Inv
<1>. USE TypeFacts
<1>1. PassedReplaysHold'
  <2>. SUFFICES ASSUME NEW e \in EvaluationIds, rows'[e] # Null,
                       rows'[e].replayPassed = TRUE
                PROVE  Reproducible(rows'[e])
    BY DEF PassedReplaysHold, Reproducible
  <2>1. CASE rows[e] # Null /\ rows[e].replayPassed = TRUE
    <3>1. Reproducible(rows[e])
      BY <2>1 DEF Passed, PassedReplaysHold, Reproducible
    <3>. QED BY <1>0, <2>1, <3>1, ReproducibleStays
  <2>2. CASE request[r].pc = "store" /\ request[r].eval = e /\ request[r].passed
    <3>1. Reproducible(rows[e]) /\ rows[e] # Null
      BY <1>0, <2>2 DEF Passed, RequestOK
    <3>. QED BY <1>0, <3>1, ReproducibleStays
  <2>. QED BY <2>1, <2>2, MarkWritten
<1>2. ASSUME NEW p \in Requests, request'[p].pc = "store", request'[p].passed
      PROVE  Reproducible(rows'[request'[p].eval])
  <2>1. CASE request'[p] = request[p]
    <3>1. /\ Reproducible(rows[request[p].eval])
          /\ request[p].eval \in EvaluationIds /\ rows[request[p].eval] # Null
      BY <1>0, <1>2, <2>1 DEF Passed, RequestOK
    <3>. QED BY <1>0, <2>1, <3>1, ReproducibleStays
  <2>2. CASE p = r /\ ReadForReplay(r)
    <3>1. /\ request'[r].eval = request[r].eval /\ UNCHANGED rows
          /\ request'[r].passed = Verdict(rows[request[r].eval])
      <4>1. request[r] \in Request /\ request \in [Requests -> Request]
        BY <1>0
      <4>2. request'[r] # Idle
        BY <1>2, <2>2 DEF Idle
      <4>. QED BY <2>2, <4>1, <4>2 DEF ReadForReplay, Finish, Request
    <3>. QED BY <1>2, <2>2, <3>1 DEF Verdict, Reproducible
  <2>3. CASE p = r /\ ~ReadForReplay(r)
    <3>1. request'[r].pc # "store"
      <4>1. request[r] \in Request /\ request \in [Requests -> Request]
        BY <1>0
      <4>2. CASE request'[r] = Idle
        BY <4>2 DEF Idle
      <4>3. CASE Begin(r)
        BY <4>1, <4>3 DEF Begin, BeginRun, BeginConfirm, BeginVoid, BeginReplay,
          BeginOn, Idle
      <4>4. CASE ~Finish(r) /\ (\/ FindExisting(r) \/ FreezeInput(r) \/ CreateRow(r)
                                \/ StartEvaluation(r) \/ CompleteEvaluation(r))
        BY <4>1, <4>4 DEF FindExisting, FreezeInput, CreateRow, StartEvaluation,
          CompleteEvaluation, Request
      <4>5. CASE ~Finish(r) /\ (\/ ReadForConfirm(r) \/ ReadForVoid(r) \/ Confirm(r)
                                \/ Void(r) \/ Reload(r) \/ SetReplayResult(r))
        BY <4>1, <4>5 DEF ReadForConfirm, ReadForVoid, Confirm, Void, Reload,
          SetReplayResult, Request
      <4>6. CASE Finish(r)
        BY <4>1, <4>2, <4>6 DEF Finish
      <4>7. CASE FailEvaluation(r) \/ RecordAudit(r) \/ Interrupt(r)
        BY <4>6, <4>7 DEF FailEvaluation, RecordAudit, Interrupt
      <4>. QED BY <2>3, <4>3, <4>4, <4>5, <4>6, <4>7 DEF Step
    <3>. QED BY <1>2, <2>3, <3>1
  <2>4. CASE p # r
    BY <1>0, <2>1, <2>4, OthersUnchanged
  <2>. QED BY <2>2, <2>3, <2>4
<1>. QED BY <1>1, <1>2 DEF Passed

\* A row marked as passing its replay has the result its snapshot gives, though
\* the verdict is stored on whatever the row has become since it was read.
THEOREM PassedReplaysSound == Spec => []PassedReplaysHold
<1>1. Init => Passed
  BY DEF Init, Idle, Passed, PassedReplaysHold
<1>2. Inv /\ Passed /\ [Next]_vars => Passed'
  <2>1. UNCHANGED vars /\ Passed => Passed'
    BY DEF vars, Passed, PassedReplaysHold, Reproducible
  <2>. QED BY <2>1, PassedStays DEF Next
<1>3. Passed => PassedReplaysHold
  BY DEF Passed
<1>. QED BY <1>1, <1>2, <1>3, InvInit, InvNext, PTL DEF Spec
----------------------------------------------------------------------------
(* The audit trail.                                                         *)

\* What a request will write in its audit entry is still true of the row.
Traced ==
  \A r \in Requests :
    LET q == request[r] IN
    /\ q.pc \in {"change", "reload", "store", "audit"} => q.hash = rows[q.eval].hash
    /\ q.pc \in {"reload", "audit"} /\ q.op = "confirm" =>
         q.actor = rows[q.eval].confirmedBy

AuditInv == Inv /\ Traced /\ AuditNamesConfirmer

\* What is still to be written in the trail stays true until it is written.
LEMMA TracedStays ==
  ASSUME AuditInv, NEW r \in Requests, Begin(r) \/ Step(r) \/ Interrupt(r)
  PROVE  Traced'
<1>. Inv /\ TypeInv /\ RowStep(r)
  BY RowStepNext DEF Inv, AuditInv
<1>. USE TypeFacts
<1>. DEFINE e == request[r].eval
            Tells(q) ==
              /\ q.pc \in {"change", "reload", "store", "audit"} =>
                   q.hash = rows'[q.eval].hash
              /\ q.pc \in {"reload", "audit"} /\ q.op = "confirm" =>
                   q.actor = rows'[q.eval].confirmedBy
\* A request whose record the step leaves alone, or only moves on.
<1>0. ASSUME NEW p \in Requests,
             request[p].pc \in {"change", "reload", "store", "audit"}
      PROVE  /\ request[p].hash = rows'[request[p].eval].hash
             /\ request[p].pc \in {"reload", "audit"} /\ request[p].op = "confirm" =>
                  request[p].actor = rows'[request[p].eval].confirmedBy
  <2>1. /\ request[p].eval \in EvaluationIds /\ rows[request[p].eval] # Null
        /\ request[p].actor \in Users
        /\ request[p].hash = rows[request[p].eval].hash
        /\ request[p].pc \in {"reload", "audit"} /\ request[p].op = "confirm" =>
             request[p].actor = rows[request[p].eval].confirmedBy
    BY <1>0 DEF AuditInv, Traced, TypeInv, RequestOK
  <2>. QED BY <2>1, FrozenStep, NullAssumption DEF Frozen
<1>1. ASSUME NEW p \in Requests \ {r} PROVE Tells(request'[p])
  <2>1. request'[p] = request[p]
    BY OthersUnchanged
  <2>. QED BY <2>1, <1>0
<1>2. Tells(request'[r])
  <2>1. CASE Begin(r)
    <3>1. request'[r].pc \in {"find", "read"}
      BY <2>1 DEF Begin, BeginRun, BeginConfirm, BeginVoid, BeginReplay, BeginOn, Idle
    <3>. QED BY <3>1
  <2>2. CASE Finish(r)
    BY <2>2 DEF Finish, Idle
  <2>3. CASE ~Finish(r) /\ (FindExisting(r) \/ FreezeInput(r) \/ CreateRow(r)
                              \/ StartEvaluation(r) \/ FailEvaluation(r))
    <3>1. request'[r].pc \in {"freeze", "create", "start", "evaluate"}
      BY <2>3 DEF FindExisting, FreezeInput, CreateRow, StartEvaluation,
        FailEvaluation, Request
    <3>. QED BY <3>1
  <2>4. CASE ~Finish(r) /\ CompleteEvaluation(r)
    <3>. DEFINE s == request[r].snapshot
    <3>1. /\ rows' = [rows EXCEPT ![e] = Completed(rows[e], s)]
          /\ request' = [request EXCEPT ![r].pc = "reload", ![r].hash = HashString(s)]
          /\ e \in EvaluationIds /\ rows[e] \in Row
      BY <2>4 DEF CompleteEvaluation, RequestOK
    <3>2. rows'[e].hash = HashString(s) /\ request'[r].hash = HashString(s)
          /\ request'[r].eval = e
      BY <3>1 DEF Row, Request, Completed
    <3>3. request'[r].op = "run"
      BY <2>4, <3>1 DEF CompleteEvaluation, Request, RequestOK
    <3>. QED BY <3>2, <3>3
  <2>5. CASE ~Finish(r) /\ (ReadForConfirm(r) \/ ReadForVoid(r) \/ ReadForReplay(r))
    <3>1. UNCHANGED rows /\ request'[r].pc \in {"change", "store"}
          /\ request'[r].hash = rows[e].hash /\ request'[r].eval = e
      BY <2>5 DEF ReadForConfirm, ReadForVoid, ReadForReplay, Request
    <3>. QED BY <3>1
  <2>6. CASE ~Finish(r) /\ Confirm(r)
    <3>1. /\ rows' = [rows EXCEPT ![e].state = "confirmed",
                        ![e].confirmedBy = request[r].actor]
          /\ request' = [request EXCEPT ![r].pc = "reload"]
          /\ e \in EvaluationIds /\ rows[e] \in Row /\ request[r].pc = "change"
      BY <2>6 DEF Confirm, RequestOK
    <3>2. /\ request'[r].hash = request[r].hash /\ request'[r].eval = e
          /\ request'[r].actor = request[r].actor
          /\ rows'[e].confirmedBy = request[r].actor
      BY <3>1 DEF Row, Request
    <3>. QED BY <3>1, <3>2, <1>0
  <2>7. CASE ~Finish(r) /\ (Void(r) \/ SetReplayResult(r) \/ Reload(r))
    <3>1. /\ request[r].pc \in {"change", "store", "reload"}
          /\ request[r].pc = "change" => request[r].op = "void"
          /\ request'[r].hash = request[r].hash /\ request'[r].eval = e
          /\ request'[r].actor = request[r].actor /\ request'[r].op = request[r].op
      BY <2>7 DEF Void, SetReplayResult, Reload, Request
    <3>2. request[r].pc = "store" => request[r].op = "replay"
      BY DEF RequestOK
    <3>. QED BY <3>1, <3>2, <1>0
  <2>8. CASE ~Finish(r) /\ (RecordAudit(r) \/ Interrupt(r))
    BY <2>8 DEF RecordAudit, Interrupt
  <2>. QED BY <2>1, <2>2, <2>3, <2>4, <2>5, <2>6, <2>7, <2>8 DEF Step
<1>. QED BY <1>1, <1>2 DEF Traced

\* An empty trail is true.
LEMMA AuditInvInit == Init => AuditInv
BY InvInit DEF Init, Idle, AuditInv, Traced, AuditNamesConfirmer

\* The invariant of the trail is inductive.
LEMMA AuditInvNext == AuditInv /\ [Next]_vars => AuditInv'
<1>. SUFFICES ASSUME AuditInv, [Next]_vars PROVE AuditInv'
  OBVIOUS
<1>0. Inv'
  BY InvNext DEF AuditInv
<1>1. ASSUME NEW r \in Requests, Begin(r) \/ Step(r) \/ Interrupt(r)
      PROVE  AuditNamesConfirmer'
  <2>. TypeInv /\ RowStep(r)
    BY <1>1, RowStepNext DEF Inv, AuditInv
  <2>1. ASSUME NEW a \in audits
        PROVE  /\ rows'[a.eval] # Null /\ a.hash = rows'[a.eval].hash
               /\ a.action = "confirm" => a.actor = rows'[a.eval].confirmedBy
    <3>1. a.eval \in EvaluationIds /\ a.actor \in Users
      BY <2>1 DEF TypeInv, TypeOK, Audit
    <3>2. /\ rows[a.eval] # Null /\ a.hash = rows[a.eval].hash
          /\ a.action = "confirm" => a.actor = rows[a.eval].confirmedBy
      BY <2>1 DEF AuditInv, AuditNamesConfirmer
    <3>. QED BY <3>1, <3>2, FrozenStep, NullAssumption DEF Frozen, AuditInv
  <2>2. CASE RecordAudit(r)
    <3>. DEFINE a == AuditOf(request[r])
    <3>1. /\ audits' = audits \cup {a} /\ UNCHANGED rows
          /\ a.eval = request[r].eval /\ a.actor = request[r].actor
          /\ a.hash = request[r].hash /\ a.action = request[r].op
      BY <2>2 DEF RecordAudit, AuditOf
    <3>2. /\ rows[request[r].eval] # Null /\ request[r].hash = rows[request[r].eval].hash
          /\ request[r].op = "confirm" =>
               request[r].actor = rows[request[r].eval].confirmedBy
      BY <2>2, TypeFacts DEF RecordAudit, RequestOK, AuditInv, Traced
    <3>. QED BY <2>1, <3>1, <3>2 DEF AuditNamesConfirmer
  <2>3. CASE ~RecordAudit(r)
    <3>1. UNCHANGED audits
      BY <1>1, <2>3 DEF Begin, BeginRun, BeginConfirm, BeginVoid, BeginReplay, BeginOn,
        Step, Interrupt, FindExisting, FreezeInput, CreateRow, StartEvaluation,
        CompleteEvaluation, FailEvaluation, ReadForConfirm, Confirm, ReadForVoid,
        Void, Reload, ReadForReplay, SetReplayResult
    <3>. QED BY <2>1, <3>1 DEF AuditNamesConfirmer
  <2>. QED BY <2>2, <2>3
<1>2. ASSUME NEW r \in Requests, Begin(r) \/ Step(r) \/ Interrupt(r)
      PROVE  AuditInv'
  BY <1>0, <1>1, <1>2, TracedStays DEF AuditInv
<1>3. CASE UNCHANGED vars
  BY <1>0, <1>3 DEF vars, AuditInv, Traced, AuditNamesConfirmer
<1>. QED BY <1>2, <1>3 DEF Next

\* Every audit entry names an existing evaluation by the hash it still has,
\* and a confirmation entry names the user the row was confirmed by.
THEOREM AuditsTruthful == Spec => []AuditNamesConfirmer
<1>1. AuditInv => AuditNamesConfirmer
  BY DEF AuditInv
<1>. QED BY <1>1, AuditInvInit, AuditInvNext, PTL DEF Spec

\* An entry that is written, or whose request has come to writing it, stays
\* so unless the request is cut short.
LEMMA AuditedStays ==
  ASSUME Inv, NEW r \in Requests, Begin(r) \/ Step(r),
         NEW e \in EvaluationIds, NEW op, Audited(e, op)
  PROVE  Audited(e, op)'
<1>. TypeInv
  BY DEF Inv
<1>. USE TypeFacts
<1>1. CASE \E a \in audits : a.eval = e /\ a.action = op
  <2>1. audits \subseteq audits'
    BY DEF Begin, BeginRun, BeginConfirm, BeginVoid, BeginReplay, BeginOn,
      Step, FindExisting, FreezeInput, CreateRow, StartEvaluation,
      CompleteEvaluation, FailEvaluation, ReadForConfirm, Confirm, ReadForVoid,
      Void, Reload, ReadForReplay, SetReplayResult, RecordAudit
  <2>. QED BY <1>1, <2>1 DEF Audited
<1>2. ASSUME NEW p \in Requests, request[p].eval = e, request[p].op = op,
             request[p].pc \in {"reload", "audit"}
      PROVE  Audited(e, op)'
  <2>1. CASE p # r
    <3>1. request'[p] = request[p]
      BY <2>1, OthersUnchanged
    <3>. QED BY <1>2, <3>1 DEF Audited
  <2>2. CASE p = r /\ Reload(r)
    <3>1. /\ request'[p].eval = e /\ request'[p].op = op
          /\ request'[p].pc = "audit"
      BY <1>2, <2>2 DEF Reload, Request
    <3>. QED BY <3>1 DEF Audited
  <2>3. CASE p = r /\ RecordAudit(r)
    <3>1. /\ AuditOf(request[p]) \in audits'
          /\ AuditOf(request[p]).eval = e /\ AuditOf(request[p]).action = op
      BY <1>2, <2>3 DEF RecordAudit, AuditOf
    <3>. QED BY <3>1 DEF Audited
  <2>4. p = r => Reload(r) \/ RecordAudit(r)
    BY <1>2 DEF Begin, BeginRun, BeginConfirm, BeginVoid, BeginReplay, BeginOn,
      Step, FindExisting, FreezeInput, CreateRow, StartEvaluation,
      CompleteEvaluation, FailEvaluation, ReadForConfirm, Confirm, ReadForVoid,
      Void, ReadForReplay, SetReplayResult
  <2>. QED BY <2>1, <2>2, <2>3, <2>4
<1>. QED BY <1>1, <1>2 DEF Audited

\* The row calls for no audit entry that it did not call for before.
NoNews(old, new) ==
  /\ new.state \in {"completed", "confirmed"} =>
       old # Null /\ old.state \in {"completed", "confirmed"}
  /\ new.confirmedBy # Null => old # Null /\ old.confirmedBy # Null
  /\ new.state = "voided" => old # Null /\ old.state = "voided"

\* A result, confirmation or voiding that is new in a row is one its request
\* is about to audit.
LEMMA NewsAudited ==
  ASSUME Inv, NEW r \in Requests, Begin(r) \/ Step(r), rows' # rows
  PROVE  \E e \in EvaluationIds, w \in Row :
           /\ rows' = [rows EXCEPT ![e] = w]
           /\ \/ NoNews(rows[e], w)
              \/ /\ w.state = "completed" /\ rows[e] # Null /\ rows[e].state = "running"
                 /\ w.confirmedBy = rows[e].confirmedBy
                 /\ Audited(e, "run")'
              \/ /\ w.state = "confirmed" /\ rows[e] # Null /\ rows[e].state = "completed"
                 /\ Audited(e, "confirm")'
              \/ /\ w.state = "voided" /\ rows[e] # Null
                 /\ w.confirmedBy = rows[e].confirmedBy
                 /\ Audited(e, "void")'
<1>0. PICK e : e = request[r].eval
  OBVIOUS
<1>. TypeInv
  BY DEF Inv
<1>. USE TypeFacts, <1>0
<1>1. CASE CreateRow(r)
  <2>1. PICK f \in EvaluationIds : rows[f] = Null /\
               rows' = [rows EXCEPT ![f] = NewRow(request[r].key, request[r].snapshot)]
    BY <1>1 DEF CreateRow
  <2>. DEFINE w == NewRow(request[r].key, request[r].snapshot)
  <2>2. w \in Row
    BY <1>1, NewRowType DEF CreateRow, RequestOK
  <2>3. NoNews(rows[f], w)
    BY DEF NoNews, NewRow
  <2>. HIDE DEF w
  <2>4. rows' = [rows EXCEPT ![f] = w]
    BY <2>1 DEF w
  <2>. QED BY <2>2, <2>3, <2>4
<1>2. CASE StartEvaluation(r) \/ FailEvaluation(r) \/ SetReplayResult(r)
  <2>1. e \in EvaluationIds /\ rows[e] # Null /\ rows[e] \in Row
    BY <1>2 DEF StartEvaluation, FailEvaluation, SetReplayResult, RequestOK
  <2>2. PICK w \in Row : /\ rows' = [rows EXCEPT ![e] = w]
                         /\ w.state \in {"running", "failed", rows[e].state}
                         /\ w.confirmedBy = rows[e].confirmedBy
    <3>1. CASE StartEvaluation(r)
      <4>. DEFINE w == [rows[e] EXCEPT !.state = "running"]
      <4>1. w \in Row /\ w.state = "running" /\ w.confirmedBy = rows[e].confirmedBy
        BY <2>1 DEF Row, States
      <4>2. rows' = [rows EXCEPT ![e] = w]
        BY <3>1 DEF StartEvaluation
      <4>. HIDE DEF w
      <4>. QED BY <4>1, <4>2
    <3>2. CASE FailEvaluation(r)
      <4>. DEFINE w == [rows[e] EXCEPT !.state = "failed"]
      <4>1. w \in Row /\ w.state = "failed" /\ w.confirmedBy = rows[e].confirmedBy
        BY <2>1 DEF Row, States
      <4>2. rows' = [rows EXCEPT ![e] = w]
        BY <3>2 DEF FailEvaluation
      <4>. HIDE DEF w
      <4>. QED BY <4>1, <4>2
    <3>3. CASE SetReplayResult(r)
      <4>. DEFINE w == [rows[e] EXCEPT !.replayPassed = request[r].passed]
      <4>1. w \in Row /\ w.state = rows[e].state /\ w.confirmedBy = rows[e].confirmedBy
        BY <2>1, <3>3 DEF Row, SetReplayResult, RequestOK
      <4>2. rows' = [rows EXCEPT ![e] = w]
        BY <3>3 DEF SetReplayResult
      <4>. HIDE DEF w
      <4>. QED BY <4>1, <4>2
    <3>. QED BY <1>2, <3>1, <3>2, <3>3
  <2>3. NoNews(rows[e], w)
    BY <2>1, <2>2 DEF NoNews
  <2>. QED BY <2>1, <2>2, <2>3
<1>3. CASE CompleteEvaluation(r)
  <2>. DEFINE s == request[r].snapshot
              w == Completed(rows[e], s)
  <2>1. /\ e \in EvaluationIds /\ rows[e] # Null /\ rows[e] \in Row
        /\ s \in Snapshot /\ HashString(s) \in Hashes /\ Outcome[s] \in Nat
        /\ request[r].op = "run" /\ rows[e].state = "running"
    BY <1>3, OutcomeAssumption DEF CompleteEvaluation, RequestOK, Hashes, Matches
  <2>2. w \in Row /\ w.state = "completed" /\ w.confirmedBy = rows[e].confirmedBy
    BY <2>1 DEF Row, States, Completed
  <2>3. rows' = [rows EXCEPT ![e] = w]
    BY <1>3 DEF CompleteEvaluation
  <2>4. /\ request'[r].eval = e /\ request'[r].op = "run"
        /\ request'[r].pc = "reload"
    BY <1>3, <2>1 DEF CompleteEvaluation, Request
  <2>5. Audited(e, "run")'
    BY <2>4 DEF Audited
  <2>. HIDE DEF w
  <2>. QED BY <2>1, <2>2, <2>3, <2>5
<1>4. CASE Confirm(r)
  <2>. DEFINE w == [rows[e] EXCEPT !.state = "confirmed", !.confirmedBy = request[r].actor]
  <2>1. /\ e \in EvaluationIds /\ rows[e] # Null /\ rows[e] \in Row
        /\ request[r].actor \in Users /\ rows[e].state = "completed"
    BY <1>4 DEF Confirm, RequestOK, Matches, Confirmable
  <2>2. w \in Row /\ w.state = "confirmed"
    BY <2>1 DEF Row, States
  <2>3. rows' = [rows EXCEPT ![e] = w]
    BY <1>4, <2>1 DEF Confirm, Row
  <2>4. /\ request'[r].eval = e /\ request'[r].op = "confirm"
        /\ request'[r].pc = "reload"
    BY <1>4 DEF Confirm, Request
  <2>5. Audited(e, "confirm")'
    BY <2>4 DEF Audited
  <2>. HIDE DEF w
  <2>. QED BY <2>1, <2>2, <2>3, <2>5
<1>5. CASE Void(r)
  <2>. DEFINE w == Voided(rows[e])
  <2>1. e \in EvaluationIds /\ rows[e] # Null /\ rows[e] \in Row
    BY <1>5 DEF Void, RequestOK
  <2>2. w \in Row /\ w.state = "voided" /\ w.confirmedBy = rows[e].confirmedBy
    BY <2>1 DEF Row, States, Voided
  <2>3. rows' = [rows EXCEPT ![e] = w]
    BY <1>5 DEF Void
  <2>4. /\ request'[r].eval = e /\ request'[r].op = "void"
        /\ request'[r].pc = "reload"
    BY <1>5 DEF Void, Request
  <2>5. Audited(e, "void")'
    BY <2>4 DEF Audited
  <2>. HIDE DEF w
  <2>. QED BY <2>1, <2>2, <2>3, <2>5
<1>6. CASE Begin(r) \/ FindExisting(r) \/ FreezeInput(r) \/ ReadForConfirm(r)
             \/ ReadForVoid(r) \/ Reload(r) \/ ReadForReplay(r) \/ RecordAudit(r)
  BY <1>6 DEF Begin, BeginRun, BeginConfirm, BeginVoid, BeginReplay, BeginOn,
    FindExisting, FreezeInput, ReadForConfirm, ReadForVoid, Reload, ReadForReplay,
    RecordAudit
<1>. QED BY <1>1, <1>2, <1>3, <1>4, <1>5, <1>6 DEF Step

\* Where no request is cut short, every result, confirmation and voiding is
\* in the audit trail or about to be written there.
THEOREM ChangesTraced ==
  ASSUME Interrupts = FALSE
  PROVE  Spec => []ChangesAudited
<1>1. Init => ChangesAudited
  BY DEF Init, ChangesAudited
<1>2. Inv /\ ChangesAudited /\ [Next]_vars => ChangesAudited'
  <2>. SUFFICES ASSUME Inv, ChangesAudited, [Next]_vars,
                       NEW e \in EvaluationIds, rows'[e] # Null
                PROVE  /\ rows'[e].state \in {"completed", "confirmed"} => Audited(e, "run")'
                       /\ rows'[e].confirmedBy # Null => Audited(e, "confirm")'
                       /\ rows'[e].state = "voided" => Audited(e, "void")'
    BY DEF ChangesAudited
  <2>0. rows \in [EvaluationIds -> Row \cup {Null}]
    BY DEF Inv, TypeInv, TypeOK
  <2>1. ASSUME NEW op PROVE Audited(e, op) => Audited(e, op)'
    <3>1. CASE UNCHANGED vars
      BY <3>1 DEF vars, Audited
    <3>2. CASE Next
      <4>1. PICK r \in Requests : Begin(r) \/ Step(r)
        BY <3>2 DEF Next, Interrupt
      <4>. QED BY <4>1, AuditedStays
    <3>. QED BY <3>1, <3>2
  <2>2. /\ rows[e] # Null /\ rows[e].state \in {"completed", "confirmed"} => Audited(e, "run")
        /\ rows[e] # Null /\ rows[e].confirmedBy # Null => Audited(e, "confirm")
        /\ rows[e] # Null /\ rows[e].state = "voided" => Audited(e, "void")
    BY DEF ChangesAudited
  <2>3. CASE rows'[e] = rows[e]
    BY <2>1, <2>2, <2>3
  <2>4. CASE rows'[e] # rows[e]
    <3>1. PICK r \in Requests : Begin(r) \/ Step(r)
      BY <2>4 DEF Next, Interrupt, vars
    <3>2. PICK f \in EvaluationIds, w \in Row :
           /\ rows' = [rows EXCEPT ![f] = w]
           /\ \/ NoNews(rows[f], w)
              \/ /\ w.state = "completed" /\ rows[f] # Null /\ rows[f].state = "running"
                 /\ w.confirmedBy = rows[f].confirmedBy
                 /\ Audited(f, "run")'
              \/ /\ w.state = "confirmed" /\ rows[f] # Null /\ rows[f].state = "completed"
                 /\ Audited(f, "confirm")'
              \/ /\ w.state = "voided" /\ rows[f] # Null
                 /\ w.confirmedBy = rows[f].confirmedBy
                 /\ Audited(f, "void")'
      BY <2>4, <3>1, NewsAudited
    <3>3. f = e /\ rows'[e] = w
      BY <2>0, <2>4, <3>2
    <3>4. CASE NoNews(rows[e], w)
      BY <2>1, <2>2, <3>3, <3>4 DEF NoNews
    <3>. QED BY <2>1, <2>2, <3>2, <3>3, <3>4
  <2>. QED BY <2>3, <2>4
<1>. QED BY <1>1, <1>2, InvInit, InvNext, PTL DEF Spec
----------------------------------------------------------------------------
(* The service implements the ledger.                                       *)

Table == [EvaluationIds -> Row \cup {Null}]

UniqueKeys(table) ==
  \A e, f \in EvaluationIds :
    table[e] # Null /\ table[f] # Null /\ table[e].key = table[f].key => e = f

\* The mapping reads off a table what it should: the row of a key, if any.
LEMMA LedgerOfRow ==
  ASSUME NEW t \in Table, UniqueKeys(t), NEW e \in EvaluationIds, t[e] # Null
  PROVE  t[e].key \in Keys /\ LedgerOf(t)[t[e].key] = EntryOf(t[e])
<1>1. t[e].key \in Keys
  BY DEF Table, Row
<1>2. RowsWithKey(t, t[e].key) = {e}
  BY DEF RowsWithKey, UniqueKeys
<1>3. (CHOOSE f \in EvaluationIds : f \in RowsWithKey(t, t[e].key)) = e
  BY <1>2
<1>. QED BY <1>1, <1>2, <1>3 DEF LedgerOf

\* No row, no entry.
LEMMA LedgerOfNone ==
  ASSUME NEW t, NEW k \in Keys, RowsWithKey(t, k) = {}
  PROVE  LedgerOf(t)[k] = Null
BY DEF LedgerOf

\* Writing one row writes one entry.
LEMMA LedgerOfUpdate ==
  ASSUME rows \in Table, rows' \in Table, UniqueKeys(rows), UniqueKeys(rows'),
         NEW e \in EvaluationIds, NEW w \in Row, rows' = [rows EXCEPT ![e] = w],
         rows[e] # Null => rows[e].key = w.key
  PROVE  LedgerOf(rows') = [LedgerOf(rows) EXCEPT ![w.key] = EntryOf(w)]
<1>. DEFINE t == rows
            u == rows'
<1>0. /\ t \in Table /\ u \in Table /\ UniqueKeys(t) /\ UniqueKeys(u)
      /\ u = [t EXCEPT ![e] = w] /\ (t[e] # Null => t[e].key = w.key)
  OBVIOUS
<1>1. w.key \in Keys /\ u[e] = w /\ w # Null
  BY <1>0, NullAssumption DEF Row, Table
<1>2. LedgerOf(u)[w.key] = EntryOf(w)
  BY <1>0, <1>1, LedgerOfRow
<1>3. ASSUME NEW k \in Keys, k # w.key PROVE LedgerOf(u)[k] = LedgerOf(t)[k]
  <2>1. RowsWithKey(u, k) = RowsWithKey(t, k)
    BY <1>1, <1>3 DEF RowsWithKey, Table
  <2>2. \A f \in RowsWithKey(t, k) : f \in EvaluationIds /\ f # e /\ u[f] = t[f]
    BY <1>3 DEF RowsWithKey, Table
  <2>3. CASE RowsWithKey(t, k) = {}
    BY <2>1, <2>3, LedgerOfNone
  <2>4. CASE RowsWithKey(t, k) # {}
    <3>1. PICK f \in EvaluationIds : /\ t[f] # Null /\ t[f].key = k
                                     /\ u[f] = t[f]
      BY <2>2, <2>4 DEF RowsWithKey
    <3>2. LedgerOf(u)[k] = EntryOf(u[f]) /\ LedgerOf(t)[k] = EntryOf(t[f])
      BY <3>1, LedgerOfRow
    <3>. QED BY <3>1, <3>2
  <2>. QED BY <2>3, <2>4
<1>4. /\ LedgerOf(u) = [k \in Keys |-> LedgerOf(u)[k]]
      /\ LedgerOf(t) = [k \in Keys |-> LedgerOf(t)[k]]
  BY DEF LedgerOf
<1>. QED BY <1>1, <1>2, <1>3, <1>4

\* Every statement that writes the table is one step of the ledger, or none:
\* only a run's start and a replay's verdict stay invisible.
LEMMA LedgerStep ==
  ASSUME Inv, Inv', NEW r \in Requests, RowStep(r)
  PROVE  [Abstract!LedgerNext]_Ledger
<1>0. /\ rows \in Table /\ rows' \in Table /\ UniqueKeys(rows) /\ UniqueKeys(rows')
      /\ Ledger = LedgerOf(rows) /\ Ledger' = LedgerOf(rows')
  BY DEF Inv, TypeInv, TypeOK, Table, OneRowPerKey, UniqueKeys, Ledger
<1>1. CASE UNCHANGED rows
  BY <1>0, <1>1
<1>2. ASSUME NEW e \in EvaluationIds, NEW k \in Keys, NEW s \in Snapshot,
             rows[e] = Null, ~KeyTaken(k),
             rows' = [rows EXCEPT ![e] = NewRow(k, s)]
      PROVE  Abstract!Accept(k)
  <2>1. Ledger' = [Ledger EXCEPT ![k] = EntryOf(NewRow(k, s))]
    <3>. DEFINE w == NewRow(k, s)
    <3>1. w \in Row /\ w.key = k
      BY NewRowType DEF NewRow
    <3>2. rows' = [rows EXCEPT ![e] = w] /\ rows[e] = Null
      BY <1>2
    <3>. HIDE DEF w
    <3>3. LedgerOf(rows') = [LedgerOf(rows) EXCEPT ![w.key] = EntryOf(w)]
      BY <1>0, <3>1, <3>2, LedgerOfUpdate
    <3>. QED BY <1>0, <3>1, <3>3 DEF w
  <2>2. EntryOf(NewRow(k, s)) = Abstract!Entry(s)
    BY DEF EntryOf, NewRow, Abstract!Entry, PhaseOf, Pending
  <2>3. Ledger[k] = Null
    BY <1>0, <1>2, LedgerOfNone DEF RowsWithKey, KeyTaken
  <2>. QED BY <2>1, <2>2, <2>3 DEF Abstract!Accept, Abstract!Phase
<1>3. ASSUME NEW e \in EvaluationIds, NEW w \in Row, rows[e] # Null,
             rows' = [rows EXCEPT ![e] = w], Kept(rows[e], w),
             \/ Confirms(rows[e], w) \/ Voids(rows[e], w) \/ Marks(rows[e], w)
             \/ Starts(rows[e], w) \/ Completes(rows[e], w) \/ Fails(rows[e], w)
      PROVE  [Abstract!LedgerNext]_Ledger
  <2>. DEFINE old == rows[e]
              k == old.key
  <2>1. /\ Ledger[k] = EntryOf(old) /\ k \in Keys
        /\ Ledger' = [Ledger EXCEPT ![k] = EntryOf(w)]
        /\ old \in Row /\ w.snapshot = old.snapshot
    <3>1. w.key = old.key /\ old \in Row /\ w.snapshot = old.snapshot
      BY <1>3 DEF Kept
    <3>2. LedgerOf(rows)[k] = EntryOf(old) /\ k \in Keys
      BY <1>0, <1>3, LedgerOfRow
    <3>3. LedgerOf(rows') = [LedgerOf(rows) EXCEPT ![w.key] = EntryOf(w)]
      BY <1>0, <1>3, <3>1, LedgerOfUpdate
    <3>. QED BY <1>0, <3>1, <3>2, <3>3
  <2>2. /\ Ledger = [j \in Keys |-> Ledger[j]]
        /\ EntryOf(old) # Null /\ w.state \in States /\ old.state \in States
    <3>1. EntryOf(old) \in Entries
      BY <2>1 DEF EntryOf, PhaseOf, Pending, Entries, Row, States
    <3>. QED BY <3>1, <2>1, <1>0, EntryAssumption DEF LedgerOf, Row
  <2>3. CASE Marks(old, w) \/ Starts(old, w)
    <3>1. EntryOf(w) = EntryOf(old)
      BY <2>1, <2>3 DEF Marks, Starts, EntryOf, PhaseOf, Pending
    <3>. QED BY <2>1, <2>2, <3>1
  <2>4. CASE Completes(old, w)
    <3>1. EntryOf(w) = [EntryOf(old) EXCEPT !.phase = "completed",
                          !.score = Outcome[old.snapshot]]
      <4>1. PhaseOf(w.state) = "completed" /\ w.score = Outcome[old.snapshot]
            /\ w.confirmedBy = old.confirmedBy /\ w.snapshot = old.snapshot
        BY <2>1, <2>4 DEF Completes, PhaseOf, Pending
      <4>. HIDE DEF old
      <4>. DEFINE mid == [EntryOf(old) EXCEPT !.phase = "completed"]
      <4>2. mid = [snapshot |-> old.snapshot, phase |-> "completed",
                   score |-> old.score, confirmedBy |-> old.confirmedBy]
        BY ONLY DEF EntryOf
      <4>. HIDE DEF mid
      <4>3. EntryOf(w) = [mid EXCEPT !.score = Outcome[old.snapshot]]
        BY ONLY <4>1, <4>2 DEF EntryOf
      <4>. QED BY ONLY <4>3 DEF mid
    <3>2. Abstract!Phase(k) = "accepted" /\ Ledger[k].snapshot = old.snapshot
      BY <2>1, <2>2, <2>4 DEF Completes, Abstract!Phase, EntryOf, PhaseOf, Pending
    <3>3. Outcome[old.snapshot] # EvaluationError
      BY <2>1, <2>4, OutcomeAssumption DEF Completes, Row
    <3>4. Abstract!Complete(k)
      BY <2>1, <2>2, <3>1, <3>2, <3>3 DEF Abstract!Complete
    <3>. QED BY <2>1, <3>4 DEF Abstract!Finish, Abstract!LedgerNext
  <2>5. CASE Fails(old, w)
    <3>1. EntryOf(w) = [EntryOf(old) EXCEPT !.phase = "failed"]
      <4>1. PhaseOf(w.state) = "failed" /\ w.score = old.score
            /\ w.confirmedBy = old.confirmedBy /\ w.snapshot = old.snapshot
        BY <2>1, <2>5 DEF Fails, PhaseOf, Pending
      <4>. HIDE DEF old
      <4>. QED BY ONLY <4>1 DEF EntryOf
    <3>2. /\ Abstract!Phase(k) = "accepted" /\ Ledger[k].snapshot = old.snapshot
          /\ Outcome[old.snapshot] = EvaluationError
      BY <2>1, <2>2, <2>5 DEF Fails, Abstract!Phase, EntryOf, PhaseOf, Pending
    <3>3. Abstract!Fail(k)
      BY <2>1, <3>1, <3>2 DEF Abstract!Fail
    <3>. QED BY <2>1, <3>3 DEF Abstract!Finish, Abstract!LedgerNext
  <2>6. CASE Confirms(old, w)
    <3>1. EntryOf(w) = [EntryOf(old) EXCEPT !.phase = "confirmed",
                          !.confirmedBy = w.confirmedBy]
      <4>1. PhaseOf(w.state) = "confirmed" /\ w.score = old.score
            /\ w.snapshot = old.snapshot
        BY <2>1, <2>6 DEF Confirms, PhaseOf, Pending
      <4>. HIDE DEF old
      <4>. DEFINE mid == [EntryOf(old) EXCEPT !.phase = "confirmed"]
      <4>2. mid = [snapshot |-> old.snapshot, phase |-> "confirmed",
                   score |-> old.score, confirmedBy |-> old.confirmedBy]
        BY ONLY DEF EntryOf
      <4>. HIDE DEF mid
      <4>3. EntryOf(w) = [mid EXCEPT !.confirmedBy = w.confirmedBy]
        BY ONLY <4>1, <4>2 DEF EntryOf
      <4>. QED BY ONLY <4>3 DEF mid
    <3>2. /\ Abstract!Phase(k) = "completed" /\ Ledger[k].snapshot = old.snapshot
          /\ old.snapshot \in Snapshot
          /\ w.confirmedBy \in Users
          /\ w.confirmedBy # Author[old.snapshot.scenario]
      BY <2>1, <2>2, <2>6 DEF Confirms, Abstract!Phase, EntryOf, PhaseOf, Pending, Row
    <3>3. Abstract!ConfirmEntry(k, w.confirmedBy)
      BY <2>1, <3>1, <3>2 DEF Abstract!ConfirmEntry
    <3>. QED BY <2>1, <3>2, <3>3 DEF Abstract!LedgerNext
  <2>7. CASE Voids(old, w)
    <3>1. EntryOf(w) = [EntryOf(old) EXCEPT !.phase = "voided"]
      <4>1. PhaseOf(w.state) = "voided" /\ w.score = old.score
            /\ w.confirmedBy = old.confirmedBy /\ w.snapshot = old.snapshot
        BY <2>1, <2>7 DEF Voids, PhaseOf, Pending
      <4>. HIDE DEF old
      <4>. QED BY ONLY <4>1 DEF EntryOf
    <3>2. Abstract!Phase(k) \in {"completed", "failed", "confirmed"}
      BY <2>1, <2>2, <2>7 DEF Voids, Abstract!Phase, EntryOf, PhaseOf, Pending
    <3>3. Abstract!VoidEntry(k)
      BY <2>1, <3>1, <3>2 DEF Abstract!VoidEntry
    <3>. QED BY <2>1, <3>3 DEF Abstract!LedgerNext
  <2>. QED BY <1>3, <2>3, <2>4, <2>5, <2>6, <2>7
<1>. QED BY <1>1, <1>2, <1>3 DEF RowStep, Abstract!LedgerNext

\* No rows, no entries.
LEMMA LedgerInit == Init => Abstract!LedgerInit
<1>. SUFFICES ASSUME Init PROVE Abstract!LedgerInit
  OBVIOUS
<1>1. \A k \in Keys : RowsWithKey(rows, k) = {}
  BY DEF Init, RowsWithKey
<1>. QED BY <1>1 DEF Abstract!LedgerInit, Ledger, LedgerOf

\* Statement by statement, interrupted or not, Run, Confirm, Void and Replay
\* implement the ledger: one entry per key, whose life takes single steps.
THEOREM ServiceImplementsLedger == Spec => ImplementsLedger
<1>1. Inv /\ Inv' /\ [Next]_vars => [Abstract!LedgerNext]_Ledger
  <2>. SUFFICES ASSUME Inv, Inv', [Next]_vars PROVE [Abstract!LedgerNext]_Ledger
    OBVIOUS
  <2>1. CASE Next
    BY <2>1, RowStepNext, LedgerStep DEF Next
  <2>2. CASE UNCHANGED vars
    BY <2>2 DEF vars, Ledger
  <2>. QED BY <2>1, <2>2
<1>. QED BY <1>1, LedgerInit, InvInit, InvNext, PTL
     DEF Spec, ImplementsLedger, Abstract!LedgerSpec
============================================================================
