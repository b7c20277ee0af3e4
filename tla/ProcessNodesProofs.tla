------------------------- MODULE ProcessNodesProofs -------------------------
(* Theorems about ProcessNodes for every set of requests, nodes, scenarios, *)
(* codes, fields and values.                                                *)
EXTENDS ProcessNodes, TLAPS

\* What a request knows at each of its program counters.
RequestOK(r) ==
  LET q == request[r] IN
  /\ q.pc # "idle" => q.op \in {"create", "update", "deactivate", "scenario"}
  /\ q.pc = "find" => q.op = "create"
  /\ q.pc = "read" => q.op # "create"
  /\ q.pc \in {"find", "write"} /\ q.op = "create" =>
       /\ q.code \in Codes
       /\ q.after \in Row /\ q.after.code = q.code
       /\ q.before = Null
  /\ q.pc \in {"read", "write"} /\ q.op # "create" =>
       /\ q.node \in NodeIds /\ rows[q.node] # Null
       /\ q.op = "update" => q.edit \in Edits
  /\ q.pc = "write" /\ q.op # "create" => q.before \in Row
  /\ q.pc = "write" /\ q.op = "update" =>
       q.after = WithColumns(q.before, Overlay(q.before.columns, q.edit))
  /\ q.pc = "audit" =>
       /\ q.op # "scenario" /\ q.node \in NodeIds
       /\ q.before \in Row \cup {Null} /\ q.after \in Row

Inv == TypeOK /\ \A r \in Requests : RequestOK(r)

\* The part of the invariant that speaks of the tables.
TablesOK ==
  /\ rows \in [NodeIds -> Row \cup {Null}]
  /\ scenarios \in [ScenarioIds -> NodeIds \cup {Null}]
  /\ audits \subseteq Audit

\* Nodes never disappear.
Keeps == \A n \in NodeIds : rows[n] # Null => rows'[n] # Null

\* An idle request record is well typed.
LEMMA IdleType == Idle \in Request
BY DEF Idle, Request

\* What the invariant says of one request and of the nodes, spelled out.
LEMMA Facts ==
  ASSUME Inv, NEW r \in Requests
  PROVE  /\ TablesOK
         /\ request \in [Requests -> Request]
         /\ request[r] \in Request
         /\ RequestOK(r)
         /\ \A n \in NodeIds : rows[n] # Null => rows[n] \in Row
BY DEF Inv, TypeOK, TablesOK

\* At the start no node exists and every request is idle.
LEMMA InvInit == Init => Inv
BY IdleType DEF Init, Inv, TypeOK, RequestOK, Idle

\* A node with new columns is a node with the old code.
LEMMA WithColumnsType ==
  ASSUME NEW row \in Row, NEW columns \in Columns
  PROVE  WithColumns(row, columns) \in Row
           /\ WithColumns(row, columns).code = row.code
           /\ WithColumns(row, columns).columns = columns
BY DEF WithColumns, Row

\* Columns laid over with an update's fields are columns.
LEMMA OverlayType ==
  ASSUME NEW columns \in Columns, NEW edit \in Edits
  PROVE  Overlay(columns, edit) \in Columns
<1>. DEFINE content == [f \in Fields |-> IF edit.content[f] # Null THEN edit.content[f]
                                         ELSE columns.content[f]]
            status == IF edit.status # Null THEN edit.status ELSE columns.status
<1>1. content \in [Fields -> Values]
  BY DEF Columns, Edits
<1>2. status \in Statuses
  BY DEF Columns, Edits
<1>. QED BY <1>1, <1>2 DEF Overlay, Columns

\* What a step of request r has to show: its new record, and that the tables
\* stay in order; the other requests follow.
LEMMA InvStep ==
  ASSUME Inv, NEW r \in Requests, NEW q \in Request,
         request' = [request EXCEPT ![r] = q],
         TablesOK', Keeps, RequestOK(r)'
  PROVE  Inv'
<1>1. request \in [Requests -> Request]
  BY DEF Inv, TypeOK
<1>2. request' \in [Requests -> Request] /\ request'[r] = q
  BY <1>1
<1>3. ASSUME NEW p \in Requests PROVE RequestOK(p)'
  <2>1. CASE p = r
    BY <2>1
  <2>2. CASE p # r
    <3>1. request'[p] = request[p] /\ RequestOK(p)
      BY <2>2, <1>1, Facts
    <3>. QED BY <3>1 DEF RequestOK, Keeps
  <2>. QED BY <2>1, <2>2
<1>4. ASSUME NEW p \in Requests, request'[p].pc = "audit"
      PROVE  AuditOf(request'[p]) \in Audit
  BY <1>2, <1>3, <1>4 DEF RequestOK, AuditOf, Audit
<1>5. TypeOK'
  BY <1>2, <1>4 DEF TypeOK, TablesOK, AuditOf
<1>. QED BY <1>3, <1>5 DEF Inv, TablesOK

\* The nodes standing still.
LEMMA StillKeeps ==
  ASSUME Inv, UNCHANGED rows, audits' \subseteq Audit,
         scenarios' \in [ScenarioIds -> NodeIds \cup {Null}]
  PROVE  Keeps /\ TablesOK'
BY DEF Inv, TypeOK, Keeps, TablesOK

\* Answering.
LEMMA InvFinish ==
  ASSUME Inv, NEW r \in Requests, Finish(r), UNCHANGED rows,
         audits' \subseteq Audit,
         scenarios' \in [ScenarioIds -> NodeIds \cup {Null}]
  PROVE  Inv'
<1>1. request' = [request EXCEPT ![r] = Idle]
  BY DEF Finish
<1>2. RequestOK(r)'
  BY <1>1, Facts DEF RequestOK, Idle
<1>. QED BY <1>1, <1>2, IdleType, InvStep, StillKeeps
----------------------------------------------------------------------------
\* Arrival.
LEMMA InvBegin ==
  ASSUME Inv, NEW r \in Requests, Begin(r)
  PROVE  Inv'
<1>1. CASE BeginCreate(r)
  <2>1. PICK code \in Codes, content \in [Fields -> Values] :
          request' = [request EXCEPT ![r] =
            [Idle EXCEPT !.op = "create", !.pc = "find", !.code = code,
                         !.after = NewRow(code, content)]]
    BY <1>1 DEF BeginCreate
  <2>. DEFINE row == NewRow(code, content)
              q == [Idle EXCEPT !.op = "create", !.pc = "find", !.code = code,
                                !.after = row]
  <2>2. row \in Row /\ row.code = code
    BY DEF NewRow, Row, Columns, Statuses
  <2>. HIDE DEF row
  <2>3. q \in Request
    BY <2>2 DEF Idle, Request
  <2>4. request' = [request EXCEPT ![r] = q] /\ request'[r] = q
    BY <2>1, Facts DEF row
  <2>5. RequestOK(r)'
    <3>1. /\ request'[r].pc = "find" /\ request'[r].op = "create"
          /\ request'[r].code = code /\ request'[r].after = row
          /\ request'[r].before = Null
      BY <2>4 DEF Idle
    <3>. QED BY <2>2, <3>1 DEF RequestOK
  <2>. QED BY <1>1, <2>3, <2>4, <2>5, InvStep, StillKeeps, Facts
           DEF BeginCreate, TablesOK
<1>2. ASSUME NEW op \in {"update", "deactivate", "scenario"},
             NEW edit \in Edits \cup {Null},
             op = "update" => edit \in Edits,
             BeginOn(r, op, edit)
      PROVE  Inv'
  <2>1. PICK n \in NodeIds :
          /\ rows[n] # Null
          /\ request' = [request EXCEPT ![r] =
               [Idle EXCEPT !.op = op, !.pc = "read", !.node = n, !.edit = edit]]
    BY <1>2 DEF BeginOn
  <2>. DEFINE q == [Idle EXCEPT !.op = op, !.pc = "read", !.node = n, !.edit = edit]
  <2>2. q \in Request
    BY <1>2 DEF Idle, Request
  <2>3. request'[r] = q /\ rows' = rows
    BY <1>2, <2>1, Facts DEF BeginOn
  <2>4. RequestOK(r)'
    <3>1. /\ request'[r].pc = "read" /\ request'[r].op = op
          /\ request'[r].node = n /\ request'[r].edit = edit
      BY <2>3 DEF Idle
    <3>. QED BY <1>2, <2>1, <2>3, <3>1 DEF RequestOK
  <2>. QED BY <1>2, <2>1, <2>2, <2>4, InvStep, StillKeeps, Facts DEF BeginOn, TablesOK
<1>. QED BY <1>1, <1>2 DEF Begin

\* Reading: what was read and computed is kept for the statement to come.
LEMMA InvRead ==
  ASSUME Inv, NEW r \in Requests,
         GetByCode(r) \/ ReadForUpdate(r) \/ ReadForDeactivate(r) \/ ReadForScenario(r)
  PROVE  Inv'
<1>. DEFINE q == request[r]
            n == q.node
<1>1. UNCHANGED <<rows, scenarios, audits>>
  BY DEF GetByCode, ReadForUpdate, ReadForDeactivate, ReadForScenario
<1>2. /\ audits' \subseteq Audit /\ scenarios' \in [ScenarioIds -> NodeIds \cup {Null}]
      /\ q \in Request /\ RequestOK(r) /\ request \in [Requests -> Request]
  BY <1>1, Facts DEF TablesOK
<1>3. Keeps /\ TablesOK'
  BY <1>1, <1>2, StillKeeps
<1>4. CASE GetByCode(r)
  <2>1. CASE WithCode(q.code) # {}
    BY <1>1, <1>2, <1>4, <2>1, InvFinish DEF GetByCode
  <2>2. CASE WithCode(q.code) = {}
    <3>. DEFINE new == [q EXCEPT !.pc = "write"]
    <3>1. new \in Request
      BY <1>2 DEF Request
    <3>2. request' = [request EXCEPT ![r] = new] /\ request'[r] = new
      BY <1>2, <1>4, <2>2 DEF GetByCode
    <3>3. RequestOK(r)'
      BY <1>1, <1>2, <1>4, <3>2 DEF RequestOK, GetByCode, Request
    <3>. QED BY <1>3, <3>1, <3>2, <3>3, InvStep
  <2>. QED BY <2>1, <2>2
<1>5. CASE ReadForUpdate(r)
  <2>. DEFINE copy == WithColumns(rows[n], Overlay(rows[n].columns, q.edit))
              new == [q EXCEPT !.pc = "write", !.before = rows[n], !.after = copy]
  <2>1. n \in NodeIds /\ rows[n] # Null /\ rows[n] \in Row /\ q.edit \in Edits
    BY <1>2, <1>5, Facts DEF RequestOK, ReadForUpdate
  <2>2. copy \in Row
    BY <2>1, OverlayType, WithColumnsType DEF Row
  <2>3. request' = [request EXCEPT ![r] = new]
    BY <1>5 DEF ReadForUpdate
  <2>4. copy = WithColumns(rows[n], Overlay(rows[n].columns, q.edit))
    OBVIOUS
  <2>. HIDE DEF copy
  <2>5. new \in Request
    BY <1>2, <2>1, <2>2 DEF Request
  <2>6. request'[r] = new
    BY <1>2, <2>3
  <2>7. RequestOK(r)'
    <3>1. /\ new.pc = "write" /\ new.op = "update" /\ new.node = n
          /\ new.before = rows[n] /\ new.after = copy /\ new.edit = q.edit
      BY <1>2, <1>5 DEF Request, ReadForUpdate
    <3>. HIDE DEF new
    <3>. QED BY <1>1, <2>1, <2>4, <2>6, <3>1 DEF RequestOK
  <2>. QED BY <1>3, <2>3, <2>5, <2>7, InvStep
<1>6. CASE ReadForDeactivate(r) \/ ReadForScenario(r)
  <2>. DEFINE new == [q EXCEPT !.pc = "write", !.before = rows[n]]
  <2>1. /\ q.pc = "read" /\ q.op \in {"deactivate", "scenario"}
        /\ Finish(r) \/ request' = [request EXCEPT ![r] = new]
    BY <1>6 DEF ReadForDeactivate, ReadForScenario
  <2>2. n \in NodeIds /\ rows[n] # Null /\ rows[n] \in Row
    BY <1>2, <2>1, Facts DEF RequestOK
  <2>3. CASE Finish(r)
    BY <1>1, <1>2, <2>3, InvFinish
  <2>4. CASE request' = [request EXCEPT ![r] = new]
    <3>1. new \in Request
      BY <1>2, <2>2 DEF Request
    <3>2. request'[r] = new
      BY <1>2, <2>4
    <3>3. RequestOK(r)'
      BY <1>1, <1>2, <2>1, <2>2, <3>2 DEF RequestOK, Request
    <3>. QED BY <1>3, <2>4, <3>1, <3>3, InvStep
  <2>. QED BY <2>1, <2>3, <2>4
<1>. QED BY <1>4, <1>5, <1>6

\* A new node is the row the request computed.
LEMMA InvInsertNode ==
  ASSUME Inv, NEW r \in Requests, InsertNode(r)
  PROVE  Inv'
<1>. DEFINE q == request[r]
<1>1. /\ q \in Request /\ RequestOK(r) /\ q.pc = "write" /\ q.op = "create"
      /\ request \in [Requests -> Request]
      /\ rows \in [NodeIds -> Row \cup {Null}]
      /\ UNCHANGED <<scenarios, audits>> /\ TablesOK
  BY Facts DEF InsertNode, TablesOK
<1>2. CASE Finish(r) /\ UNCHANGED rows
  BY <1>1, <1>2, InvFinish DEF TablesOK
<1>3. ASSUME ~CodeTaken(q.code),
             NEW n \in NodeIds, rows[n] = Null,
             rows' = [rows EXCEPT ![n] = q.after],
             request' = [request EXCEPT ![r].pc = "audit", ![r].node = n]
      PROVE  Inv'
  <2>1. q.after \in Row /\ q.after.code = q.code /\ q.after # Null /\ q.before = Null
    BY <1>1, NullAssumption DEF RequestOK
  <2>2. TablesOK' /\ Keeps
    BY <1>1, <1>3, <2>1 DEF TablesOK, Keeps
  <2>. DEFINE new == [q EXCEPT !.pc = "audit", !.node = n]
  <2>3. new \in Request
    BY <1>1 DEF Request
  <2>4. request' = [request EXCEPT ![r] = new] /\ request'[r] = new
    BY <1>1, <1>3
  <2>5. RequestOK(r)'
    <3>1. /\ request'[r].pc = "audit" /\ request'[r].op = "create"
          /\ request'[r].node = n /\ request'[r].before = Null
          /\ request'[r].after = q.after
      BY <1>1, <2>1, <2>4 DEF Request
    <3>. QED BY <2>1, <3>1 DEF RequestOK
  <2>. QED BY <2>2, <2>3, <2>4, <2>5, InvStep
<1>. QED BY <1>2, <1>3 DEF InsertNode

\* A node gets other columns.
LEMMA NewColumns ==
  ASSUME Inv, NEW n \in NodeIds, rows[n] # Null,
         NEW w \in Row,
         rows' = [rows EXCEPT ![n] = w], UNCHANGED <<scenarios, audits>>
  PROVE  TablesOK' /\ Keeps
<1>1. rows \in [NodeIds -> Row \cup {Null}]
  BY DEF Inv, TypeOK
<1>2. w # Null
  BY NullAssumption
<1>. QED BY <1>1, <1>2 DEF Inv, TypeOK, TablesOK, Keeps

\* The update: all columns but the code are written back.
LEMMA InvUpdateNode ==
  ASSUME Inv, NEW r \in Requests, UpdateNode(r)
  PROVE  Inv'
<1>. DEFINE q == request[r]
            n == q.node
            w == WithColumns(rows[n], q.after.columns)
            new == [q EXCEPT !.pc = "audit"]
<1>1. /\ q \in Request /\ RequestOK(r) /\ q.pc = "write" /\ q.op = "update"
      /\ request \in [Requests -> Request]
      /\ UNCHANGED <<scenarios, audits>>
      /\ rows' = [rows EXCEPT ![n] = w]
      /\ request' = [request EXCEPT ![r] = new]
  BY Facts DEF UpdateNode
<1>2. /\ n \in NodeIds /\ rows[n] # Null /\ rows[n] \in Row
      /\ q.before \in Row /\ q.edit \in Edits
      /\ q.after = WithColumns(q.before, Overlay(q.before.columns, q.edit))
  BY <1>1, Facts DEF RequestOK
<1>3. Overlay(q.before.columns, q.edit) \in Columns
  BY <1>2, OverlayType DEF Row
<1>4. q.after \in Row /\ q.after.columns \in Columns
  BY <1>2, <1>3, WithColumnsType
<1>5. w \in Row /\ w.code = rows[n].code
  BY <1>2, <1>4, WithColumnsType
<1>6. TablesOK' /\ Keeps
  BY <1>1, <1>2, <1>5, NewColumns
<1>7. new \in Request /\ request'[r] = new
  BY <1>1 DEF Request
<1>8. RequestOK(r)'
  <2>1. /\ request'[r].pc = "audit" /\ request'[r].op = "update"
        /\ request'[r].node = n /\ request'[r].before = q.before
        /\ request'[r].after = q.after
    BY <1>1, <1>7 DEF Request
  <2>. QED BY <1>2, <1>4, <2>1 DEF RequestOK
<1>. QED BY <1>1, <1>6, <1>7, <1>8, InvStep

\* The deactivation: only the status changes.
LEMMA InvDeactivateNode ==
  ASSUME Inv, NEW r \in Requests, DeactivateNode(r)
  PROVE  Inv'
<1>. DEFINE q == request[r]
            n == q.node
            w == Deactivated(rows[n])
            new == [q EXCEPT !.pc = "audit", !.after = Deactivated(q.before)]
<1>1. /\ q \in Request /\ RequestOK(r) /\ q.pc = "write" /\ q.op = "deactivate"
      /\ request \in [Requests -> Request]
      /\ UNCHANGED <<scenarios, audits>> /\ TablesOK
  BY Facts DEF DeactivateNode
<1>2. n \in NodeIds /\ rows[n] # Null /\ rows[n] \in Row /\ q.before \in Row
  BY <1>1, Facts DEF RequestOK
<1>3. \A row \in Row : Deactivated(row) \in Row /\ Deactivated(row).code = row.code
  BY DEF Deactivated, Row, Columns, Statuses
<1>4. CASE rows[n].columns.status = "active"
  <2>1. rows' = [rows EXCEPT ![n] = w] /\ request' = [request EXCEPT ![r] = new]
    BY <1>4 DEF DeactivateNode
  <2>2. w \in Row /\ w.code = rows[n].code /\ Deactivated(q.before) \in Row
    BY <1>2, <1>3
  <2>3. TablesOK' /\ Keeps
    BY <1>1, <1>2, <2>1, <2>2, NewColumns
  <2>4. new \in Request /\ request'[r] = new
    BY <1>1, <2>1, <2>2 DEF Request
  <2>5. RequestOK(r)'
    <3>1. /\ request'[r].pc = "audit" /\ request'[r].op = "deactivate"
          /\ request'[r].node = n /\ request'[r].before = q.before
          /\ request'[r].after = Deactivated(q.before)
      BY <1>1, <2>4 DEF Request
    <3>. QED BY <1>2, <2>2, <3>1 DEF RequestOK
  <2>. QED BY <2>1, <2>3, <2>4, <2>5, InvStep
<1>5. CASE rows[n].columns.status # "active"
  BY <1>1, <1>5, InvFinish DEF DeactivateNode, TablesOK
<1>. QED BY <1>4, <1>5

\* The remaining statements answer; a scenario is added to an existing node.
LEMMA InvAnswer ==
  ASSUME Inv, NEW r \in Requests,
         InsertScenario(r) \/ RecordAudit(r) \/ Interrupt(r)
  PROVE  Inv'
<1>1. Finish(r) /\ UNCHANGED rows
  BY DEF InsertScenario, RecordAudit, Interrupt
<1>2. audits' \subseteq Audit
  BY DEF Inv, TypeOK, InsertScenario, RecordAudit, Interrupt
<1>3. scenarios' \in [ScenarioIds -> NodeIds \cup {Null}]
  <2>1. CASE InsertScenario(r)
    <3>1. request[r].node \in NodeIds
      BY <2>1, Facts DEF InsertScenario, RequestOK
    <3>2. scenarios \in [ScenarioIds -> NodeIds \cup {Null}]
      BY Facts DEF TablesOK
    <3>. QED BY <2>1, <3>1, <3>2 DEF InsertScenario
  <2>2. CASE RecordAudit(r) \/ Interrupt(r)
    BY <2>2, Facts DEF RecordAudit, Interrupt, TablesOK
  <2>. QED BY <2>1, <2>2
<1>. QED BY <1>1, <1>2, <1>3, InvFinish

\* The invariant is inductive.
LEMMA InvNext == Inv /\ [Next]_vars => Inv'
<1>. SUFFICES ASSUME Inv, [Next]_vars PROVE Inv'
  OBVIOUS
<1>1. CASE UNCHANGED vars
  BY <1>1 DEF vars, Inv, TypeOK, RequestOK, AuditOf
<1>2. ASSUME NEW r \in Requests, Begin(r) \/ Step(r) \/ Interrupt(r)
      PROVE  Inv'
  BY <1>2, InvBegin, InvRead, InvInsertNode, InvUpdateNode, InvDeactivateNode,
     InvAnswer DEF Step
<1>. QED BY <1>1, <1>2 DEF Next
----------------------------------------------------------------------------
\* Nodes, scenarios, requests and audit entries have their shape.
THEOREM TypeCorrect == Spec => []TypeOK
<1>1. Inv => TypeOK
  BY DEF Inv
<1>. QED BY <1>1, InvInit, InvNext, PTL DEF Spec

\* A node that is out of use comes back only by an update that asks for it, or
\* that read the node before it went out of use.
THEOREM ReactivationAsked == Spec => ReactivatedByUpdate
<1>. DEFINE Asked(n) ==
       /\ rows[n] # Null /\ rows[n].columns.status = "inactive"
       /\ rows'[n].columns.status = "active"
       => \E r \in Requests :
            /\ request[r].op = "update" /\ request[r].node = n /\ request'[r].pc = "audit"
            /\ \/ request[r].edit.status = "active"
               \/ request[r].before.columns.status = "active"
<1>1. ASSUME Inv, [Next]_vars, NEW n \in NodeIds PROVE Asked(n)
  <2>1. SUFFICES ASSUME rows[n] # Null, rows[n].columns.status = "inactive",
                        rows'[n].columns.status = "active"
                 PROVE  Asked(n)
    OBVIOUS
  <2>2. rows'[n] # rows[n] /\ rows[n] \in Row /\ rows \in [NodeIds -> Row \cup {Null}]
    BY <1>1, <2>1 DEF Inv, TypeOK
  <2>3. ~ UNCHANGED rows
    BY <2>2
  <2>4. PICK r \in Requests : InsertNode(r) \/ UpdateNode(r) \/ DeactivateNode(r)
    BY <1>1, <2>3 DEF Next, vars, Begin, BeginCreate, BeginOn, Step, Interrupt,
       GetByCode, ReadForUpdate, ReadForDeactivate, ReadForScenario, InsertScenario,
       RecordAudit
  <2>5. ~ InsertNode(r)
    BY <2>1, <2>2 DEF InsertNode
  <2>6. ~ DeactivateNode(r)
    <3>1. Deactivated(rows[n]).columns.status = "inactive"
      BY <2>2 DEF Deactivated, Row, Columns
    <3>. QED BY <2>1, <2>2, <3>1 DEF DeactivateNode
  <2>7. UpdateNode(r) /\ RequestOK(r) /\ request \in [Requests -> Request]
    BY <1>1, <2>4, <2>5, <2>6, Facts
  <2>8. request[r].node = n /\ rows'[n] = WithColumns(rows[n], request[r].after.columns)
    BY <2>2, <2>7 DEF UpdateNode
  <2>9. /\ request[r].op = "update" /\ request'[r].pc = "audit"
        /\ request[r].before \in Row
        /\ request[r].after = WithColumns(request[r].before,
                                Overlay(request[r].before.columns, request[r].edit))
    BY <2>7 DEF UpdateNode, RequestOK, Request
  <2>. DEFINE columns == Overlay(request[r].before.columns, request[r].edit)
  <2>10. rows'[n].columns = columns
    BY <2>2, <2>8, <2>9 DEF WithColumns, Row
  <2>11. columns.status = IF request[r].edit.status # Null THEN request[r].edit.status
                          ELSE request[r].before.columns.status
    BY DEF Overlay
  <2>. QED BY <2>1, <2>8, <2>9, <2>10, <2>11
<1>2. Inv /\ [Next]_vars => [\A n \in NodeIds : Asked(n)]_vars
  BY <1>1
<1>. QED BY <1>2, InvInit, InvNext, PTL DEF Spec, ReactivatedByUpdate
=============================================================================
