----------------------------- MODULE ProcessNodes -----------------------------
(* The process node service: create, update and deactivate over the         *)
(* process_nodes table, and the creation of a scenario, which reads the     *)
(* node it belongs to.  Nodes have no version: an update writes every column *)
(* but the code back from the copy it read.                                 *)
EXTENDS Naturals

CONSTANTS
  Requests,        \* handlers that can be in flight at once
  NodeIds,         \* primary keys the database hands out
  ScenarioIds,     \* primary keys of deviation_scenarios
  Codes,           \* values of node_code, trimmed and in upper case
  Fields,          \* name, unit, medium, design pressure and temperature, team
  Values,          \* what a field can hold
  Null             \* SQL NULL, a row that does not exist, a nil pointer

VARIABLES
  rows,            \* process_nodes, by primary key
  scenarios,       \* process_node_id of each deviation scenario
  request,         \* the requests in flight
  audits           \* audit_logs of entity process_node

vars == <<rows, scenarios, request, audits>>

Statuses == {"active", "inactive"}

\* The columns an update writes, and the pointers that select some of them.
Columns == [content : [Fields -> Values], status : Statuses]
Edits == [content : [Fields -> Values \cup {Null}], status : Statuses \cup {Null}]

Row == [code : Codes, columns : Columns]

Audit == [action : {"create", "update", "deactivate"}, node : NodeIds,
          before : Row \cup {Null}, after : Row]

Request == [op : {"create", "update", "deactivate", "scenario"} \cup {Null},
            pc : {"idle", "find", "read", "write", "audit"},
            node : NodeIds \cup {Null}, code : Codes \cup {Null},
            edit : Edits \cup {Null},
            before : Row \cup {Null}, after : Row \cup {Null}]

ASSUME NullAssumption ==
  Null \notin Row /\ Null \notin NodeIds /\ Null \notin Values /\ Null \notin Statuses
----------------------------------------------------------------------------
Idle == [op |-> Null, pc |-> "idle", node |-> Null, code |-> Null,
         edit |-> Null, before |-> Null, after |-> Null]

\* A request answers, with a result or an error, and is forgotten.
Finish(r) == request' = [request EXCEPT ![r] = Idle]

\* Operators named "Faulty..." are wrong versions of the definition that
\* follows them, each a slip one could make in the code it models; Next does
\* not use them.  They show that the properties would notice.

\* The service's lookup.
WithCode(code) == {n \in NodeIds : rows[n] # Null /\ rows[n].code = code}

\* The table's unique index on node_code, which refuses an INSERT.
CodeTaken(code) == \E n \in NodeIds : rows[n] # Null /\ rows[n].code = code

NewRow(code, content) ==
  [code |-> code, columns |-> [content |-> content, status |-> "active"]]

\* Fault: no status in the request means active.
FaultyOverlay(columns, edit) ==
  [content |-> [f \in Fields |-> IF edit.content[f] # Null THEN edit.content[f]
                                 ELSE columns.content[f]],
   status |-> IF edit.status # Null THEN edit.status ELSE "active"]

\* The request's columns laid over the node as it was read.
Overlay(columns, edit) ==
  [content |-> [f \in Fields |-> IF edit.content[f] # Null THEN edit.content[f]
                                 ELSE columns.content[f]],
   status |-> IF edit.status # Null THEN edit.status ELSE columns.status]

\* Fault: the code of the new copy is not carried over.
FaultyWithColumns(row, columns) == [code |-> Null, columns |-> columns]

WithColumns(row, columns) == [row EXCEPT !.columns = columns]

Deactivated(row) == [row EXCEPT !.columns.status = "inactive"]

Init ==
  /\ rows = [n \in NodeIds |-> Null]
  /\ scenarios = [s \in ScenarioIds |-> Null]
  /\ request = [r \in Requests |-> Idle]
  /\ audits = {}
----------------------------------------------------------------------------
BeginCreate(r) ==
  /\ request[r].pc = "idle"
  /\ \E code \in Codes, content \in [Fields -> Values] :
       request' = [request EXCEPT ![r] =
         [Idle EXCEPT !.op = "create", !.pc = "find", !.code = code,
                      !.after = NewRow(code, content)]]
  /\ UNCHANGED <<rows, scenarios, audits>>

BeginOn(r, op, edit) ==
  /\ request[r].pc = "idle"
  /\ \E n \in NodeIds :
       /\ rows[n] # Null
       /\ request' = [request EXCEPT ![r] =
            [Idle EXCEPT !.op = op, !.pc = "read", !.node = n, !.edit = edit]]
  /\ UNCHANGED <<rows, scenarios, audits>>

Begin(r) ==
  \/ BeginCreate(r)
  \/ \E edit \in Edits : BeginOn(r, "update", edit)
  \/ BeginOn(r, "deactivate", Null)
  \/ BeginOn(r, "scenario", Null)
----------------------------------------------------------------------------
(* Create.                                                                  *)
GetByCode(r) ==
  /\ request[r].pc = "find"
  /\ IF WithCode(request[r].code) # {}
       THEN Finish(r)
       ELSE request' = [request EXCEPT ![r].pc = "write"]
  /\ UNCHANGED <<rows, scenarios, audits>>

\* The INSERT, refused by the unique index when another create was faster.
InsertNode(r) ==
  /\ request[r].pc = "write" /\ request[r].op = "create"
  /\ \/ /\ ~CodeTaken(request[r].code)
        /\ \E n \in NodeIds :
             /\ rows[n] = Null
             /\ rows' = [rows EXCEPT ![n] = request[r].after]
             /\ request' = [request EXCEPT ![r].pc = "audit", ![r].node = n]
     \/ /\ CodeTaken(request[r].code)
        /\ Finish(r)
        /\ UNCHANGED rows
  /\ UNCHANGED <<scenarios, audits>>
----------------------------------------------------------------------------
(* Update and deactivate.                                                   *)
ReadForUpdate(r) ==
  /\ request[r].pc = "read" /\ request[r].op = "update"
  /\ LET row == rows[request[r].node] IN
       request' = [request EXCEPT ![r].pc = "write", ![r].before = row,
         ![r].after = WithColumns(row, Overlay(row.columns, request[r].edit))]
  /\ UNCHANGED <<rows, scenarios, audits>>

\* WHERE id = n: every column, the status included, as computed at the read.
UpdateNode(r) ==
  /\ request[r].pc = "write" /\ request[r].op = "update"
  /\ LET q == request[r] IN
       rows' = [rows EXCEPT ![q.node] = WithColumns(rows[q.node], q.after.columns)]
  /\ request' = [request EXCEPT ![r].pc = "audit"]
  /\ UNCHANGED <<scenarios, audits>>

ReadForDeactivate(r) ==
  /\ request[r].pc = "read" /\ request[r].op = "deactivate"
  /\ LET row == rows[request[r].node] IN
       IF row.columns.status = "inactive"
         THEN Finish(r)
         ELSE request' = [request EXCEPT ![r].pc = "write", ![r].before = row]
  /\ UNCHANGED <<rows, scenarios, audits>>

\* The audit's copy is made from the node as it was read.
DeactivateNode(r) ==
  /\ request[r].pc = "write" /\ request[r].op = "deactivate"
  /\ LET n == request[r].node IN
       IF rows[n].columns.status = "active"
         THEN /\ rows' = [rows EXCEPT ![n] = Deactivated(rows[n])]
              /\ request' = [request EXCEPT ![r].pc = "audit",
                               ![r].after = Deactivated(request[r].before)]
         ELSE Finish(r) /\ UNCHANGED rows
  /\ UNCHANGED <<scenarios, audits>>
----------------------------------------------------------------------------
(* Creation of a scenario, as far as the node is concerned.                 *)
ReadForScenario(r) ==
  /\ request[r].pc = "read" /\ request[r].op = "scenario"
  /\ IF rows[request[r].node].columns.status = "active"
       THEN request' = [request EXCEPT ![r].pc = "write",
                          ![r].before = rows[request[r].node]]
       ELSE Finish(r)
  /\ UNCHANGED <<rows, scenarios, audits>>

InsertScenario(r) ==
  /\ request[r].pc = "write" /\ request[r].op = "scenario"
  /\ \E s \in ScenarioIds :
       /\ scenarios[s] = Null
       /\ scenarios' = [scenarios EXCEPT ![s] = request[r].node]
  /\ Finish(r)
  /\ UNCHANGED <<rows, audits>>
----------------------------------------------------------------------------
AuditOf(q) == [action |-> q.op, node |-> q.node, before |-> q.before, after |-> q.after]

RecordAudit(r) ==
  /\ request[r].pc = "audit"
  /\ audits' = audits \cup {AuditOf(request[r])}
  /\ Finish(r)
  /\ UNCHANGED <<rows, scenarios>>

\* The caller disconnects, a statement fails, or the process stops.
Interrupt(r) ==
  /\ request[r].pc # "idle"
  /\ Finish(r)
  /\ UNCHANGED <<rows, scenarios, audits>>

Step(r) ==
  \/ GetByCode(r) \/ InsertNode(r)
  \/ ReadForUpdate(r) \/ UpdateNode(r) \/ ReadForDeactivate(r) \/ DeactivateNode(r)
  \/ ReadForScenario(r) \/ InsertScenario(r) \/ RecordAudit(r)

Next == \E r \in Requests : Begin(r) \/ Step(r) \/ Interrupt(r)

Spec == Init /\ [][Next]_vars
----------------------------------------------------------------------------
(* Properties.                                                              *)

\* Every row, request and audit entry, also one about to be written, has the
\* shape its table or handler gives it.
TypeOK ==
  /\ rows \in [NodeIds -> Row \cup {Null}]
  /\ scenarios \in [ScenarioIds -> NodeIds \cup {Null}]
  /\ request \in [Requests -> Request]
  /\ \A r \in Requests : request[r].pc = "audit" => AuditOf(request[r]) \in Audit
  /\ audits \subseteq Audit

\* A node comes back into use only by an update that asks for it, or by one
\* that had read the node before it was taken out of use (Update).
ReactivatedByUpdate ==
  [][\A n \in NodeIds :
       /\ rows[n] # Null /\ rows[n].columns.status = "inactive"
       /\ rows'[n].columns.status = "active"
       => \E r \in Requests :
            /\ request[r].op = "update" /\ request[r].node = n /\ request'[r].pc = "audit"
            /\ \/ request[r].edit.status = "active"
               \/ request[r].before.columns.status = "active"]_vars

\* A scenario is not added to an inactive node.
ScenarioOnActiveNode ==
  [][\A s \in ScenarioIds :
       scenarios[s] = Null /\ scenarios'[s] # Null
         => rows[scenarios'[s]].columns.status = "active"]_vars
===============================================================================
