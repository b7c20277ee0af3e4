--------------------------- MODULE ScenarioReview ---------------------------
(* The deviation scenario service: create, update and transition over the   *)
(* deviation_scenarios table and its audit entries, with the optimistic     *)
(* version the client sends back from the scenario it had loaded, and the   *)
(* page's edit form over the list its store keeps reloading.                *)
EXTENDS Naturals

CONSTANTS
  Requests,        \* handlers that can be in flight at once
  ScenarioIds,     \* primary keys the database hands out
  Users,           \* user ids
  Engineers,       \* users with the role admin or process_engineer
  Reviewers,       \* users with the role admin or safety_reviewer
  Fields,          \* guideword, parameter, cause, consequence, likelihood, ...
  Values,          \* what a field can hold
  MaxVersion,      \* bound: no change is begun on a scenario of this version
  Interruptible,   \* before which of its statements may a request stop?
  Null             \* SQL NULL, a row that does not exist, a nil pointer

VARIABLES
  rows,            \* deviation_scenarios, by primary key
  request,         \* the requests in flight
  audits           \* audit_logs of entity deviation_scenario

vars == <<rows, request, audits>>

States == {"draft", "analyzed", "verified", "accepted", "rework"}
Content == [Fields -> Values]

\* An update names some fields; the pointers of the others are nil.
Edits == [Fields -> Values \cup {Null}]

Row == [content : Content, state : States, version : 1 .. MaxVersion,
        createdBy : Users, reviewedBy : Users \cup {Null}]

Audit == [action : {"create", "update", "transition"}, scenario : ScenarioIds,
          actor : Users, before : Row \cup {Null}, after : Row]

Statements == {"insert", "read", "write", "audit"}

Request == [op : {"create", "update", "transition"} \cup {Null},
            pc : {"idle", "form"} \cup Statements,
            actor : Users \cup {Null}, scenario : ScenarioIds \cup {Null},
            seen : Row \cup {Null},        \* what the client's list holds
            form : Content \cup {Null},    \* what the edit form was filled with
            edit : Edits \cup {Null}, to : States \cup {Null},
            before : Row \cup {Null}, after : Row \cup {Null}]

ASSUME RoleAssumption == Engineers \subseteq Users /\ Reviewers \subseteq Users

ASSUME VersionAssumption == MaxVersion \in Nat \ {0}

ASSUME NullAssumption ==
  Null \notin Row /\ Null \notin Users /\ Null \notin Values

ASSUME InterruptibleAssumption == Interruptible \subseteq Statements
----------------------------------------------------------------------------
Idle == [op |-> Null, pc |-> "idle", actor |-> Null, scenario |-> Null,
         seen |-> Null, form |-> Null, edit |-> Null, to |-> Null,
         before |-> Null, after |-> Null]

\* A request answers, with a result or an error, and is forgotten.
Finish(r) == request' = [request EXCEPT ![r] = Idle]

\* An update that is refused reports its error; the edit form stays open and
\* the list as it is.
BackToForm(r) ==
  request' = [request EXCEPT ![r].pc = "form", ![r].edit = Null,
                             ![r].before = Null]

\* Operators named "Faulty..." are wrong versions of the definition that
\* follows them, each a slip one could make in the code it models; Next does
\* not use them.  They show that the properties would notice.

\* Fault: a new scenario starts at version zero.
FaultyNewRow(content, author) ==
  [content |-> content, state |-> "draft", version |-> 0,
   createdBy |-> author, reviewedBy |-> Null]

NewRow(content, author) ==
  [content |-> content, state |-> "draft", version |-> 1,
   createdBy |-> author, reviewedBy |-> Null]

Editable == {"draft", "rework"}

\* scenarioTransitions of scenario_state.go.
Transitions ==
  {<<"draft", "analyzed">>, <<"analyzed", "verified">>, <<"analyzed", "rework">>,
   <<"verified", "accepted">>, <<"verified", "rework">>, <<"rework", "analyzed">>}

\* Fault: the table is searched for the target only.
FaultyCanTransition(from, to) == \E step \in Transitions : step[2] = to

CanTransition(from, to) == <<from, to>> \in Transitions

IsReview(to) == to \in {"verified", "accepted"}

\* analyzed is for engineers, everything else a client may ask for is for
\* reviewers.
MayRequest(u, to) == u \in (IF to = "analyzed" THEN Engineers ELSE Reviewers)

\* Fault: only the first of the two review steps is separated.
FaultyReviewerSeparated(row, to, u) == to = "verified" => row.createdBy # u

ReviewerSeparated(row, to, u) == IsReview(to) => row.createdBy # u

\* Fault: the pointer that is nil overwrites, the one that is set does not.
FaultyOverlay(content, edit) ==
  [f \in Fields |-> IF edit[f] # Null THEN content[f]
                    ELSE CHOOSE v \in Values : v # content[f]]

\* The request's fields laid over the scenario as it was read.
Overlay(content, edit) ==
  [f \in Fields |-> IF edit[f] # Null THEN edit[f] ELSE content[f]]

\* Fault: WHERE id = s AND scenario_state IN states, without the version.
FaultyMatches(s, states, version) == rows[s].state \in states

\* WHERE id = s AND scenario_state IN states AND version = version.
Matches(s, states, version) ==
  rows[s].state \in states /\ rows[s].version = version

\* Fault: the version is left alone.
FaultyUpdated(row, content, version) == [row EXCEPT !.content = content]

\* SET of UpdateWithVersion: the six fields and the version.
Updated(row, content, version) ==
  [row EXCEPT !.content = content, !.version = version + 1]

\* Fault: every transition names its actor as the reviewer.
FaultyMoved(row, to, version, u) ==
  [row EXCEPT !.state = to, !.version = version + 1, !.reviewedBy = u]

\* SET of Transition: reviewed_by only when the step is a review.
Moved(row, to, version, u) ==
  [row EXCEPT !.state = to, !.version = version + 1,
              !.reviewedBy = IF IsReview(to) THEN u ELSE row.reviewedBy]

Init ==
  /\ rows = [s \in ScenarioIds |-> Null]
  /\ request = [r \in Requests |-> Idle]
  /\ audits = {}
----------------------------------------------------------------------------
(* Arrival.  The page has loaded the scenario before, at any time since the *)
(* version it sends was current; it sends what it loaded, and its change.   *)
BeginCreate(r) ==
  /\ request[r].pc = "idle"
  /\ \E u \in Engineers, c \in Content :
       request' = [request EXCEPT ![r] =
         [Idle EXCEPT !.op = "create", !.pc = "insert", !.actor = u, !.edit = c]]
  /\ UNCHANGED <<rows, audits>>

\* The form is filled from the list.  The page offers it in draft and rework
\* and sends every field; the service relies on neither.
OpenForm(r) ==
  /\ request[r].pc = "idle"
  /\ \E u \in Engineers, s \in ScenarioIds :
       /\ rows[s] # Null
       /\ request' = [request EXCEPT ![r] =
            [Idle EXCEPT !.op = "update", !.pc = "form", !.actor = u, !.scenario = s,
                         !.seen = rows[s], !.form = rows[s].content]]
  /\ UNCHANGED <<rows, audits>>

\* An answer to a list request made by a refresh or after another change
\* replaces the list under the open form.
LoadList(r) ==
  /\ request[r].pc = "form"
  /\ request' = [request EXCEPT ![r].seen = rows[request[r].scenario]]
  /\ UNCHANGED <<rows, audits>>

\* The version that is sent is looked up in the list on saving.
SaveForm(r) ==
  /\ request[r].pc = "form"
  /\ request[r].seen.version < MaxVersion
  /\ \E edit \in Edits :
       request' = [request EXCEPT ![r].pc = "read", ![r].edit = edit]
  /\ UNCHANGED <<rows, audits>>

CancelForm(r) ==
  /\ request[r].pc = "form"
  /\ Finish(r)
  /\ UNCHANGED <<rows, audits>>

BeginTransition(r) ==
  /\ request[r].pc = "idle"
  /\ \E u \in Engineers \cup Reviewers, s \in ScenarioIds, to \in States \ {"draft"} :
       /\ rows[s] # Null /\ rows[s].version < MaxVersion
       /\ request' = [request EXCEPT ![r] =
            [Idle EXCEPT !.op = "transition", !.pc = "read", !.actor = u,
                         !.scenario = s, !.seen = rows[s], !.to = to]]
  /\ UNCHANGED <<rows, audits>>
----------------------------------------------------------------------------
(* Create: the node's row is read first and may turn the request away; the  *)
(* process nodes have a module of their own.                                *)
NodeRefuses(r) ==
  /\ request[r].pc = "insert"
  /\ Finish(r)
  /\ UNCHANGED <<rows, audits>>

InsertScenario(r) ==
  /\ request[r].pc = "insert"
  /\ \E s \in ScenarioIds :
       /\ rows[s] = Null
       /\ LET row == NewRow(request[r].edit, request[r].actor) IN
            /\ rows' = [rows EXCEPT ![s] = row]
            /\ request' = [request EXCEPT ![r].pc = "audit",
                             ![r].scenario = s, ![r].after = row]
  /\ UNCHANGED audits
----------------------------------------------------------------------------
(* Update and transition: read and check, then one conditional update.      *)
ReadForUpdate(r) ==
  /\ request[r].pc = "read"
  /\ request[r].op = "update"
  /\ LET row == rows[request[r].scenario] IN
       IF row.state \in Editable
         THEN request' = [request EXCEPT ![r].pc = "write", ![r].before = row]
         ELSE BackToForm(r)
  /\ UNCHANGED <<rows, audits>>

\* The content written, and the audit's copy, are made from the row as read.
UpdateWithVersion(r) ==
  /\ request[r].pc = "write"
  /\ request[r].op = "update"
  /\ LET s == request[r].scenario
         v == request[r].seen.version
         old == request[r].before
         content == Overlay(old.content, request[r].edit)
     IN  IF Matches(s, Editable, v)
           THEN /\ rows' = [rows EXCEPT ![s] = Updated(rows[s], content, v)]
                /\ request' = [request EXCEPT ![r].pc = "audit",
                                 ![r].after = Updated(old, content, v)]
           ELSE BackToForm(r) /\ UNCHANGED rows
  /\ UNCHANGED audits

ReadForTransition(r) ==
  /\ request[r].pc = "read"
  /\ request[r].op = "transition"
  /\ LET row == rows[request[r].scenario]
         to == request[r].to
         u == request[r].actor
     IN  IF MayRequest(u, to) /\ CanTransition(row.state, to)
              /\ ReviewerSeparated(row, to, u)
           THEN request' = [request EXCEPT ![r].pc = "write", ![r].before = row]
           ELSE Finish(r)
  /\ UNCHANGED <<rows, audits>>

Transition(r) ==
  /\ request[r].pc = "write"
  /\ request[r].op = "transition"
  /\ LET s == request[r].scenario
         v == request[r].seen.version
         old == request[r].before
         to == request[r].to
         u == request[r].actor
     IN  IF Matches(s, {old.state}, v)
           THEN /\ rows' = [rows EXCEPT ![s] = Moved(rows[s], to, v, u)]
                /\ request' = [request EXCEPT ![r].pc = "audit",
                                 ![r].after = Moved(old, to, v, u)]
           ELSE Finish(r) /\ UNCHANGED rows
  /\ UNCHANGED audits

\* Fault: the copy that was changed is taken for the one that was read.
FaultyAuditOf(q) ==
  [action |-> q.op, scenario |-> q.scenario, actor |-> q.actor,
   before |-> q.before, after |-> IF q.op = "update" THEN q.before ELSE q.after]

AuditOf(q) ==
  [action |-> q.op, scenario |-> q.scenario, actor |-> q.actor,
   before |-> q.before, after |-> q.after]

\* The audit row is a statement of its own, after the change it describes.
RecordAudit(r) ==
  /\ request[r].pc = "audit"
  /\ audits' = audits \cup {AuditOf(request[r])}
  /\ Finish(r)
  /\ UNCHANGED rows

\* The caller disconnects, a statement fails, or the process stops.
Interrupt(r) ==
  /\ request[r].pc \in Interruptible
  /\ Finish(r)
  /\ UNCHANGED <<rows, audits>>

Next == \E r \in Requests :
  \/ BeginCreate(r) \/ BeginTransition(r)
  \/ OpenForm(r) \/ LoadList(r) \/ SaveForm(r) \/ CancelForm(r)
  \/ NodeRefuses(r) \/ InsertScenario(r)
  \/ ReadForUpdate(r) \/ UpdateWithVersion(r)
  \/ ReadForTransition(r) \/ Transition(r)
  \/ RecordAudit(r) \/ Interrupt(r)

Spec == Init /\ [][Next]_vars
----------------------------------------------------------------------------
(* Properties.                                                              *)

\* Every row, request and audit entry has the shape its table or handler
\* gives it.
TypeOK ==
  /\ rows \in [ScenarioIds -> Row \cup {Null}]
  /\ request \in [Requests -> Request]
  /\ audits \subseteq Audit

\* Read and write are two statements, and the client's view is older still;
\* yet a change that passes the version check applies to exactly the scenario
\* the client had in front of it and the service had checked.
ChangesWhatWasSeen ==
  \A r \in Requests :
    request[r].pc = "write" /\ rows[request[r].scenario].version = request[r].seen.version
      => /\ rows[request[r].scenario] = request[r].seen
         /\ rows[request[r].scenario] = request[r].before

\* The reviewer of record is never the author, through rework and a second
\* review as well, and no scenario is past its review without one.
ReviewIndependent ==
  \A s \in ScenarioIds :
    rows[s] # Null =>
      /\ rows[s].reviewedBy # Null =>
           rows[s].reviewedBy \in Reviewers \ {rows[s].createdBy}
      /\ IsReview(rows[s].state) => rows[s].reviewedBy # Null

\* An update changes the fields it names and no other: none that a racing
\* update wrote between the read and the UPDATE of this one is lost.
EditsOnlyNamedFields ==
  [][\A r \in Requests :
       /\ request[r].pc = "write" /\ request'[r].pc = "audit"
       /\ request[r].op = "update"
       => \A f \in Fields :
            rows'[request[r].scenario].content[f] =
              IF request[r].edit[f] # Null THEN request[r].edit[f]
              ELSE rows[request[r].scenario].content[f]]_vars

\* What was analyzed is what gets verified and accepted: content moves only
\* in draft and rework, a step changes content or state but never both, each
\* takes one version, and an accepted scenario does not change again.
ReviewedAsSubmitted(old, new) ==
  \/ new = old
  \/ old = Null /\ new.state = "draft" /\ new.version = 1
  \/ /\ old # Null /\ new # Null
     /\ new.version = old.version + 1
     /\ new.createdBy = old.createdBy
     /\ \/ /\ new.state = old.state
           /\ old.state \in {"draft", "rework"}
           /\ new.reviewedBy = old.reviewedBy
        \/ /\ new.content = old.content
           /\ <<old.state, new.state>> \in
                {<<"draft", "analyzed">>, <<"rework", "analyzed">>,
                 <<"analyzed", "verified">>, <<"verified", "accepted">>,
                 <<"analyzed", "rework">>, <<"verified", "rework">>}

ReviewProcess ==
  [][\A s \in ScenarioIds : ReviewedAsSubmitted(rows[s], rows'[s])]_vars

\* The entries of a scenario form one chain, whatever order they were written
\* in: a version has at most one entry, each starts from what the one before
\* it left, and the entry of the current version shows the current row.
AuditChain ==
  \A a, b \in audits :
    a.scenario = b.scenario =>
      /\ a.after.version = b.after.version => a = b
      /\ b.before # Null /\ a.after.version = b.before.version => a.after = b.before
      /\ a.after.version = rows[a.scenario].version => a.after = rows[a.scenario]

\* Unless a request is cut short right before its audit entry, every version
\* of every scenario is in the audit trail or about to be written by the
\* request that made it.
EveryVersionAudited ==
  \A s \in ScenarioIds :
    rows[s] # Null =>
      \A v \in 1 .. rows[s].version :
        \/ \E a \in audits : a.scenario = s /\ a.after.version = v
        \/ \E r \in Requests :
             /\ request[r].pc = "audit" /\ request[r].scenario = s
             /\ request[r].after.version = v

\* "scenario version or state changed concurrently": a save that is accepted
\* replaces the content its form was filled with.
SavesOverWhatWasShown ==
  [][\A r \in Requests :
       /\ request[r].pc = "write" /\ request'[r].pc = "audit"
       /\ request[r].op = "update"
       => rows[request[r].scenario].content = request[r].form]_vars
============================================================================
