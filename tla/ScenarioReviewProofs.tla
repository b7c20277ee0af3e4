------------------------ MODULE ScenarioReviewProofs ------------------------
(* Theorems about ScenarioReview for every set of requests, scenarios,      *)
(* users, fields and values, wherever a request may be interrupted.         *)
EXTENDS ScenarioReviewRefines, TLAPS

(* What a request knows at each of its program counters.  The copies it     *)
(* holds are versions the row has had: one that still has the row's version *)
(* is the row.                                                              *)
IsVersionOf(copy, s) ==
  /\ copy \in Row
  /\ copy.version <= rows[s].version
  /\ copy.version = rows[s].version => copy = rows[s]

RequestOK(r) ==
  LET q == request[r]
      s == q.scenario
  IN
  /\ q.pc # "idle" =>
       q.actor \in Users /\ q.op \in {"create", "update", "transition"}
  /\ q.pc = "insert" =>
       /\ q.op = "create" /\ q.actor \in Engineers /\ q.edit \in Content
       /\ q.before = Null
  /\ q.pc \in {"form", "read", "write"} =>
       /\ s \in ScenarioIds /\ rows[s] # Null
       /\ IsVersionOf(q.seen, s)
       /\ q.op # "create"
  /\ q.pc = "form" => q.op = "update"
  /\ q.pc \in {"read", "write"} =>
       /\ q.seen.version < MaxVersion
       /\ q.op = "update" => q.edit \in Edits
       /\ q.op = "transition" => q.to \in States
  /\ q.pc = "write" =>
       /\ IsVersionOf(q.before, s) /\ q.seen.version <= q.before.version
       /\ q.op = "update" => q.before.state \in Editable
       /\ q.op = "transition" =>
            /\ MayRequest(q.actor, q.to) /\ CanTransition(q.before.state, q.to)
            /\ ReviewerSeparated(q.before, q.to, q.actor)
  /\ q.pc = "audit" => s \in ScenarioIds /\ q.after \in Row

TypeInv == TypeOK /\ \A r \in Requests : RequestOK(r)

\* An idle request record is well typed.
LEMMA IdleType == Idle \in Request
BY DEF Idle, Request, Statements

\* What the type invariant says of one request, spelled out.
LEMMA TypeFacts ==
  ASSUME TypeInv, NEW r \in Requests
  PROVE  /\ rows \in [ScenarioIds -> Row \cup {Null}]
         /\ request \in [Requests -> Request]
         /\ audits \subseteq Audit
         /\ request[r] \in Request
         /\ RequestOK(r)
         /\ \A s \in ScenarioIds : rows[s] # Null => rows[s] \in Row
BY DEF TypeInv, TypeOK

\* At the start no row exists and every request is idle.
LEMMA TypeInvInit == Init => TypeInv
BY IdleType DEF Init, TypeInv, TypeOK, RequestOK, Idle

\* A row never disappears, and keeps its version only by staying the same.
Advances ==
  \A s \in ScenarioIds :
    rows[s] # Null =>
      /\ rows'[s] # Null
      /\ rows'[s] = rows[s] \/ rows'[s].version > rows[s].version

\* A copy that was a version of the row remains one.
LEMMA VersionKept ==
  ASSUME TypeInv, rows' \in [ScenarioIds -> Row \cup {Null}], Advances,
         NEW s \in ScenarioIds, rows[s] # Null, NEW copy, IsVersionOf(copy, s)
  PROVE  /\ copy \in Row
         /\ copy.version <= rows'[s].version
         /\ copy.version = rows'[s].version => copy = rows'[s]
<1>1. rows[s] \in Row /\ rows'[s] \in Row
  BY DEF TypeInv, TypeOK, Advances
<1>2. /\ copy.version \in Nat /\ rows[s].version \in Nat /\ rows'[s].version \in Nat
  BY <1>1, VersionAssumption DEF IsVersionOf, Row
<1>. QED BY <1>2 DEF IsVersionOf, Advances

\* What one step of request r has to show: its new record, the new table, and
\* that the table advances; the other requests follow.
LEMMA TypeInvStep ==
  ASSUME TypeInv, NEW r \in Requests, NEW q \in Request,
         request' = [request EXCEPT ![r] = q],
         rows' \in [ScenarioIds -> Row \cup {Null}], Advances,
         audits' \subseteq Audit,
         RequestOK(r)'
  PROVE  TypeInv'
<1>1. TypeOK'
  BY DEF TypeInv, TypeOK
<1>2. ASSUME NEW p \in Requests PROVE RequestOK(p)'
  <2>1. CASE p = r
    BY <2>1
  <2>2. CASE p # r
    <3>1. request'[p] = request[p] /\ RequestOK(p)
      BY <2>2 DEF TypeInv, TypeOK
    <3>2. CASE request[p].pc \notin {"form", "read", "write"}
      BY <3>1, <3>2 DEF RequestOK
    <3>3. CASE request[p].pc \in {"form", "read", "write"}
      <4>. DEFINE s == request[p].scenario
      <4>1. s \in ScenarioIds /\ rows[s] # Null /\ rows'[s] # Null
        BY <3>1, <3>3 DEF RequestOK, Advances
      <4>2. /\ request[p].seen \in Row
            /\ request[p].seen.version <= rows'[s].version
            /\ request[p].seen.version = rows'[s].version => request[p].seen = rows'[s]
        BY <3>1, <3>3, <4>1, VersionKept DEF RequestOK
      <4>3. request[p].pc = "write" =>
              /\ request[p].before \in Row
              /\ request[p].before.version <= rows'[s].version
              /\ request[p].before.version = rows'[s].version => request[p].before = rows'[s]
        BY <3>1, <3>3, <4>1, VersionKept DEF RequestOK
      <4>. QED BY <3>1, <3>3, <4>1, <4>2, <4>3 DEF RequestOK, IsVersionOf
    <3>. QED BY <3>2, <3>3
  <2>. QED BY <2>1, <2>2
<1>. QED BY <1>1, <1>2 DEF TypeInv

\* The table standing still is an advance.
LEMMA StillAdvances ==
  ASSUME TypeInv, UNCHANGED rows
  PROVE  Advances /\ rows' \in [ScenarioIds -> Row \cup {Null}]
BY DEF Advances, TypeInv, TypeOK

\* Answering.
LEMMA TypeInvFinish ==
  ASSUME TypeInv, NEW r \in Requests, Finish(r), UNCHANGED rows,
         audits' \subseteq Audit
  PROVE  TypeInv'
<1>1. request' = [request EXCEPT ![r] = Idle]
  BY DEF Finish
<1>2. RequestOK(r)'
  BY <1>1 DEF RequestOK, Idle, TypeInv, TypeOK
<1>. QED BY <1>1, <1>2, IdleType, TypeInvStep, StillAdvances

\* Beginning a request: the row the client loaded is a version of the row.
LEMMA TypeInvBegin ==
  ASSUME TypeInv, NEW r \in Requests,
         BeginCreate(r) \/ BeginTransition(r)
  PROVE  TypeInv'
<1>. USE TypeFacts
<1>0. UNCHANGED <<rows, audits>> /\ audits \subseteq Audit
  BY DEF BeginCreate, BeginTransition
<1>1. CASE BeginCreate(r)
  <2>1. PICK u \in Engineers, c \in Content :
          request' = [request EXCEPT ![r] =
            [Idle EXCEPT !.op = "create", !.pc = "insert", !.actor = u, !.edit = c]]
    BY <1>1 DEF BeginCreate
  <2>. DEFINE q == [Idle EXCEPT !.op = "create", !.pc = "insert", !.actor = u, !.edit = c]
  <2>2. u \in Users /\ c \in Edits
    BY RoleAssumption DEF Content, Edits
  <2>3. q \in Request
    BY <2>2, IdleType DEF Request, Idle, Statements
  <2>4. RequestOK(r)'
    BY <2>1, <2>2 DEF RequestOK, Idle
  <2>. QED BY <1>0, <2>1, <2>3, <2>4, TypeInvStep, StillAdvances
<1>2. CASE BeginTransition(r)
  <2>1. PICK u \in Engineers \cup Reviewers, s \in ScenarioIds, to \in States :
          /\ rows[s] # Null /\ rows[s].version < MaxVersion
          /\ request' = [request EXCEPT ![r] =
               [Idle EXCEPT !.op = "transition", !.pc = "read", !.actor = u,
                            !.scenario = s, !.seen = rows[s], !.to = to]]
    BY <1>2 DEF BeginTransition
  <2>. DEFINE q == [Idle EXCEPT !.op = "transition", !.pc = "read", !.actor = u,
                     !.scenario = s, !.seen = rows[s], !.to = to]
  <2>2. u \in Users /\ rows[s] \in Row /\ rows[s].version \in Nat
    BY <2>1, RoleAssumption, VersionAssumption DEF Row
  <2>3. q \in Request
    BY <2>2, IdleType DEF Request, Idle, Statements
  <2>4. /\ request'[r].op = "transition" /\ request'[r].pc = "read"
        /\ request'[r].actor = u /\ request'[r].scenario = s
        /\ request'[r].seen = rows[s] /\ request'[r].to = to
    BY <2>1 DEF Idle
  <2>5. RequestOK(r)'
    BY <1>0, <2>1, <2>2, <2>4 DEF RequestOK, IsVersionOf
  <2>. QED BY <1>0, <2>1, <2>3, <2>5, TypeInvStep, StillAdvances
<1>. QED BY <1>1, <1>2

\* The edit form: what the list holds is a version of the row whenever the
\* form is opened over it or an answer replaces it.
LEMMA TypeInvForm ==
  ASSUME TypeInv, NEW r \in Requests, OpenForm(r) \/ LoadList(r) \/ SaveForm(r)
  PROVE  TypeInv'
<1>. USE TypeFacts
<1>0. UNCHANGED <<rows, audits>> /\ audits \subseteq Audit
  BY DEF OpenForm, LoadList, SaveForm
<1>1. CASE OpenForm(r)
  <2>1. PICK u \in Engineers, s \in ScenarioIds :
          /\ rows[s] # Null
          /\ request' = [request EXCEPT ![r] =
               [Idle EXCEPT !.op = "update", !.pc = "form", !.actor = u, !.scenario = s,
                            !.seen = rows[s], !.form = rows[s].content]]
    BY <1>1 DEF OpenForm
  <2>. DEFINE q == [Idle EXCEPT !.op = "update", !.pc = "form", !.actor = u,
                     !.scenario = s, !.seen = rows[s], !.form = rows[s].content]
  <2>2. u \in Users /\ rows[s] \in Row /\ rows[s].version \in Nat
    BY <2>1, RoleAssumption, VersionAssumption DEF Row
  <2>3. q \in Request
    <3>1. rows[s].content \in Content
      BY <2>2 DEF Row
    <3>. QED BY <2>2, <3>1, IdleType DEF Request, Idle, Statements
  <2>4. /\ request'[r].op = "update" /\ request'[r].pc = "form"
        /\ request'[r].actor = u /\ request'[r].scenario = s
        /\ request'[r].seen = rows[s]
    BY <2>1 DEF Idle
  <2>5. RequestOK(r)'
    BY <1>0, <2>1, <2>2, <2>4 DEF RequestOK, IsVersionOf
  <2>. QED BY <1>0, <2>1, <2>3, <2>5, TypeInvStep, StillAdvances
<1>. DEFINE s == request[r].scenario
            w == rows[s]
<1>2. CASE LoadList(r)
  <2>. DEFINE q == [request[r] EXCEPT !.seen = w]
  <2>1. request[r].pc = "form" /\ request' = [request EXCEPT ![r] = q]
    BY <1>2 DEF LoadList, Request
  <2>2. s \in ScenarioIds /\ w # Null /\ w \in Row /\ w.version \in Nat
    BY <2>1, VersionAssumption DEF RequestOK, Row
  <2>3. q \in Request
    BY <2>2 DEF Request
  <2>4. /\ request'[r].op = "update" /\ request'[r].pc = "form"
        /\ request'[r].actor = request[r].actor /\ request'[r].scenario = s
        /\ request'[r].seen = w
    BY <2>1 DEF Request, RequestOK
  <2>5. RequestOK(r)'
    BY <1>0, <2>1, <2>2, <2>4 DEF RequestOK, IsVersionOf
  <2>. QED BY <1>0, <2>1, <2>3, <2>5, TypeInvStep, StillAdvances
<1>3. CASE SaveForm(r)
  <2>1. PICK edit \in Edits :
          request' = [request EXCEPT ![r].pc = "read", ![r].edit = edit]
    BY <1>3 DEF SaveForm
  <2>. DEFINE q == [request[r] EXCEPT !.pc = "read", !.edit = edit]
  <2>2. request[r].pc = "form" /\ request' = [request EXCEPT ![r] = q]
    BY <1>3, <2>1 DEF SaveForm, Request
  <2>3. q \in Request
    BY DEF Request, Statements
  <2>4. /\ request'[r].op = "update" /\ request'[r].pc = "read"
        /\ request'[r].actor = request[r].actor /\ request'[r].scenario = s
        /\ request'[r].seen = request[r].seen /\ request'[r].edit = edit
    BY <2>2 DEF Request, RequestOK
  <2>5. request[r].seen.version < MaxVersion
    BY <1>3 DEF SaveForm
  <2>6. RequestOK(r)'
    BY <1>0, <2>2, <2>4, <2>5 DEF RequestOK, IsVersionOf
  <2>. QED BY <1>0, <2>2, <2>3, <2>6, TypeInvStep, StillAdvances
<1>. QED BY <1>1, <1>2, <1>3

\* A refused update is back at its form.
LEMMA TypeInvBack ==
  ASSUME TypeInv, NEW r \in Requests, BackToForm(r), UNCHANGED <<rows, audits>>,
         request[r].pc \in {"read", "write"}, request[r].op = "update"
  PROVE  TypeInv'
<1>. USE TypeFacts
<1>. DEFINE q == [request[r] EXCEPT !.pc = "form", !.edit = Null, !.before = Null]
<1>1. request' = [request EXCEPT ![r] = q]
  BY DEF BackToForm, Request
<1>2. q \in Request
  BY DEF Request
<1>3. /\ request'[r].op = "update" /\ request'[r].pc = "form"
      /\ request'[r].actor = request[r].actor
      /\ request'[r].scenario = request[r].scenario
      /\ request'[r].seen = request[r].seen
  BY <1>1 DEF Request
<1>4. RequestOK(r)'
  BY <1>1, <1>3 DEF RequestOK, IsVersionOf
<1>. QED BY <1>1, <1>2, <1>4, TypeInvStep, StillAdvances

\* Reading: the copy is the row, and passed the checks.
LEMMA TypeInvRead ==
  ASSUME TypeInv, NEW r \in Requests, ReadForUpdate(r) \/ ReadForTransition(r)
  PROVE  TypeInv'
<1>. USE TypeFacts
<1>. DEFINE s == request[r].scenario
            q == [request[r] EXCEPT !.pc = "write", !.before = rows[s]]
<1>1. UNCHANGED <<rows, audits>> /\ request[r].pc = "read" /\ audits \subseteq Audit
  BY DEF ReadForUpdate, ReadForTransition
<1>2. CASE Finish(r)
  BY <1>1, <1>2, TypeInvFinish
<1>4. CASE BackToForm(r) /\ request[r].op = "update"
  BY <1>1, <1>4, TypeInvBack
<1>3. CASE /\ request' = [request EXCEPT ![r].pc = "write", ![r].before = rows[s]]
           /\ \/ request[r].op = "update" /\ rows[s].state \in Editable
              \/ /\ request[r].op = "transition"
                 /\ MayRequest(request[r].actor, request[r].to)
                 /\ CanTransition(rows[s].state, request[r].to)
                 /\ ReviewerSeparated(rows[s], request[r].to, request[r].actor)
  <2>1. s \in ScenarioIds /\ rows[s] # Null /\ rows[s] \in Row /\ rows[s].version \in Nat
    BY <1>1, VersionAssumption DEF RequestOK, Row
  <2>2. request' = [request EXCEPT ![r] = q]
    BY <1>3 DEF Request
  <2>3. q \in Request
    BY <2>1 DEF Request, Statements
  <2>. DEFINE w == rows[s]
  <2>4. /\ request'[r].op = request[r].op /\ request'[r].pc = "write"
        /\ request'[r].actor = request[r].actor /\ request'[r].scenario = s
        /\ request'[r].seen = request[r].seen /\ request'[r].edit = request[r].edit
        /\ request'[r].to = request[r].to /\ request'[r].before = w
    BY <2>2 DEF Request
  <2>5. RequestOK(r)'
    BY <1>1, <1>3, <2>1, <2>4 DEF RequestOK, IsVersionOf
  <2>. QED BY <1>1, <2>2, <2>3, <2>5, TypeInvStep, StillAdvances
<1>. QED BY <1>2, <1>3, <1>4 DEF ReadForUpdate, ReadForTransition

\* The version decides: what passes the check of the conditional UPDATE is the
\* row the client had loaded and the row the service had read.
LEMMA CheckedRow ==
  ASSUME TypeInv, NEW r \in Requests, request[r].pc = "write",
         rows[request[r].scenario].version = request[r].seen.version
  PROVE  /\ request[r].scenario \in ScenarioIds
         /\ rows[request[r].scenario] \in Row /\ rows[request[r].scenario] # Null
         /\ rows[request[r].scenario].version \in Nat
         /\ rows[request[r].scenario].version < MaxVersion
         /\ rows[request[r].scenario].version + 1 \in 1 .. MaxVersion
         /\ rows[request[r].scenario] = request[r].seen
         /\ rows[request[r].scenario] = request[r].before
<1>. USE TypeFacts
<1>1. /\ request[r].scenario \in ScenarioIds
      /\ rows[request[r].scenario] \in Row /\ rows[request[r].scenario] # Null
      /\ request[r].before \in Row
  BY DEF RequestOK, IsVersionOf
<1>2. /\ rows[request[r].scenario].version \in 1 .. MaxVersion
      /\ request[r].before.version \in Nat
  BY <1>1, VersionAssumption DEF Row
<1>3. /\ request[r].seen.version < MaxVersion
      /\ request[r].seen.version <= request[r].before.version
      /\ request[r].before.version <= rows[request[r].scenario].version
  BY DEF RequestOK, IsVersionOf
<1>4. request[r].before.version = rows[request[r].scenario].version
  BY <1>2, <1>3
<1>. QED BY <1>1, <1>2, <1>3, <1>4, VersionAssumption DEF RequestOK, IsVersionOf

\* The two SET lists give rows of the table.
LEMMA UpdatedType ==
  ASSUME NEW row \in Row, NEW c \in Content, row.version + 1 \in 1 .. MaxVersion
  PROVE  Updated(row, c, row.version) \in Row
BY DEF Updated, Row

\* A transition leaves a well-typed row.
LEMMA MovedType ==
  ASSUME NEW row \in Row, NEW to \in States, NEW u \in Users,
         row.version + 1 \in 1 .. MaxVersion
  PROVE  Moved(row, to, row.version, u) \in Row
<1>. DEFINE rev == IF IsReview(to) THEN u ELSE row.reviewedBy
<1>1. rev \in Users \cup {Null}
  BY DEF Row
<1>. HIDE DEF rev
<1>2. Moved(row, to, row.version, u) =
        [row EXCEPT !.state = to, !.version = row.version + 1, !.reviewedBy = rev]
  BY DEF Moved, rev
<1>. QED BY <1>1, <1>2 DEF Row

\* Content laid over with an update's fields is content.
LEMMA OverlayType ==
  ASSUME NEW c \in Content, NEW edit \in Edits
  PROVE  Overlay(c, edit) \in Content
BY DEF Overlay, Content, Edits

(* What one step does to the table.                                         *)
Inserted(s) ==
  /\ rows[s] = Null
  /\ \E u \in Engineers, c \in Content : rows' = [rows EXCEPT ![s] = NewRow(c, u)]

Edited(s, c) ==
  /\ rows[s] # Null /\ rows[s].state \in Editable /\ rows[s].version < MaxVersion
  /\ rows' = [rows EXCEPT ![s] = Updated(rows[s], c, rows[s].version)]

MovedBy(s, to, u) ==
  /\ rows[s] # Null /\ rows[s].version < MaxVersion
  /\ MayRequest(u, to) /\ CanTransition(rows[s].state, to)
  /\ ReviewerSeparated(rows[s], to, u)
  /\ rows' = [rows EXCEPT ![s] = Moved(rows[s], to, rows[s].version, u)]

\* A successful UPDATE of UpdateWithVersion.
LEMMA UpdateStep ==
  ASSUME TypeInv, NEW r \in Requests, UpdateWithVersion(r),
         Matches(request[r].scenario, Editable, request[r].seen.version)
  PROVE  /\ Overlay(rows[request[r].scenario].content, request[r].edit) \in Content
         /\ Edited(request[r].scenario,
                   Overlay(rows[request[r].scenario].content, request[r].edit))
         /\ request' = [request EXCEPT ![r].pc = "audit",
              ![r].after = rows'[request[r].scenario]]
         /\ rows'[request[r].scenario] \in Row
         /\ rows'[request[r].scenario].version = rows[request[r].scenario].version + 1
<1>. USE TypeFacts
<1>. DEFINE s == request[r].scenario
            c == Overlay(rows[s].content, request[r].edit)
            w == Updated(rows[s], c, rows[s].version)
<1>1. /\ request[r].pc = "write" /\ request[r].op = "update"
      /\ rows[s].version = request[r].seen.version /\ rows[s].state \in Editable
  BY DEF UpdateWithVersion, Matches
<1>2. /\ s \in ScenarioIds /\ rows[s] \in Row /\ rows[s] # Null
      /\ rows[s].version < MaxVersion /\ rows[s].version + 1 \in 1 .. MaxVersion
      /\ rows[s] = request[r].before
  BY <1>1, CheckedRow
<1>3. c \in Content
  BY <1>1, <1>2, OverlayType DEF RequestOK, Row
<1>4. /\ rows' = [rows EXCEPT ![s] = w]
      /\ request' = [request EXCEPT ![r].pc = "audit", ![r].after = w]
  BY <1>1, <1>2 DEF UpdateWithVersion
<1>5. w \in Row /\ w.version = rows[s].version + 1
  <2>. HIDE DEF c
  <2>1. w \in Row
    BY <1>2, <1>3, UpdatedType
  <2>2. w.version = rows[s].version + 1
    BY <1>2 DEF Updated, Row
  <2>. QED BY <2>1, <2>2
<1>6. rows'[s] = w
  BY <1>2, <1>4
<1>. QED BY <1>1, <1>2, <1>3, <1>4, <1>5, <1>6 DEF Edited

\* A successful UPDATE of Transition.
LEMMA TransitionStep ==
  ASSUME TypeInv, NEW r \in Requests, Transition(r),
         Matches(request[r].scenario, {request[r].before.state}, request[r].seen.version)
  PROVE  /\ request[r].to \in States /\ request[r].actor \in Users
         /\ MovedBy(request[r].scenario, request[r].to, request[r].actor)
         /\ request' = [request EXCEPT ![r].pc = "audit",
              ![r].after = rows'[request[r].scenario]]
         /\ rows'[request[r].scenario] \in Row
         /\ rows'[request[r].scenario].version = rows[request[r].scenario].version + 1
<1>. USE TypeFacts
<1>. DEFINE s == request[r].scenario
            w == Moved(rows[s], request[r].to, rows[s].version, request[r].actor)
<1>1. /\ request[r].pc = "write" /\ request[r].op = "transition"
      /\ rows[s].version = request[r].seen.version
  BY DEF Transition, Matches
<1>2. /\ s \in ScenarioIds /\ rows[s] \in Row /\ rows[s] # Null
      /\ rows[s].version < MaxVersion /\ rows[s].version + 1 \in 1 .. MaxVersion
      /\ rows[s] = request[r].before
  BY <1>1, CheckedRow
<1>3. request[r].to \in States /\ request[r].actor \in Users
  BY <1>1 DEF RequestOK
<1>4. /\ rows' = [rows EXCEPT ![s] = w]
      /\ request' = [request EXCEPT ![r].pc = "audit", ![r].after = w]
  BY <1>1, <1>2 DEF Transition
<1>5. w \in Row
  BY <1>2, <1>3, MovedType
<1>6. w.version = rows[s].version + 1
  BY <1>2 DEF Moved, Row
<1>7. rows'[s] = w
  BY <1>2, <1>4
<1>8. MovedBy(s, request[r].to, request[r].actor)
  BY <1>1, <1>2, <1>4 DEF MovedBy, RequestOK
<1>. QED BY <1>3, <1>4, <1>5, <1>6, <1>7, <1>8

\* A change moves request r on to its audit entry.
LEMMA TypeInvChanged ==
  ASSUME TypeInv, NEW r \in Requests, NEW s \in ScenarioIds, NEW w \in Row,
         request[r].pc \in {"insert", "write"},
         rows[s] # Null => w.version = rows[s].version + 1,
         rows' = [rows EXCEPT ![s] = w], UNCHANGED audits,
         request' = [request EXCEPT ![r].pc = "audit", ![r].scenario = s,
                                    ![r].after = w]
  PROVE  TypeInv'
<1>. USE TypeFacts
<1>. DEFINE q == [request[r] EXCEPT !.pc = "audit", !.scenario = s, !.after = w]
<1>1. w # Null /\ rows'[s] = w
  BY NullAssumption
<1>2. rows' \in [ScenarioIds -> Row \cup {Null}]
  BY <1>1
<1>3. Advances
  <2>1. rows[s] # Null => rows[s].version \in Nat
    BY VersionAssumption DEF Row
  <2>. QED BY <1>1, <2>1 DEF Advances
<1>4. request' = [request EXCEPT ![r] = q]
  BY DEF Request
<1>5. q \in Request
  BY DEF Request, Statements
<1>6. /\ request'[r].pc = "audit" /\ request'[r].scenario = s /\ request'[r].after = w
      /\ request'[r].actor = request[r].actor /\ request'[r].op = request[r].op
  BY <1>4 DEF Request
<1>7. request[r].actor \in Users /\ request[r].op \in {"create", "update", "transition"}
  BY DEF RequestOK
<1>8. RequestOK(r)'
  BY <1>6, <1>7 DEF RequestOK
<1>. QED BY <1>2, <1>3, <1>4, <1>5, <1>8, TypeInvStep

\* The statements that change the table.
LEMMA TypeInvWrite ==
  ASSUME TypeInv, NEW r \in Requests,
         InsertScenario(r) \/ UpdateWithVersion(r) \/ Transition(r)
  PROVE  TypeInv'
<1>. USE TypeFacts
<1>1. CASE InsertScenario(r)
  <2>1. PICK s \in ScenarioIds :
          /\ rows[s] = Null
          /\ rows' = [rows EXCEPT ![s] = NewRow(request[r].edit, request[r].actor)]
          /\ request' = [request EXCEPT ![r].pc = "audit", ![r].scenario = s,
               ![r].after = NewRow(request[r].edit, request[r].actor)]
    BY <1>1 DEF InsertScenario
  <2>2. request[r].edit \in Content /\ request[r].actor \in Users
    BY <1>1 DEF InsertScenario, RequestOK
  <2>3. NewRow(request[r].edit, request[r].actor) \in Row
    BY <2>2, VersionAssumption DEF NewRow, Row, States
  <2>. QED BY <1>1, <2>1, <2>3, TypeInvChanged DEF InsertScenario
<1>. DEFINE s == request[r].scenario
<1>2. CASE UpdateWithVersion(r) /\ Matches(s, Editable, request[r].seen.version)
  <2>. DEFINE w == rows'[s]
  <2>1. /\ request[r].pc = "write" /\ s \in ScenarioIds /\ UNCHANGED audits
    BY <1>2 DEF UpdateWithVersion, RequestOK
  <2>2. /\ w \in Row /\ w.version = rows[s].version + 1
        /\ rows' = [rows EXCEPT ![s] = w]
        /\ request' = [request EXCEPT ![r].pc = "audit", ![r].after = w]
    BY <1>2, <2>1, UpdateStep DEF Edited
  <2>3. request' = [request EXCEPT ![r].pc = "audit", ![r].scenario = s, ![r].after = w]
    <3>. HIDE DEF w
    <3>. QED BY <2>2 DEF Request
  <2>. HIDE DEF w
  <2>. QED BY <2>1, <2>2, <2>3, TypeInvChanged
<1>3. CASE /\ Transition(r)
           /\ Matches(s, {request[r].before.state}, request[r].seen.version)
  <2>. DEFINE w == rows'[s]
  <2>1. /\ request[r].pc = "write" /\ s \in ScenarioIds /\ UNCHANGED audits
    BY <1>3 DEF Transition, RequestOK
  <2>2. /\ w \in Row /\ w.version = rows[s].version + 1
        /\ rows' = [rows EXCEPT ![s] = w]
        /\ request' = [request EXCEPT ![r].pc = "audit", ![r].after = w]
    BY <1>3, <2>1, TransitionStep DEF MovedBy
  <2>3. request' = [request EXCEPT ![r].pc = "audit", ![r].scenario = s, ![r].after = w]
    <3>. HIDE DEF w
    <3>. QED BY <2>2 DEF Request
  <2>. HIDE DEF w
  <2>. QED BY <2>1, <2>2, <2>3, TypeInvChanged
<1>4. CASE Finish(r) /\ UNCHANGED rows /\ UNCHANGED audits
  BY <1>4, TypeInvFinish
<1>5. CASE UpdateWithVersion(r) /\ BackToForm(r) /\ UNCHANGED rows
  <2>1. /\ request[r].pc = "write" /\ request[r].op = "update"
        /\ UNCHANGED <<rows, audits>>
    BY <1>5 DEF UpdateWithVersion
  <2>. QED BY <1>5, <2>1, TypeInvBack
<1>. QED BY <1>1, <1>2, <1>3, <1>4, <1>5 DEF UpdateWithVersion, Transition

\* The audit entry.
LEMMA TypeInvAudit ==
  ASSUME TypeInv, NEW r \in Requests, RecordAudit(r)
  PROVE  TypeInv'
<1>. USE TypeFacts
<1>1. /\ request[r].op \in {"create", "update", "transition"}
      /\ request[r].scenario \in ScenarioIds /\ request[r].actor \in Users
      /\ request[r].after \in Row
  BY DEF RecordAudit, RequestOK
<1>2. request[r].before \in Row \cup {Null}
  BY DEF Request
<1>3. AuditOf(request[r]) \in Audit
  BY <1>1, <1>2 DEF Audit, AuditOf
<1>. QED BY <1>3, TypeInvFinish DEF RecordAudit

\* The type invariant is inductive.
LEMMA TypeInvNext == TypeInv /\ [Next]_vars => TypeInv'
<1>. SUFFICES ASSUME TypeInv, [Next]_vars PROVE TypeInv'
  OBVIOUS
<1>1. CASE UNCHANGED vars
  BY <1>1 DEF vars, TypeInv, TypeOK, RequestOK, IsVersionOf
<1>2. ASSUME NEW r \in Requests, NodeRefuses(r) \/ Interrupt(r) \/ CancelForm(r)
      PROVE  TypeInv'
  BY <1>2, TypeInvFinish, TypeFacts DEF NodeRefuses, Interrupt, CancelForm
<1>. QED BY <1>1, <1>2, TypeInvBegin, TypeInvForm, TypeInvRead, TypeInvWrite,
            TypeInvAudit DEF Next

\* Every reachable state is well typed: rows, the records of the requests in
\* flight and the audit entries.
THEOREM TypeCorrect == Spec => []TypeOK
<1>1. TypeInv => TypeOK
  BY DEF TypeInv
<1>. QED BY <1>1, TypeInvInit, TypeInvNext, PTL DEF Spec

\* Read-check-write of the service against racing requests: what passes the
\* version check is what the client had loaded and what the checks were made on.
THEOREM VersionProtects == Spec => []ChangesWhatWasSeen
<1>1. TypeInv => ChangesWhatWasSeen
  BY CheckedRow DEF ChangesWhatWasSeen
<1>. QED BY <1>1, TypeInvInit, TypeInvNext, PTL DEF Spec
----------------------------------------------------------------------------
(* Every step leaves the table alone or changes one row, in one of three    *)
(* ways, each allowed by the row as it is at that moment.                   *)
RowStep ==
  \/ UNCHANGED rows
  \/ \E s \in ScenarioIds : Inserted(s)
  \/ \E s \in ScenarioIds, c \in Content : Edited(s, c)
  \/ \E s \in ScenarioIds, to \in States, u \in Users : MovedBy(s, to, u)

\* Every statement changes the table as one of these, or not at all.
LEMMA RowStepNext == TypeInv /\ [Next]_vars => RowStep
<1>. SUFFICES ASSUME TypeInv, [Next]_vars PROVE RowStep
  OBVIOUS
<1>1. CASE UNCHANGED rows
  BY <1>1 DEF RowStep
<1>2. ASSUME NEW r \in Requests, InsertScenario(r) PROVE RowStep
  <2>1. request[r].edit \in Content /\ request[r].actor \in Engineers
    BY <1>2, TypeFacts DEF InsertScenario, RequestOK
  <2>. QED BY <1>2, <2>1 DEF InsertScenario, RowStep, Inserted
<1>3. ASSUME NEW r \in Requests, UpdateWithVersion(r), ~ UNCHANGED rows PROVE RowStep
  <2>1. Matches(request[r].scenario, Editable, request[r].seen.version)
    BY <1>3 DEF UpdateWithVersion
  <2>2. request[r].scenario \in ScenarioIds
    BY <1>3, TypeFacts DEF UpdateWithVersion, RequestOK
  <2>. QED BY <1>3, <2>1, <2>2, UpdateStep DEF RowStep
<1>4. ASSUME NEW r \in Requests, Transition(r), ~ UNCHANGED rows PROVE RowStep
  <2>1. Matches(request[r].scenario, {request[r].before.state}, request[r].seen.version)
    BY <1>4 DEF Transition
  <2>2. request[r].scenario \in ScenarioIds
    BY <1>4, TypeFacts DEF Transition, RequestOK
  <2>. QED BY <1>4, <2>1, <2>2, TransitionStep DEF RowStep
<1>. QED BY <1>1, <1>2, <1>3, <1>4
     DEF Next, vars, BeginCreate, BeginTransition, OpenForm, LoadList, SaveForm,
         CancelForm, NodeRefuses, ReadForUpdate, ReadForTransition, RecordAudit,
         Interrupt

\* A changed row, field by field; the other rows stay.
LEMMA EditedRow ==
  ASSUME TypeInv, NEW s \in ScenarioIds, NEW c \in Content, Edited(s, c)
  PROVE  /\ rows[s] \in Row /\ rows'[s] \in Row /\ rows'[s] # Null
         /\ rows'[s] = [rows[s] EXCEPT !.content = c, !.version = rows[s].version + 1]
         /\ rows'[s].content = c /\ rows'[s].state = rows[s].state
         /\ rows'[s].version = rows[s].version + 1
         /\ rows'[s].createdBy = rows[s].createdBy
         /\ rows'[s].reviewedBy = rows[s].reviewedBy
         /\ \A t \in ScenarioIds \ {s} : rows'[t] = rows[t]
<1>1. rows \in [ScenarioIds -> Row \cup {Null}] /\ rows[s] \in Row
  BY DEF TypeInv, TypeOK, Edited
<1>2. /\ rows'[s] = Updated(rows[s], c, rows[s].version)
      /\ \A t \in ScenarioIds \ {s} : rows'[t] = rows[t]
  BY <1>1 DEF Edited
<1>3. rows[s].version + 1 \in 1 .. MaxVersion
  BY <1>1, VersionAssumption DEF Edited, Row
<1>4. rows'[s] \in Row /\ rows'[s] # Null
  BY <1>1, <1>2, <1>3, UpdatedType, NullAssumption
<1>. QED BY <1>1, <1>2, <1>4 DEF Updated, Row

\* What a transition leaves of its row.
LEMMA MovedRow ==
  ASSUME TypeInv, NEW s \in ScenarioIds, NEW to \in States, NEW u \in Users,
         MovedBy(s, to, u)
  PROVE  /\ rows[s] \in Row /\ rows'[s] \in Row /\ rows'[s] # Null
         /\ rows'[s] = Moved(rows[s], to, rows[s].version, u)
         /\ rows'[s].content = rows[s].content /\ rows'[s].state = to
         /\ rows'[s].version = rows[s].version + 1
         /\ rows'[s].createdBy = rows[s].createdBy
         /\ rows'[s].reviewedBy = IF IsReview(to) THEN u ELSE rows[s].reviewedBy
         /\ \A t \in ScenarioIds \ {s} : rows'[t] = rows[t]
<1>1. rows \in [ScenarioIds -> Row \cup {Null}] /\ rows[s] \in Row
  BY DEF TypeInv, TypeOK, MovedBy
<1>2. /\ rows'[s] = Moved(rows[s], to, rows[s].version, u)
      /\ \A t \in ScenarioIds \ {s} : rows'[t] = rows[t]
  BY <1>1 DEF MovedBy
<1>3. rows[s].version + 1 \in 1 .. MaxVersion
  BY <1>1, VersionAssumption DEF MovedBy, Row
<1>4. rows'[s] \in Row /\ rows'[s] # Null
  BY <1>1, <1>2, <1>3, MovedType, NullAssumption
<1>. QED BY <1>1, <1>2, <1>4 DEF Moved, Row

\* What an INSERT does to the table.
LEMMA InsertedRow ==
  ASSUME TypeInv, NEW s \in ScenarioIds, Inserted(s)
  PROVE  \E u \in Engineers, c \in Content :
           /\ rows'[s] = NewRow(c, u) /\ rows'[s] \in Row /\ rows'[s] # Null
           /\ \A t \in ScenarioIds \ {s} : rows'[t] = rows[t]
<1>1. rows \in [ScenarioIds -> Row \cup {Null}]
  BY DEF TypeInv, TypeOK
<1>2. PICK u \in Engineers, c \in Content : rows' = [rows EXCEPT ![s] = NewRow(c, u)]
  BY DEF Inserted
<1>3. NewRow(c, u) \in Row
  BY RoleAssumption, VersionAssumption DEF NewRow, Row, States
<1>. QED BY <1>1, <1>2, <1>3, NullAssumption

\* No step takes a row away, or changes one without a new version.
LEMMA AdvancesNext == TypeInv /\ [Next]_vars => Advances
<1>. SUFFICES ASSUME TypeInv, RowStep, NEW t \in ScenarioIds, rows[t] # Null
              PROVE  /\ rows'[t] # Null
                     /\ rows'[t] = rows[t] \/ rows'[t].version > rows[t].version
  BY RowStepNext DEF Advances
<1>0. rows[t].version \in Nat
  BY VersionAssumption DEF TypeInv, TypeOK, Row
<1>1. CASE UNCHANGED rows
  BY <1>1
<1>2. ASSUME NEW s \in ScenarioIds, Inserted(s)
      PROVE  rows'[t] = rows[t]
  BY <1>2, InsertedRow DEF Inserted
<1>3. ASSUME NEW s \in ScenarioIds, NEW c \in Content, Edited(s, c)
      PROVE  \/ rows'[t] = rows[t]
             \/ rows'[t] # Null /\ rows'[t].version = rows[t].version + 1
  BY <1>3, EditedRow
<1>4. ASSUME NEW s \in ScenarioIds, NEW to \in States, NEW u \in Users, MovedBy(s, to, u)
      PROVE  \/ rows'[t] = rows[t]
             \/ rows'[t] # Null /\ rows'[t].version = rows[t].version + 1
  BY <1>4, MovedRow
<1>. QED BY <1>0, <1>1, <1>2, <1>3, <1>4 DEF RowStep

\* The reviewer of record is never the author, and a scenario that is past its
\* review has one, whatever requests race.
THEOREM ReviewersIndependent == Spec => []ReviewIndependent
<1>1. Init => ReviewIndependent
  BY DEF Init, ReviewIndependent
<1>2. TypeInv /\ ReviewIndependent /\ [Next]_vars => ReviewIndependent'
  <2>. SUFFICES ASSUME TypeInv, ReviewIndependent, RowStep
                PROVE  ReviewIndependent'
    BY RowStepNext
  <2>1. CASE UNCHANGED rows
    BY <2>1 DEF ReviewIndependent
  <2>2. ASSUME NEW s \in ScenarioIds, Inserted(s) PROVE ReviewIndependent'
    <3>1. PICK u \in Engineers, c \in Content :
            /\ rows'[s] = NewRow(c, u)
            /\ \A t \in ScenarioIds \ {s} : rows'[t] = rows[t]
      BY <2>2, InsertedRow
    <3>2. rows'[s].reviewedBy = Null /\ rows'[s].state = "draft"
      BY <3>1 DEF NewRow
    <3>. QED BY <3>1, <3>2 DEF ReviewIndependent, IsReview
  <2>3. ASSUME NEW s \in ScenarioIds, NEW c \in Content, Edited(s, c)
        PROVE  ReviewIndependent'
    <3>1. rows[s] # Null
      BY <2>3 DEF Edited
    <3>2. /\ rows'[s].reviewedBy = rows[s].reviewedBy
          /\ rows'[s].createdBy = rows[s].createdBy /\ rows'[s].state = rows[s].state
          /\ \A t \in ScenarioIds \ {s} : rows'[t] = rows[t]
      BY <2>3, EditedRow
    <3>. QED BY <3>1, <3>2 DEF ReviewIndependent
  <2>4. ASSUME NEW s \in ScenarioIds, NEW to \in States, NEW u \in Users, MovedBy(s, to, u)
        PROVE  ReviewIndependent'
    <3>1. IsReview(to) => u \in Reviewers /\ rows[s].createdBy # u
      BY <2>4 DEF MovedBy, MayRequest, ReviewerSeparated, IsReview
    <3>2. u # Null /\ rows[s] # Null
      BY <2>4, NullAssumption DEF MovedBy
    <3>3. /\ rows'[s] # Null /\ rows'[s].state = to
          /\ rows'[s].createdBy = rows[s].createdBy
          /\ rows'[s].reviewedBy = IF IsReview(to) THEN u ELSE rows[s].reviewedBy
          /\ \A t \in ScenarioIds \ {s} : rows'[t] = rows[t]
      BY <2>4, MovedRow
    <3>. QED BY <3>1, <3>2, <3>3 DEF ReviewIndependent
  <2>. QED BY <2>1, <2>2, <2>3, <2>4 DEF RowStep
<1>. QED BY <1>1, <1>2, TypeInvInit, TypeInvNext, PTL DEF Spec

\* Content moves only in draft and rework, every change takes one version, and
\* an accepted scenario stays as it was accepted.
THEOREM ReviewFollowsProcess == Spec => ReviewProcess
<1>1. TypeInv /\ [Next]_vars =>
        [\A s \in ScenarioIds : ReviewedAsSubmitted(rows[s], rows'[s])]_vars
  <2>. SUFFICES ASSUME TypeInv, RowStep, NEW t \in ScenarioIds
                PROVE  ReviewedAsSubmitted(rows[t], rows'[t])
    BY RowStepNext
  <2>1. CASE UNCHANGED rows
    BY <2>1 DEF ReviewedAsSubmitted
  <2>2. ASSUME NEW s \in ScenarioIds, Inserted(s)
        PROVE  ReviewedAsSubmitted(rows[t], rows'[t])
    BY <2>2, InsertedRow DEF Inserted, NewRow, ReviewedAsSubmitted
  <2>3. ASSUME NEW s \in ScenarioIds, NEW c \in Content, Edited(s, c)
        PROVE  ReviewedAsSubmitted(rows[t], rows'[t])
    <3>1. rows[s] # Null /\ rows[s].state \in {"draft", "rework"}
      BY <2>3 DEF Edited, Editable
    <3>. QED BY <2>3, <3>1, EditedRow DEF ReviewedAsSubmitted
  <2>4. ASSUME NEW s \in ScenarioIds, NEW to \in States, NEW u \in Users, MovedBy(s, to, u)
        PROVE  ReviewedAsSubmitted(rows[t], rows'[t])
    <3>1. rows[s] # Null /\ <<rows[s].state, to>> \in Transitions
      BY <2>4 DEF MovedBy, CanTransition
    <3>. QED BY <2>4, <3>1, MovedRow DEF Transitions, ReviewedAsSubmitted
  <2>. QED BY <2>1, <2>2, <2>3, <2>4 DEF RowStep
<1>. QED BY <1>1, TypeInvInit, TypeInvNext, PTL DEF Spec, ReviewProcess

\* No update loses what a racing one wrote: the fields a request does not name
\* keep the value they have when its UPDATE runs.
THEOREM OtherFieldsKept == Spec => EditsOnlyNamedFields
<1>. DEFINE Kept(r) ==
       /\ request[r].pc = "write" /\ request'[r].pc = "audit"
       /\ request[r].op = "update"
       => \A f \in Fields :
            rows'[request[r].scenario].content[f] =
              IF request[r].edit[f] # Null THEN request[r].edit[f]
              ELSE rows[request[r].scenario].content[f]
<1>1. TypeInv /\ [Next]_vars => [\A r \in Requests : Kept(r)]_vars
  <2>. SUFFICES ASSUME TypeInv, Next, NEW r \in Requests,
                       request[r].pc = "write", request'[r].pc = "audit",
                       request[r].op = "update"
                PROVE  Kept(r)
    OBVIOUS
  <2>. DEFINE s == request[r].scenario
              c == Overlay(rows[s].content, request[r].edit)
  <2>1. PICK p \in Requests :
          \/ BeginCreate(p) \/ BeginTransition(p)
          \/ OpenForm(p) \/ LoadList(p) \/ SaveForm(p) \/ CancelForm(p)
          \/ NodeRefuses(p) \/ InsertScenario(p)
          \/ ReadForUpdate(p) \/ UpdateWithVersion(p)
          \/ ReadForTransition(p) \/ Transition(p)
          \/ RecordAudit(p) \/ Interrupt(p)
    BY DEF Next
  <2>2. \E q : request' = [request EXCEPT ![p] = q]
    BY <2>1, TypeFacts
       DEF BeginCreate, BeginTransition, OpenForm, LoadList, SaveForm, CancelForm,
           NodeRefuses, InsertScenario, ReadForUpdate, UpdateWithVersion,
           ReadForTransition, Transition, RecordAudit, Interrupt, Finish, BackToForm
  <2>3. p = r
    BY <2>2, TypeFacts
  <2>4. UpdateWithVersion(r)
    <3>1. UpdateWithVersion(r) \/ Interrupt(r)
      BY <2>1, <2>3
         DEF BeginCreate, BeginTransition, OpenForm, LoadList, SaveForm, CancelForm,
             NodeRefuses, InsertScenario, ReadForUpdate, ReadForTransition,
             Transition, RecordAudit
    <3>2. ~ Interrupt(r)
      BY TypeFacts DEF Interrupt, Finish, Idle
    <3>. QED BY <3>1, <3>2
  <2>5. Matches(s, Editable, request[r].seen.version)
    BY <2>4, TypeFacts DEF UpdateWithVersion, BackToForm, Request
  <2>6. c \in Content /\ Edited(s, c) /\ s \in ScenarioIds
    BY <2>4, <2>5, UpdateStep, TypeFacts DEF UpdateWithVersion, RequestOK
  <2>7. rows'[s].content = c
    BY <2>6, EditedRow
  <2>. QED BY <2>7 DEF Overlay
<1>. QED BY <1>1, TypeInvInit, TypeInvNext, PTL DEF Spec, EditsOnlyNamedFields

\* Checks and change are separate statements of concurrent requests; seen
\* through the table they are the indivisible steps of the workflow.
THEOREM ServiceImplementsWorkflow == Spec => ImplementsWorkflow
<1>1. Init => Workflow!WorkflowInit
  BY DEF Init, Workflow!WorkflowInit
<1>2. TypeInv /\ [Next]_vars => [Workflow!WorkflowNext]_rows
  <2>. SUFFICES ASSUME TypeInv, RowStep PROVE [Workflow!WorkflowNext]_rows
    BY RowStepNext
  <2>1. CASE UNCHANGED rows
    BY <2>1
  <2>2. ASSUME NEW s \in ScenarioIds, Inserted(s) PROVE Workflow!Draft(s)
    BY <2>2 DEF Inserted, NewRow, Workflow!Draft
  <2>3. ASSUME NEW s \in ScenarioIds, NEW c \in Content, Edited(s, c)
        PROVE  Workflow!Edit(s)
    <3>1. rows' = [rows EXCEPT ![s].content = c, ![s].version = @ + 1]
      BY <2>3, EditedRow DEF Edited, Updated, TypeInv, TypeOK
    <3>. QED BY <2>3, <3>1 DEF Edited, Editable, Workflow!Edit, Workflow!In
  <2>4. ASSUME NEW s \in ScenarioIds, NEW to \in States, NEW u \in Users, MovedBy(s, to, u)
        PROVE  Workflow!WorkflowNext
    <3>1. rows[s] # Null /\ <<rows[s].state, to>> \in Transitions /\ rows[s] \in Row
      BY <2>4, MovedRow DEF MovedBy, CanTransition
    <3>2. rows' = [rows EXCEPT ![s] = Moved(rows[s], to, rows[s].version, u)]
      BY <2>4 DEF MovedBy
    <3>3. CASE IsReview(to)
      <4>1. u \in Reviewers \ {rows[s].createdBy}
        BY <2>4, <3>3 DEF MovedBy, MayRequest, ReviewerSeparated, IsReview
      <4>2. Moved(rows[s], to, rows[s].version, u) =
              [rows[s] EXCEPT !.state = to, !.version = @ + 1, !.reviewedBy = u]
        BY <3>3 DEF Moved
      <4>3. rows' = [rows EXCEPT ![s].state = to, ![s].version = @ + 1,
                                 ![s].reviewedBy = u]
        BY <3>1, <3>2, <4>2 DEF TypeInv, TypeOK, Row
      <4>4. Workflow!Review(s, rows[s].state, to)
        BY <3>1, <4>1, <4>3 DEF Workflow!Review, Workflow!In
      <4>5. <<rows[s].state, to>> \in {<<"analyzed", "verified">>, <<"verified", "accepted">>}
        BY <3>1, <3>3 DEF Transitions, IsReview
      <4>. QED BY <4>4, <4>5 DEF Workflow!WorkflowNext
    <3>4. CASE ~ IsReview(to)
      <4>1. Moved(rows[s], to, rows[s].version, u) =
              [rows[s] EXCEPT !.state = to, !.version = @ + 1]
        BY <3>1, <3>4 DEF Moved, Row
      <4>2. rows' = [rows EXCEPT ![s].state = to, ![s].version = @ + 1]
        BY <3>1, <3>2, <4>1 DEF TypeInv, TypeOK, Row
      <4>3. CASE to = "analyzed"
        <5>1. Workflow!Submit(s)
          BY <3>1, <4>2, <4>3 DEF Transitions, Workflow!Submit, Workflow!In
        <5>. QED BY <5>1 DEF Workflow!WorkflowNext
      <4>4. CASE to = "rework"
        <5>1. Workflow!Rework(s)
          BY <3>1, <4>2, <4>4 DEF Transitions, Workflow!Rework, Workflow!In
        <5>. QED BY <5>1 DEF Workflow!WorkflowNext
      <4>. QED BY <3>1, <3>4, <4>3, <4>4 DEF Transitions, IsReview
    <3>. QED BY <3>3, <3>4
  <2>. QED BY <2>1, <2>2, <2>3, <2>4 DEF RowStep, Workflow!WorkflowNext
<1>. QED BY <1>1, <1>2, TypeInvInit, TypeInvNext, PTL
     DEF Spec, ImplementsWorkflow, Workflow!WorkflowSpec
----------------------------------------------------------------------------
(* The audit chain.  The trail is what has been written and what requests   *)
(* are about to write; an entry joins it in the step that makes the change. *)
EntryOf(r) ==
  [action |-> request[r].op, scenario |-> request[r].scenario,
   actor |-> request[r].actor, before |-> request[r].before,
   after |-> request[r].after]

Trail == audits \cup {EntryOf(r) : r \in {q \in Requests : request[q].pc = "audit"}}

\* Each entry ends in a version the row has had, and starts from an older one.
EntryOK(a) ==
  /\ a.scenario \in ScenarioIds /\ rows[a.scenario] # Null
  /\ IsVersionOf(a.after, a.scenario)
  /\ a.before # Null => a.before \in Row /\ a.before.version < a.after.version

Chained(a, b) ==
  a.scenario = b.scenario =>
    /\ a.after.version = b.after.version => a = b
    /\ b.before # Null /\ a.after.version = b.before.version => a.after = b.before

ChainInv ==
  /\ TypeInv
  /\ \A a \in Trail : EntryOK(a)
  /\ \A a, b \in Trail : Chained(a, b)

\* What a change adds to the trail: the row as it was and as it is.
NewEntry(new) ==
  LET s == new.scenario IN
  /\ s \in ScenarioIds /\ new.after \in Row /\ new.after # Null
  /\ rows' = [rows EXCEPT ![s] = new.after]
  /\ \/ rows[s] = Null /\ new.before = Null
     \/ /\ rows[s] # Null /\ rows[s] \in Row /\ new.before = rows[s]
        /\ new.after.version = rows[s].version + 1

\* A step that moves request r to q leaves the other pending entries alone.
LEMMA TrailOfOthers ==
  ASSUME TypeInv, NEW r \in Requests, NEW q, request' = [request EXCEPT ![r] = q],
         NEW new, q.pc = "audit" => EntryOf(r)' = new, audits' = audits
  PROVE  /\ Trail' \subseteq Trail \cup {new}
         /\ q.pc # "audit" => Trail' \subseteq Trail
<1>1. request'[r] = q /\ \A p \in Requests \ {r} : request'[p] = request[p]
  BY TypeFacts
<1>2. \A p \in Requests \ {r} : EntryOf(p)' = EntryOf(p)
  BY <1>1 DEF EntryOf
<1>. QED BY <1>1, <1>2 DEF Trail

\* A step leaves the trail alone, or adds the entry of its change.
LEMMA TrailStep ==
  ASSUME TypeInv, Next
  PROVE  \/ UNCHANGED rows /\ Trail' \subseteq Trail
         \/ \E new : NewEntry(new) /\ Trail' \subseteq Trail \cup {new}
<1>. USE TypeFacts
<1>. DEFINE Goal == \/ UNCHANGED rows /\ Trail' \subseteq Trail
                    \/ \E new : NewEntry(new) /\ Trail' \subseteq Trail \cup {new}
<1>1. ASSUME NEW r \in Requests, NEW q, q.pc # "audit", UNCHANGED <<rows, audits>>,
             request' = [request EXCEPT ![r] = q]
      PROVE  Goal
  BY <1>1, TrailOfOthers
<1>2. Idle.pc # "audit"
  BY DEF Idle
<1>3. ASSUME NEW r \in Requests,
             BeginCreate(r) \/ BeginTransition(r)
      PROVE  Goal
  <2>1. CASE BeginCreate(r)
    <3>1. PICK u \in Engineers, c \in Content :
            request' = [request EXCEPT ![r] =
              [Idle EXCEPT !.op = "create", !.pc = "insert", !.actor = u, !.edit = c]]
      BY <2>1 DEF BeginCreate
    <3>2. [Idle EXCEPT !.op = "create", !.pc = "insert", !.actor = u, !.edit = c].pc # "audit"
      BY DEF Idle
    <3>. QED BY <1>1, <2>1, <3>1, <3>2 DEF BeginCreate
  <2>2. CASE BeginTransition(r)
    <3>1. PICK u \in Engineers \cup Reviewers, s \in ScenarioIds, to \in States :
            request' = [request EXCEPT ![r] =
              [Idle EXCEPT !.op = "transition", !.pc = "read", !.actor = u,
                           !.scenario = s, !.seen = rows[s], !.to = to]]
      BY <2>2 DEF BeginTransition
    <3>2. [Idle EXCEPT !.op = "transition", !.pc = "read", !.actor = u, !.scenario = s,
                       !.seen = rows[s], !.to = to].pc # "audit"
      BY DEF Idle
    <3>. QED BY <1>1, <2>2, <3>1, <3>2 DEF BeginTransition
  <2>. QED BY <1>3, <2>1, <2>2
<1>12. ASSUME NEW r \in Requests, OpenForm(r) \/ LoadList(r) \/ SaveForm(r)
       PROVE  Goal
  <2>1. UNCHANGED <<rows, audits>>
    BY <1>12 DEF OpenForm, LoadList, SaveForm
  <2>2. CASE OpenForm(r)
    <3>1. PICK u \in Engineers, s \in ScenarioIds :
            request' = [request EXCEPT ![r] =
              [Idle EXCEPT !.op = "update", !.pc = "form", !.actor = u, !.scenario = s,
                           !.seen = rows[s], !.form = rows[s].content]]
      BY <2>2 DEF OpenForm
    <3>2. [Idle EXCEPT !.op = "update", !.pc = "form", !.actor = u, !.scenario = s,
                       !.seen = rows[s], !.form = rows[s].content].pc # "audit"
      BY DEF Idle
    <3>. QED BY <1>1, <2>1, <3>1, <3>2
  <2>3. CASE LoadList(r)
    <3>. DEFINE q == [request[r] EXCEPT !.seen = rows[request[r].scenario]]
    <3>1. request' = [request EXCEPT ![r] = q] /\ q.pc # "audit"
      BY <2>3 DEF LoadList, Request
    <3>. QED BY <1>1, <2>1, <3>1
  <2>4. CASE SaveForm(r)
    <3>1. PICK edit : request' = [request EXCEPT ![r].pc = "read", ![r].edit = edit]
      BY <2>4 DEF SaveForm
    <3>. DEFINE q == [request[r] EXCEPT !.pc = "read", !.edit = edit]
    <3>2. request' = [request EXCEPT ![r] = q] /\ q.pc # "audit"
      BY <3>1 DEF Request
    <3>. QED BY <1>1, <2>1, <3>2
  <2>. QED BY <1>12, <2>2, <2>3, <2>4
<1>13. ASSUME NEW r \in Requests, BackToForm(r), UNCHANGED <<rows, audits>> PROVE Goal
  <2>. DEFINE q == [request[r] EXCEPT !.pc = "form", !.edit = Null, !.before = Null]
  <2>1. request' = [request EXCEPT ![r] = q] /\ q.pc # "audit"
    BY <1>13 DEF BackToForm, Request
  <2>. QED BY <1>1, <1>13, <2>1
<1>4. ASSUME NEW r \in Requests, NodeRefuses(r) \/ Interrupt(r) \/ CancelForm(r)
      PROVE  Goal
  BY <1>1, <1>2, <1>4 DEF NodeRefuses, Interrupt, CancelForm, Finish
<1>5. ASSUME NEW r \in Requests, ReadForUpdate(r) \/ ReadForTransition(r) PROVE Goal
  <2>. DEFINE w == rows[request[r].scenario]
              q == [request[r] EXCEPT !.pc = "write", !.before = w]
  <2>1. UNCHANGED <<rows, audits>>
    BY <1>5 DEF ReadForUpdate, ReadForTransition
  <2>2. CASE Finish(r)
    BY <1>1, <1>2, <2>1, <2>2 DEF Finish
  <2>3. CASE request' = [request EXCEPT ![r].pc = "write", ![r].before = w]
    <3>1. request' = [request EXCEPT ![r] = q] /\ q.pc # "audit"
      BY <2>3 DEF Request
    <3>. QED BY <1>1, <2>1, <3>1
  <2>4. CASE BackToForm(r)
    BY <1>13, <2>1, <2>4
  <2>. QED BY <1>5, <2>2, <2>3, <2>4 DEF ReadForUpdate, ReadForTransition
<1>6. ASSUME NEW r \in Requests, RecordAudit(r) PROVE Goal
  <2>1. /\ request' = [request EXCEPT ![r] = Idle] /\ request[r].pc = "audit"
        /\ audits' = audits \cup {EntryOf(r)} /\ UNCHANGED rows
    BY <1>6 DEF RecordAudit, AuditOf, Finish, EntryOf
  <2>2. \A p \in Requests : request'[p].pc = "audit" => request'[p] = request[p]
    BY <1>2, <2>1
  <2>3. \A p \in Requests : request'[p].pc = "audit" => EntryOf(p)' = EntryOf(p)
    BY <2>2 DEF EntryOf
  <2>. QED BY <2>1, <2>2, <2>3 DEF Trail
<1>7. ASSUME NEW r \in Requests, NEW s \in ScenarioIds, NEW w \in Row, w # Null,
             request' = [request EXCEPT ![r].pc = "audit", ![r].scenario = s,
                                        ![r].after = w],
             rows' = [rows EXCEPT ![s] = w], UNCHANGED audits,
             \/ rows[s] = Null /\ request[r].before = Null
             \/ /\ rows[s] # Null /\ request[r].before = rows[s]
                /\ w.version = rows[s].version + 1
      PROVE  Goal
  <2>. DEFINE q == [request[r] EXCEPT !.pc = "audit", !.scenario = s, !.after = w]
              new == [action |-> request[r].op, scenario |-> s,
                      actor |-> request[r].actor, before |-> request[r].before,
                      after |-> w]
  <2>1. request' = [request EXCEPT ![r] = q]
    BY <1>7 DEF Request
  <2>2. EntryOf(r)' = new
    BY <2>1 DEF EntryOf, Request
  <2>3. NewEntry(new)
    BY <1>7 DEF NewEntry
  <2>. HIDE DEF q, new
  <2>. QED BY <1>7, <2>1, <2>2, <2>3, TrailOfOthers
<1>8. ASSUME NEW r \in Requests, InsertScenario(r) PROVE Goal
  <2>1. PICK s \in ScenarioIds :
          /\ rows[s] = Null
          /\ rows' = [rows EXCEPT ![s] = NewRow(request[r].edit, request[r].actor)]
          /\ request' = [request EXCEPT ![r].pc = "audit", ![r].scenario = s,
               ![r].after = NewRow(request[r].edit, request[r].actor)]
    BY <1>8 DEF InsertScenario
  <2>2. /\ request[r].edit \in Content /\ request[r].actor \in Users
        /\ request[r].before = Null
    BY <1>8 DEF InsertScenario, RequestOK
  <2>3. /\ NewRow(request[r].edit, request[r].actor) \in Row
        /\ NewRow(request[r].edit, request[r].actor) # Null
    BY <2>2, VersionAssumption, NullAssumption DEF NewRow, Row, States
  <2>. QED BY <1>7, <1>8, <2>1, <2>2, <2>3 DEF InsertScenario
<1>9. ASSUME NEW r \in Requests, NEW s \in ScenarioIds, s = request[r].scenario,
             request[r].pc = "write", rows[s].version = request[r].seen.version,
             UNCHANGED audits,
             rows'[s] \in Row, rows'[s].version = rows[s].version + 1,
             rows' = [rows EXCEPT ![s] = rows'[s]],
             request' = [request EXCEPT ![r].pc = "audit", ![r].after = rows'[s]]
      PROVE  Goal
  <2>. DEFINE w == rows'[s]
  <2>1. rows[s] # Null /\ request[r].before = rows[s]
    BY <1>9, CheckedRow
  <2>2. w # Null
    BY <1>9, NullAssumption
  <2>3. request' = [request EXCEPT ![r].pc = "audit", ![r].scenario = s, ![r].after = w]
    <3>1. request' = [request EXCEPT ![r].pc = "audit", ![r].after = w]
      BY <1>9
    <3>. HIDE DEF w
    <3>. QED BY <1>9, <3>1 DEF Request
  <2>4. w \in Row /\ w.version = rows[s].version + 1 /\ rows' = [rows EXCEPT ![s] = w]
    BY <1>9
  <2>. HIDE DEF w
  <2>. QED BY <1>7, <1>9, <2>1, <2>2, <2>3, <2>4
<1>10. ASSUME NEW r \in Requests, UpdateWithVersion(r) PROVE Goal
  <2>. DEFINE s == request[r].scenario
  <2>1. CASE Matches(s, Editable, request[r].seen.version)
    <3>1. /\ s \in ScenarioIds /\ request[r].pc = "write" /\ UNCHANGED audits
          /\ rows[s].version = request[r].seen.version
      BY <1>10, <2>1 DEF UpdateWithVersion, RequestOK, Matches
    <3>2. /\ rows'[s] \in Row /\ rows'[s].version = rows[s].version + 1
          /\ request' = [request EXCEPT ![r].pc = "audit", ![r].after = rows'[s]]
          /\ \E c : rows' = [rows EXCEPT ![s] = c]
      BY <1>10, <2>1, UpdateStep DEF Edited
    <3>3. rows' = [rows EXCEPT ![s] = rows'[s]]
      BY <3>1, <3>2
    <3>. QED BY <1>9, <3>1, <3>2, <3>3
  <2>2. CASE BackToForm(r) /\ UNCHANGED <<rows, audits>>
    BY <1>13, <2>2
  <2>. QED BY <1>10, <2>1, <2>2 DEF UpdateWithVersion
<1>11. ASSUME NEW r \in Requests, Transition(r) PROVE Goal
  <2>. DEFINE s == request[r].scenario
  <2>1. CASE Matches(s, {request[r].before.state}, request[r].seen.version)
    <3>1. /\ s \in ScenarioIds /\ request[r].pc = "write" /\ UNCHANGED audits
          /\ rows[s].version = request[r].seen.version
      BY <1>11, <2>1 DEF Transition, RequestOK, Matches
    <3>2. /\ rows'[s] \in Row /\ rows'[s].version = rows[s].version + 1
          /\ request' = [request EXCEPT ![r].pc = "audit", ![r].after = rows'[s]]
          /\ \E c : rows' = [rows EXCEPT ![s] = c]
      BY <1>11, <2>1, TransitionStep DEF MovedBy
    <3>3. rows' = [rows EXCEPT ![s] = rows'[s]]
      BY <3>1, <3>2
    <3>. QED BY <1>9, <3>1, <3>2, <3>3
  <2>2. CASE Finish(r) /\ UNCHANGED <<rows, audits>>
    BY <1>1, <1>2, <2>2 DEF Finish
  <2>. QED BY <1>11, <2>1, <2>2 DEF Transition
<1>. QED BY <1>3, <1>4, <1>5, <1>6, <1>8, <1>10, <1>11, <1>12 DEF Next

\* An entry the trail already had, and the one that joins it.
LEMMA ChainStays ==
  ASSUME ChainInv, TypeInv', NEW new, NewEntry(new), Trail' \subseteq Trail \cup {new}
  PROVE  ChainInv'
<1>. DEFINE s == new.scenario
<1>0. /\ s \in ScenarioIds /\ new.after \in Row /\ new.after # Null
      /\ rows \in [ScenarioIds -> Row \cup {Null}]
      /\ rows'[s] = new.after /\ \A t \in ScenarioIds \ {s} : rows'[t] = rows[t]
      /\ new.after.version \in Nat
  BY VersionAssumption DEF NewEntry, ChainInv, TypeInv, TypeOK, Row
<1>1. ASSUME NEW a \in Trail, a.scenario = s
      PROVE  /\ rows[s] # Null /\ rows[s] \in Row /\ a.after \in Row
             /\ a.after.version <= rows[s].version
             /\ a.after.version = rows[s].version => a.after = rows[s]
             /\ new.before = rows[s] /\ new.after.version = rows[s].version + 1
             /\ a.after.version \in Nat /\ rows[s].version \in Nat
             /\ a.before # Null => a.before.version \in Nat
                                    /\ a.before.version < a.after.version
  <2>1. EntryOK(a)
    BY DEF ChainInv
  <2>. QED BY <1>0, <1>1, <2>1, VersionAssumption DEF EntryOK, IsVersionOf, NewEntry, Row
<1>2. ASSUME NEW a \in Trail PROVE EntryOK(a)'
  <2>1. EntryOK(a)
    BY DEF ChainInv
  <2>2. CASE a.scenario = s
    <3>1. a.after.version < rows'[s].version
      BY <1>0, <1>1, <2>2
    <3>. QED BY <1>0, <1>1, <2>1, <2>2, <3>1 DEF EntryOK, IsVersionOf
  <2>3. CASE a.scenario # s
    BY <1>0, <2>1, <2>3 DEF EntryOK, IsVersionOf
  <2>. QED BY <2>2, <2>3
<1>3. EntryOK(new)'
  <2>1. new.before # Null =>
          /\ new.before \in Row /\ new.before.version \in Nat
          /\ new.after.version = new.before.version + 1
    BY VersionAssumption DEF NewEntry, Row
  <2>. QED BY <1>0, <2>1 DEF EntryOK, IsVersionOf
<1>4. ASSUME NEW a \in Trail, a.scenario = s PROVE Chained(a, new) /\ Chained(new, a)
  <2>1. a.after.version < new.after.version
    BY <1>1, <1>4
  <2>2. a.before # Null => a.before.version < new.after.version
    BY <1>1, <1>4
  <2>. QED BY <1>0, <1>1, <1>4, <2>1, <2>2 DEF Chained
<1>5. ASSUME NEW a \in Trail, a.scenario # s PROVE Chained(a, new) /\ Chained(new, a)
  BY <1>5 DEF Chained
<1>6. Chained(new, new)
  <2>1. new.before # Null =>
          new.before.version \in Nat /\ new.after.version = new.before.version + 1
    BY VersionAssumption DEF NewEntry, Row
  <2>. QED BY <1>0, <2>1 DEF Chained
<1>7. \A a, b \in Trail \cup {new} : Chained(a, b)
  BY <1>4, <1>5, <1>6 DEF ChainInv
<1>8. \A a, b \in Trail' : Chained(a, b)'
  BY <1>7 DEF Chained
<1>9. \A a \in Trail' : EntryOK(a)'
  BY <1>2, <1>3
<1>. QED BY <1>8, <1>9 DEF ChainInv

\* The invariant of the chain is inductive.
LEMMA ChainInvNext == ChainInv /\ [Next]_vars => ChainInv'
<1>. SUFFICES ASSUME ChainInv, [Next]_vars PROVE ChainInv'
  OBVIOUS
<1>1. TypeInv /\ TypeInv'
  BY TypeInvNext DEF ChainInv
<1>2. CASE UNCHANGED rows /\ Trail' \subseteq Trail
  BY <1>1, <1>2 DEF ChainInv, EntryOK, IsVersionOf, Chained
<1>3. ASSUME NEW new, NewEntry(new), Trail' \subseteq Trail \cup {new} PROVE ChainInv'
  BY <1>1, <1>3, ChainStays
<1>4. CASE UNCHANGED vars
  BY <1>2, <1>4 DEF vars, Trail, EntryOf
<1>. QED BY <1>1, <1>2, <1>3, <1>4, TrailStep

\* Whatever order the entries were written in, they tell each scenario's
\* history without a contradiction: one entry a version, each starting from
\* what the one before it left.
THEOREM AuditsChain == Spec => []AuditChain
<1>1. Init => ChainInv
  BY TypeInvInit DEF Init, ChainInv, Trail, Idle
<1>2. ChainInv => AuditChain
  BY DEF ChainInv, AuditChain, Trail, EntryOK, IsVersionOf, Chained
<1>. QED BY <1>1, <1>2, ChainInvNext, PTL DEF Spec
----------------------------------------------------------------------------
(* Completeness of the trail.  A version joins it in the step that makes    *)
(* the version, and only a request that is cut short right before its audit *)
(* entry takes one away.                                                    *)
LEMMA TrailGrows ==
  ASSUME TypeInv, Next, "audit" \notin Interruptible
  PROVE  Trail \subseteq Trail'
<1>. USE TypeFacts
<1>1. PICK r \in Requests :
        \/ BeginCreate(r) \/ BeginTransition(r)
        \/ OpenForm(r) \/ LoadList(r) \/ SaveForm(r) \/ CancelForm(r)
        \/ NodeRefuses(r) \/ InsertScenario(r)
        \/ ReadForUpdate(r) \/ UpdateWithVersion(r)
        \/ ReadForTransition(r) \/ Transition(r)
        \/ RecordAudit(r) \/ Interrupt(r)
  BY DEF Next
<1>2. \E q : request' = [request EXCEPT ![r] = q]
  BY <1>1
     DEF BeginCreate, BeginTransition, OpenForm, LoadList, SaveForm, CancelForm,
         NodeRefuses, InsertScenario, ReadForUpdate, UpdateWithVersion,
         ReadForTransition, Transition, RecordAudit, Interrupt, Finish, BackToForm
<1>3. audits \subseteq audits'
  BY <1>1
     DEF BeginCreate, BeginTransition, OpenForm, LoadList, SaveForm, CancelForm,
         NodeRefuses, InsertScenario, ReadForUpdate, UpdateWithVersion,
         ReadForTransition, Transition, RecordAudit, Interrupt
<1>4. ASSUME NEW p \in Requests, request[p].pc = "audit" PROVE EntryOf(p) \in Trail'
  <2>1. CASE p # r
    <3>1. request'[p] = request[p]
      BY <1>2, <2>1
    <3>2. EntryOf(p)' = EntryOf(p) /\ request'[p].pc = "audit"
      BY <1>4, <3>1 DEF EntryOf
    <3>. QED BY <3>2 DEF Trail
  <2>2. CASE p = r
    <3>1. RecordAudit(r)
      BY <1>1, <1>4, <2>2
         DEF BeginCreate, BeginTransition, OpenForm, LoadList, SaveForm, CancelForm,
             NodeRefuses, InsertScenario, ReadForUpdate, UpdateWithVersion,
             ReadForTransition, Transition, Interrupt
    <3>2. EntryOf(r) \in audits'
      BY <3>1 DEF RecordAudit, AuditOf, EntryOf
    <3>. QED BY <2>2, <3>2 DEF Trail
  <2>. QED BY <2>1, <2>2
<1>. QED BY <1>3, <1>4 DEF Trail

\* Version v of scenario s is in the trail.
Recorded(s, v) == \E a \in Trail : a.scenario = s /\ a.after.version = v

\* The version a step makes is recorded in that step.
LEMMA NewVersionRecorded ==
  ASSUME TypeInv, NEW r \in Requests, NEW s \in ScenarioIds, NEW v,
         request'[r].pc = "audit", request'[r].scenario = s,
         request'[r].after.version = v
  PROVE  Recorded(s, v)'
<1>1. EntryOf(r)' \in Trail' /\ EntryOf(r)'.scenario = s /\ EntryOf(r)'.after.version = v
  BY DEF Trail, EntryOf
<1>. QED BY <1>1 DEF Recorded

\* A new version is in the trail as soon as it is in the table.
LEMMA VersionsRecorded ==
  ASSUME TypeInv, [Next]_vars, NEW s \in ScenarioIds, rows'[s] # Null
  PROVE  \/ rows'[s] = rows[s]
         \/ rows[s] = Null /\ rows'[s].version = 1 /\ Recorded(s, 1)'
         \/ /\ rows[s] \in Row /\ rows[s] # Null
            /\ rows'[s].version = rows[s].version + 1
            /\ \A u : u = rows'[s].version => Recorded(s, u)'
<1>. USE TypeFacts
<1>. DEFINE Goal ==
         \/ rows'[s] = rows[s]
         \/ rows[s] = Null /\ rows'[s].version = 1 /\ Recorded(s, 1)'
         \/ /\ rows[s] \in Row /\ rows[s] # Null
            /\ rows'[s].version = rows[s].version + 1
            /\ \A u : u = rows'[s].version => Recorded(s, u)'
<1>1. CASE UNCHANGED rows
  BY <1>1
<1>2. ASSUME NEW r \in Requests, InsertScenario(r) PROVE Goal
  <2>1. PICK t \in ScenarioIds :
          /\ rows[t] = Null
          /\ rows' = [rows EXCEPT ![t] = NewRow(request[r].edit, request[r].actor)]
          /\ request' = [request EXCEPT ![r].pc = "audit", ![r].scenario = t,
               ![r].after = NewRow(request[r].edit, request[r].actor)]
    BY <1>2 DEF InsertScenario
  <2>2. CASE t = s
    <3>1. /\ rows'[s].version = 1 /\ request'[r].after.version = 1
          /\ request'[r].pc = "audit" /\ request'[r].scenario = s
      BY <2>1, <2>2 DEF NewRow, Request
    <3>. QED BY <2>1, <2>2, <3>1, NewVersionRecorded
  <2>3. CASE t # s
    BY <2>1, <2>3
  <2>. QED BY <2>2, <2>3
<1>3. ASSUME NEW r \in Requests, NEW t \in ScenarioIds, t = request[r].scenario,
             request[r].pc = "write", rows[t].version = request[r].seen.version,
             NEW w, rows' = [rows EXCEPT ![t] = w],
             rows'[t].version = rows[t].version + 1,
             request' = [request EXCEPT ![r].pc = "audit", ![r].after = rows'[t]]
      PROVE  Goal
  <2>1. rows'[t] = w
    BY <1>3
  <2>2. CASE t = s
    <3>1. rows[s] \in Row /\ rows[s] # Null
      BY <1>3, <2>2, CheckedRow
    <3>2. request' = [request EXCEPT ![r].pc = "audit", ![r].after = w]
      BY <1>3, <2>1
    <3>3. /\ request'[r].pc = "audit" /\ request'[r].scenario = s
          /\ request'[r].after = w
      <4>. DEFINE q == [request[r] EXCEPT !.pc = "audit", !.after = w]
      <4>1. request' = [request EXCEPT ![r] = q]
        BY <3>2 DEF Request
      <4>2. q.pc = "audit" /\ q.scenario = request[r].scenario /\ q.after = w
        BY DEF Request
      <4>. QED BY <1>3, <2>2, <4>1, <4>2
    <3>4. \A v : v = w.version => Recorded(s, v)'
      BY <3>3, NewVersionRecorded
    <3>. QED BY <1>3, <2>1, <2>2, <3>1, <3>4
  <2>3. CASE t # s
    BY <1>3, <2>3
  <2>. QED BY <2>2, <2>3
<1>4. ASSUME NEW r \in Requests, UpdateWithVersion(r), ~ UNCHANGED rows PROVE Goal
  <2>1. Matches(request[r].scenario, Editable, request[r].seen.version)
    BY <1>4 DEF UpdateWithVersion
  <2>2. /\ request[r].scenario \in ScenarioIds /\ request[r].pc = "write"
        /\ rows[request[r].scenario].version = request[r].seen.version
    BY <1>4, <2>1 DEF UpdateWithVersion, RequestOK, Matches
  <2>3. PICK w : rows' = [rows EXCEPT ![request[r].scenario] = w]
    BY <1>4, <2>1, UpdateStep DEF Edited
  <2>. QED BY <1>3, <1>4, <2>1, <2>2, <2>3, UpdateStep
<1>5. ASSUME NEW r \in Requests, Transition(r), ~ UNCHANGED rows PROVE Goal
  <2>1. Matches(request[r].scenario, {request[r].before.state}, request[r].seen.version)
    BY <1>5 DEF Transition
  <2>2. /\ request[r].scenario \in ScenarioIds /\ request[r].pc = "write"
        /\ rows[request[r].scenario].version = request[r].seen.version
    BY <1>5, <2>1 DEF Transition, RequestOK, Matches
  <2>3. PICK w : rows' = [rows EXCEPT ![request[r].scenario] = w]
    BY <1>5, <2>1, TransitionStep DEF MovedBy
  <2>. QED BY <1>3, <1>5, <2>1, <2>2, <2>3, TransitionStep
<1>. QED BY <1>1, <1>2, <1>4, <1>5
     DEF Next, vars, BeginCreate, BeginTransition, OpenForm, LoadList, SaveForm,
         CancelForm, NodeRefuses, ReadForUpdate, ReadForTransition, RecordAudit,
         Interrupt

\* When no request is cut short right before its audit entry, the trail lists
\* every version of every scenario, or is about to.
THEOREM VersionsAudited ==
  ASSUME "audit" \notin Interruptible
  PROVE  Spec => []EveryVersionAudited
<1>. DEFINE Complete ==
       \A s \in ScenarioIds :
         rows[s] # Null => \A v \in 1 .. rows[s].version : Recorded(s, v)
<1>1. Complete => EveryVersionAudited
  BY DEF EveryVersionAudited, Recorded, Trail, EntryOf
<1>2. Init => Complete
  BY DEF Init
<1>3. TypeInv /\ Complete /\ [Next]_vars => Complete'
  <2>. SUFFICES ASSUME TypeInv, Complete, [Next]_vars,
                       NEW s \in ScenarioIds, rows'[s] # Null,
                       NEW v \in 1 .. rows'[s].version
                PROVE  Recorded(s, v)'
    OBVIOUS
  <2>1. Trail \subseteq Trail'
    BY TrailGrows DEF vars, Trail, EntryOf
  <2>2. Recorded(s, v) => Recorded(s, v)'
    BY <2>1 DEF Recorded
  <2>3. CASE rows'[s] = rows[s]
    BY <2>2, <2>3
  <2>4. CASE rows[s] = Null /\ rows'[s].version = 1 /\ Recorded(s, 1)'
    BY <2>4
  <2>5. CASE /\ rows[s] \in Row /\ rows[s] # Null
             /\ rows'[s].version = rows[s].version + 1
             /\ \A u : u = rows'[s].version => Recorded(s, u)'
    <3>1. rows[s].version \in Nat
      BY <2>5, VersionAssumption DEF Row
    <3>2. v \in 1 .. rows[s].version \/ v = rows'[s].version
      BY <2>5, <3>1
    <3>. QED BY <2>2, <2>5, <3>2
  <2>. QED BY <2>3, <2>4, <2>5, VersionsRecorded
<1>. QED BY <1>1, <1>2, <1>3, TypeInvInit, TypeInvNext, PTL DEF Spec
============================================================================
