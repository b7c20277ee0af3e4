------------------------- MODULE SafeguardLifecycle -------------------------
(* The safeguard service: create, update, verify, invalidate and restore    *)
(* over the safeguards table.  Unlike scenarios, safeguards have no version: *)
(* only lifecycle_state is checked by the conditional updates.  Of the      *)
(* descriptive fields the test interval is kept, the one that decides       *)
(* whether a verification still counts.  Time is counted in days.           *)
EXTENDS Naturals

CONSTANTS
  Requests,        \* handlers that can be in flight at once
  SafeguardIds,    \* primary keys the database hands out
  Users,           \* users whose role holds safeguard:write
  Intervals,       \* values of test_interval_days
  MaxTime,         \* bound: the last day the clock reaches
  Null             \* SQL NULL, a row that does not exist, a nil pointer

VARIABLES
  rows,            \* safeguards, by primary key
  request,         \* the requests in flight
  audits,          \* audit_logs of entity safeguard
  now              \* the clock

vars == <<rows, request, audits, now>>

States == {"pending", "active", "expired", "invalid"}
Time == 0 .. MaxTime

Row == [interval : Intervals, verifiedAt : Time \cup {Null},
        verifiedBy : Users \cup {Null}, state : States]

Operations == {"create", "update", "verify", "invalidate", "restore"}

Audit == [action : Operations, safeguard : SafeguardIds, actor : Users,
          before : Row \cup {Null}, after : Row]

Request == [op : Operations \cup {Null},
            pc : {"idle", "insert", "check", "read", "write", "sync", "reload", "audit"},
            actor : Users \cup {Null}, safeguard : SafeguardIds \cup {Null},
            interval : Intervals \cup {Null}, verifiedAt : Time \cup {Null},
            target : States \cup {Null},
            before : Row \cup {Null}, after : Row \cup {Null}]

ASSUME IntervalAssumption == Intervals \subseteq Nat \ {0}

ASSUME TimeAssumption == MaxTime \in Nat

ASSUME NullAssumption ==
  Null \notin Row /\ Null \notin Users /\ Null \notin Nat /\ Null \notin States
----------------------------------------------------------------------------
Idle == [op |-> Null, pc |-> "idle", actor |-> Null, safeguard |-> Null,
         interval |-> Null, verifiedAt |-> Null, target |-> Null,
         before |-> Null, after |-> Null]

\* A request answers, with a result or an error, and is forgotten.
Finish(r) == request' = [request EXCEPT ![r] = Idle]

\* Operators named "Faulty..." are wrong versions of the definition that
\* follows them, each a slip one could make in the code it models; Next does
\* not use them.  They show that the properties would notice.

\* Fault: the last day of the interval does not count.
FaultyExpired(verifiedAt, interval) == now >= verifiedAt + interval

\* now.After(verified + interval): the last day of the interval still counts.
Expired(verifiedAt, interval) == now > verifiedAt + interval

\* IsEffectiveAt of the model, as far as the lifecycle depends on it.
Effective(row) ==
  /\ row.state = "active" /\ row.verifiedAt # Null
  /\ ~ Expired(row.verifiedAt, row.interval)

\* Fault: a safeguard registered without a verification counts at once.
FaultyInitialState(verifiedAt, interval) ==
  IF verifiedAt # Null /\ Expired(verifiedAt, interval) THEN "expired" ELSE "active"

InitialState(verifiedAt, interval) ==
  CASE verifiedAt = Null -> "pending"
    [] verifiedAt # Null /\ Expired(verifiedAt, interval) -> "expired"
    [] OTHER -> "active"

\* Fault: the check for the active state was dropped.
FaultyAged(row) ==
  IF row.verifiedAt # Null /\ Expired(row.verifiedAt, row.interval)
    THEN [row EXCEPT !.state = "expired"] ELSE row

\* Update's own copy: an active row past its interval becomes expired.
Aged(row) ==
  IF /\ row.verifiedAt # Null /\ Expired(row.verifiedAt, row.interval)
     /\ row.state = "active"
    THEN [row EXCEPT !.state = "expired"] ELSE row

\* Fault: a nil pointer is copied like a value.
FaultyWithInterval(row, interval) == [row EXCEPT !.interval = interval]

\* The row with the interval the request names, or its own.
WithInterval(row, interval) ==
  [row EXCEPT !.interval = IF interval = Null THEN row.interval ELSE interval]

\* Fault: the whole copy is saved back.
FaultyUpdated(row, copy) == [copy EXCEPT !.state = row.state]

\* SET of Update: the descriptive fields from the copy, nothing else.
Updated(row, copy) == [row EXCEPT !.interval = copy.interval]

\* SET of Verify.
Verified(row, at, u) ==
  [row EXCEPT !.state = "active", !.verifiedAt = at, !.verifiedBy = u]

\* Fault: restore takes the state for granted.
FaultyFromStates(op) ==
  IF op = "invalidate" THEN {"pending", "active", "expired"} ELSE States

\* The from-lists of the conditional updates.
FromStates(op) ==
  CASE op = "verify"     -> States
    [] op = "invalidate" -> {"pending", "active", "expired"}
    [] op = "restore"    -> {"invalid"}

Init ==
  /\ rows = [g \in SafeguardIds |-> Null]
  /\ request = [r \in Requests |-> Idle]
  /\ audits = {}
  /\ now = 0
----------------------------------------------------------------------------
(* Arrival; a verification date in the future is refused at once.           *)
BeginCreate(r) ==
  /\ request[r].pc = "idle"
  /\ \E u \in Users, i \in Intervals, at \in 0 .. now \cup {Null} :
       request' = [request EXCEPT ![r] =
         [Idle EXCEPT !.op = "create", !.pc = "insert", !.actor = u,
                      !.interval = i, !.verifiedAt = at]]
  /\ UNCHANGED <<rows, audits, now>>

BeginOn(r, op, pc, interval, at) ==
  /\ request[r].pc = "idle"
  /\ \E u \in Users, g \in SafeguardIds :
       /\ rows[g] # Null
       /\ request' = [request EXCEPT ![r] =
            [Idle EXCEPT !.op = op, !.pc = pc, !.actor = u, !.safeguard = g,
                         !.interval = interval, !.verifiedAt = at]]
  /\ UNCHANGED <<rows, audits, now>>

Begin(r) ==
  \/ BeginCreate(r)
  \/ \E i \in Intervals \cup {Null} : BeginOn(r, "update", "read", i, Null)
  \/ \E at \in 0 .. now : BeginOn(r, "verify", "read", Null, at)
  \/ BeginOn(r, "invalidate", "read", Null, Null)
  \/ BeginOn(r, "restore", "check", Null, Null)
----------------------------------------------------------------------------
InsertSafeguard(r) ==
  /\ request[r].pc = "insert"
  /\ \E g \in SafeguardIds :
       /\ rows[g] = Null
       /\ LET at == request[r].verifiedAt
              i == request[r].interval
              row == [interval |-> i, verifiedAt |-> at,
                      verifiedBy |-> IF at = Null THEN Null ELSE request[r].actor,
                      state |-> InitialState(at, i)]
          IN  /\ rows' = [rows EXCEPT ![g] = row]
              /\ request' = [request EXCEPT ![r].pc = "audit",
                               ![r].safeguard = g, ![r].after = row]
  /\ UNCHANGED <<audits, now>>

\* Update: the copy to be written, and the state it should have, are made now.
ReadForUpdate(r) ==
  /\ request[r].pc = "read"
  /\ request[r].op = "update"
  /\ LET row == rows[request[r].safeguard] IN
       request' = [request EXCEPT ![r].pc = "write", ![r].before = row,
         ![r].after = Aged(WithInterval(row, request[r].interval))]
  /\ UNCHANGED <<rows, audits, now>>

\* WHERE id = g: the interval read before overwrites whatever is there now.
\* The state is left to a second statement.
UpdateSafeguard(r) ==
  /\ request[r].pc = "write"
  /\ request[r].op = "update"
  /\ LET q == request[r] IN
       /\ rows' = [rows EXCEPT ![q.safeguard] = Updated(rows[q.safeguard], q.after)]
       /\ request' = [request EXCEPT ![r].pc =
            IF q.after.state # q.before.state THEN "sync" ELSE "audit"]
  /\ UNCHANGED <<audits, now>>

\* SetLifecycle with the state read before; whether it matched is ignored.
SyncLifecycle(r) ==
  /\ request[r].pc = "sync"
  /\ LET q == request[r] IN
       rows' = IF rows[q.safeguard].state = q.before.state
                 THEN [rows EXCEPT ![q.safeguard].state = q.after.state] ELSE rows
  /\ request' = [request EXCEPT ![r].pc = "audit"]
  /\ UNCHANGED <<audits, now>>
----------------------------------------------------------------------------
(* Verify, invalidate, restore.                                             *)
ReadForVerify(r) ==
  /\ request[r].pc = "read"
  /\ request[r].op = "verify"
  /\ LET row == rows[request[r].safeguard] IN
       IF Expired(request[r].verifiedAt, row.interval)
         THEN Finish(r)
         ELSE request' = [request EXCEPT ![r].pc = "write", ![r].before = row]
  /\ UNCHANGED <<rows, audits, now>>

\* Restore reads the row once to choose its target, and again to change it.
ChooseTarget(r) ==
  /\ request[r].pc = "check"
  /\ request' = [request EXCEPT ![r].pc = "read", ![r].target =
       IF Effective(rows[request[r].safeguard]) THEN "active" ELSE "pending"]
  /\ UNCHANGED <<rows, audits, now>>

ReadForChange(r) ==
  /\ request[r].pc = "read"
  /\ request[r].op \in {"invalidate", "restore"}
  /\ request' = [request EXCEPT ![r].pc = "write",
                   ![r].before = rows[request[r].safeguard]]
  /\ UNCHANGED <<rows, audits, now>>

\* What the conditional update of a request sets.
Changed(q, row) ==
  CASE q.op = "verify"     -> Verified(row, q.verifiedAt, q.actor)
    [] q.op = "invalidate" -> [row EXCEPT !.state = "invalid"]
    [] q.op = "restore"    -> [row EXCEPT !.state = q.target]

SetLifecycle(r) ==
  /\ request[r].pc = "write"
  /\ request[r].op # "update"
  /\ LET q == request[r] IN
       IF rows[q.safeguard].state \in FromStates(q.op)
         THEN /\ rows' = [rows EXCEPT ![q.safeguard] = Changed(q, rows[q.safeguard])]
              /\ request' = [request EXCEPT ![r].pc = "reload"]
         ELSE Finish(r) /\ UNCHANGED rows
  /\ UNCHANGED <<audits, now>>

Reload(r) ==
  /\ request[r].pc = "reload"
  /\ request' = [request EXCEPT ![r].pc = "audit",
                   ![r].after = rows[request[r].safeguard]]
  /\ UNCHANGED <<rows, audits, now>>

AuditOf(q) ==
  [action |-> q.op, safeguard |-> q.safeguard, actor |-> q.actor,
   before |-> q.before, after |-> q.after]

RecordAudit(r) ==
  /\ request[r].pc = "audit"
  /\ audits' = audits \cup {AuditOf(request[r])}
  /\ Finish(r)
  /\ UNCHANGED <<rows, now>>

\* The caller disconnects, a statement fails, or the process stops.
Interrupt(r) ==
  /\ request[r].pc # "idle"
  /\ Finish(r)
  /\ UNCHANGED <<rows, audits, now>>

Tick ==
  /\ now < MaxTime
  /\ now' = now + 1
  /\ UNCHANGED <<rows, request, audits>>

Step(r) ==
  \/ InsertSafeguard(r)
  \/ ReadForUpdate(r) \/ UpdateSafeguard(r) \/ SyncLifecycle(r)
  \/ ReadForVerify(r) \/ ChooseTarget(r) \/ ReadForChange(r) \/ SetLifecycle(r)
  \/ Reload(r) \/ RecordAudit(r)

Next == Tick \/ \E r \in Requests : Begin(r) \/ Step(r) \/ Interrupt(r)

Spec == Init /\ [][Next]_vars
----------------------------------------------------------------------------
(* Properties.                                                              *)

\* Every row, request and audit entry, also one about to be written, has the
\* shape its table or handler gives it.
TypeOK ==
  /\ rows \in [SafeguardIds -> Row \cup {Null}]
  /\ request \in [Requests -> Request]
  /\ \A r \in Requests : request[r].pc = "audit" => AuditOf(request[r]) \in Audit
  /\ audits \subseteq Audit
  /\ now \in Time

\* A safeguard counts as active or expired only on somebody's verification: a
\* date and a user are on record, also after invalidate, restore and the two
\* statements of an update have overtaken each other.
ActiveWasVerified ==
  \A g \in SafeguardIds :
    rows[g] # Null =>
      /\ rows[g].state \in {"active", "expired"} => rows[g].verifiedAt # Null
      /\ (rows[g].verifiedAt = Null) <=> (rows[g].verifiedBy = Null)

\* An invalidation holds until a verification or a restore of it: no update,
\* however stale its copy, brings the safeguard back into the calculation.
InvalidationHolds ==
  [][\A g \in SafeguardIds :
       rows[g] # Null /\ rows[g].state = "invalid" /\ rows'[g].state # "invalid"
         => \E r \in Requests :
              /\ request[r].op \in {"verify", "restore"}
              /\ request[r].safeguard = g /\ request[r].pc = "write"]_vars

\* The date and the user of the last verification change in a verification
\* only: an update that read the row before does not bring back the old ones.
VerificationKept ==
  [][\A g \in SafeguardIds :
       /\ rows[g] # Null
       /\ <<rows'[g].verifiedAt, rows'[g].verifiedBy>> #
            <<rows[g].verifiedAt, rows[g].verifiedBy>>
       => \E r \in Requests :
            request[r].op = "verify" /\ request[r].safeguard = g
              /\ request[r].pc = "write"]_vars

\* Whatever overtakes whatever, a safeguard expires only from active, comes to
\* pending only from invalid, and never goes from invalid to expired.
LifecycleOrder ==
  [][\A g \in SafeguardIds :
       rows[g] # Null /\ rows'[g].state # rows[g].state =>
         <<rows[g].state, rows'[g].state>> \in
           {<<"pending", "active">>, <<"expired", "active">>, <<"invalid", "active">>,
            <<"active", "expired">>, <<"invalid", "pending">>,
            <<"pending", "invalid">>, <<"active", "invalid">>, <<"expired", "invalid">>}]_vars

\* A safeguard whose verification is still good, to the last day of its
\* interval, is expired only by an update that was overtaken: another request
\* verified it, or changed the interval, since that update read it.
ExpiryNotEarly ==
  [][\A g \in SafeguardIds :
       /\ rows[g] # Null
       /\ rows[g].state # "expired" /\ rows'[g].state = "expired"
       /\ now <= rows[g].verifiedAt + rows[g].interval
       => \E r \in Requests :
            /\ request[r].pc = "sync" /\ request[r].safeguard = g
            /\ \/ request[r].before.verifiedAt # rows[g].verifiedAt
               \/ request[r].after.interval # rows[g].interval]_vars

\* What the interface list says of restore: the safeguard is effective again,
\* provided its last verification has not expired meanwhile.
RestoreMakesActive ==
  [][\A r \in Requests :
       /\ request[r].op = "restore" /\ request[r].pc = "write"
       /\ request'[r].pc = "reload"
       /\ rows[request[r].safeguard].verifiedAt # Null
       /\ ~ Expired(rows[request[r].safeguard].verifiedAt, rows[request[r].safeguard].interval)
       => rows'[request[r].safeguard].state = "active"]_vars
=============================================================================
