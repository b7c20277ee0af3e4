---------------------- MODULE SafeguardLifecycleProofs ----------------------
(* Theorems about SafeguardLifecycle for every set of requests, safeguards, *)
(* users and intervals, and for any length of time.                         *)
EXTENDS SafeguardLifecycle, TLAPS

\* What an update has decided when it is about to write: its copy has the
\* state it read, or it is expired under the interval that is to be written.
CopyOK(q) ==
  /\ q.before \in Row /\ q.after \in Row
  /\ q.after.state = q.before.state
       \/ /\ q.before.state = "active" /\ q.after.state = "expired"
          /\ q.before.verifiedAt \in Nat
          /\ now > q.before.verifiedAt + q.after.interval

\* What a request knows at each of its program counters.  A restore that aims
\* at active has seen a verification, and a verification is never taken back.
RequestOK(r) ==
  LET q == request[r]
      g == q.safeguard
  IN
  /\ q.pc # "idle" => q.actor \in Users /\ q.op \in Operations
  /\ q.pc = "insert" =>
       /\ q.op = "create" /\ q.before = Null
       /\ q.interval \in Intervals /\ q.verifiedAt \in Time \cup {Null}
  /\ q.pc \in {"check", "read", "write", "sync", "reload", "audit"} =>
       g \in SafeguardIds /\ rows[g] # Null
  /\ q.pc = "check" => q.op = "restore"
  /\ q.pc \in {"read", "write"} =>
       /\ q.op # "create"
       /\ q.op = "verify" => q.verifiedAt \in Time
       /\ q.op = "restore" =>
            /\ q.target \in {"active", "pending"}
            /\ q.target = "active" => rows[g].verifiedAt # Null
  /\ q.pc = "write" => q.before \in Row
  /\ q.pc = "write" /\ q.op = "update" => CopyOK(q)
  /\ q.pc = "sync" =>
       q.op = "update" /\ CopyOK(q) /\ q.after.state # q.before.state
  /\ q.pc = "reload" => q.before \in Row
  /\ q.pc = "audit" => q.before \in Row \cup {Null} /\ q.after \in Row

Inv == TypeOK /\ ActiveWasVerified /\ \A r \in Requests : RequestOK(r)

\* The part of the invariant that speaks of the tables.
TablesOK ==
  /\ rows \in [SafeguardIds -> Row \cup {Null}]
  /\ audits \subseteq Audit
  /\ now \in Time
  /\ ActiveWasVerified

\* Rows never disappear, nor does a verification, and time does not go back.
Keeps ==
  /\ \A g \in SafeguardIds :
       rows[g] # Null =>
         rows'[g] # Null /\ (rows[g].verifiedAt # Null => rows'[g].verifiedAt # Null)
  /\ now <= now'

\* An idle request record is well typed.
LEMMA IdleType == Idle \in Request
BY DEF Idle, Request

\* What the invariant says of one request and of the rows, spelled out.
LEMMA Facts ==
  ASSUME Inv, NEW r \in Requests
  PROVE  /\ TablesOK
         /\ request \in [Requests -> Request]
         /\ request[r] \in Request
         /\ RequestOK(r)
         /\ \A g \in SafeguardIds : rows[g] # Null => rows[g] \in Row
BY DEF Inv, TypeOK, TablesOK

\* At the start no row exists and every request is idle.
LEMMA InvInit == Init => Inv
BY IdleType, TimeAssumption
   DEF Init, Inv, TypeOK, ActiveWasVerified, RequestOK, Idle, Time

\* A request that does nothing stays in order while the tables move on.
LEMMA OthersKept ==
  ASSUME Inv, TablesOK', Keeps, NEW p \in Requests, request'[p] = request[p]
  PROVE  RequestOK(p)'
<1>1. RequestOK(p) /\ TablesOK
  BY Facts
<1>2. now \in Nat /\ now' \in Nat /\ now <= now'
  BY <1>1, TimeAssumption DEF TablesOK, Time, Keeps
<1>3. CopyOK(request[p]) => CopyOK(request[p])'
  <2>1. SUFFICES ASSUME CopyOK(request[p]),
                        request[p].before.verifiedAt \in Nat,
                        now > request[p].before.verifiedAt + request[p].after.interval
                 PROVE  now' > request[p].before.verifiedAt + request[p].after.interval
    BY <1>2 DEF CopyOK
  <2>2. request[p].after.interval \in Nat
    BY <2>1, IntervalAssumption DEF CopyOK, Row
  <2>. QED BY <1>2, <2>1, <2>2
<1>. QED BY <1>1, <1>3 DEF RequestOK, Keeps

\* What a step of request r has to show: its new record, and that the tables
\* stay in order; the other requests follow.
LEMMA InvStep ==
  ASSUME Inv, NEW r \in Requests, NEW q \in Request,
         request' = [request EXCEPT ![r] = q],
         TablesOK', Keeps, RequestOK(r)'
  PROVE  Inv'
<1>1. request \in [Requests -> Request]
  BY DEF Inv, TypeOK
<1>2. request' \in [Requests -> Request] /\ request'[r] = q
  BY <1>1
<1>3. ASSUME NEW p \in Requests PROVE RequestOK(p)'
  <2>1. CASE p = r
    BY <2>1
  <2>2. CASE p # r
    BY <2>2, <1>1, OthersKept
  <2>. QED BY <2>1, <2>2
<1>4. ASSUME NEW p \in Requests, request'[p].pc = "audit"
      PROVE  AuditOf(request'[p]) \in Audit
  BY <1>2, <1>3, <1>4 DEF RequestOK, AuditOf, Audit
<1>5. TypeOK'
  BY <1>2, <1>4 DEF TypeOK, TablesOK, AuditOf
<1>. QED BY <1>3, <1>5 DEF Inv, TablesOK

\* The tables standing still.
LEMMA StillKeeps ==
  ASSUME Inv, UNCHANGED <<rows, now>>, audits' \subseteq Audit
  PROVE  Keeps /\ TablesOK'
<1>1. now \in Nat
  BY TimeAssumption DEF Inv, TypeOK, Time
<1>. QED BY <1>1 DEF Inv, TypeOK, Keeps, TablesOK, ActiveWasVerified

\* Answering.
LEMMA InvFinish ==
  ASSUME Inv, NEW r \in Requests, Finish(r), UNCHANGED <<rows, now>>,
         audits' \subseteq Audit
  PROVE  Inv'
<1>1. request' = [request EXCEPT ![r] = Idle]
  BY DEF Finish
<1>2. RequestOK(r)'
  BY <1>1, Facts DEF RequestOK, Idle
<1>. QED BY <1>1, <1>2, IdleType, InvStep, StillKeeps
----------------------------------------------------------------------------
\* Arrival.
LEMMA InvBegin ==
  ASSUME Inv, NEW r \in Requests, Begin(r)
  PROVE  Inv'
<1>. USE Facts
<1>1. CASE BeginCreate(r)
  <2>1. PICK u \in Users, i \in Intervals, at \in 0 .. now \cup {Null} :
          request' = [request EXCEPT ![r] =
            [Idle EXCEPT !.op = "create", !.pc = "insert", !.actor = u,
                         !.interval = i, !.verifiedAt = at]]
    BY <1>1 DEF BeginCreate
  <2>. DEFINE q == [Idle EXCEPT !.op = "create", !.pc = "insert", !.actor = u,
                                !.interval = i, !.verifiedAt = at]
  <2>2. at \in Time \cup {Null}
    BY TimeAssumption DEF TablesOK, Time
  <2>3. q \in Request
    BY <2>2 DEF Idle, Request, Operations
  <2>4. RequestOK(r)'
    BY <2>1, <2>2 DEF RequestOK, Idle, Operations
  <2>. QED BY <1>1, <2>1, <2>3, <2>4, InvStep, StillKeeps DEF BeginCreate, TablesOK
<1>2. ASSUME NEW op \in Operations \ {"create"}, NEW pc \in {"read", "check"},
             NEW i \in Intervals \cup {Null}, NEW at \in Time \cup {Null},
             pc = "check" => op = "restore",
             pc = "read" => op # "restore",
             op = "verify" => at \in Time,
             BeginOn(r, op, pc, i, at)
      PROVE  Inv'
  <2>1. PICK u \in Users, g \in SafeguardIds :
          /\ rows[g] # Null
          /\ request' = [request EXCEPT ![r] =
               [Idle EXCEPT !.op = op, !.pc = pc, !.actor = u, !.safeguard = g,
                            !.interval = i, !.verifiedAt = at]]
    BY <1>2 DEF BeginOn
  <2>. DEFINE q == [Idle EXCEPT !.op = op, !.pc = pc, !.actor = u, !.safeguard = g,
                                !.interval = i, !.verifiedAt = at]
  <2>2. q \in Request
    BY <1>2 DEF Idle, Request
  <2>3. rows' = rows /\ now' = now /\ audits' = audits
    BY <1>2 DEF BeginOn
  <2>4. request'[r] = q
    BY <2>1
  <2>5. RequestOK(r)'
    BY <1>2, <2>1, <2>3, <2>4 DEF RequestOK, Idle
  <2>. QED BY <2>1, <2>2, <2>3, <2>5, InvStep, StillKeeps DEF TablesOK
<1>3. 0 .. now \subseteq Time
  BY TimeAssumption DEF TablesOK, Time
<1>. QED BY <1>1, <1>2, <1>3 DEF Begin, Operations

\* Reading: the checks of each operation end up in what its request knows.
LEMMA InvRead ==
  ASSUME Inv, NEW r \in Requests,
         ReadForUpdate(r) \/ ReadForVerify(r) \/ ChooseTarget(r)
           \/ ReadForChange(r) \/ Reload(r)
  PROVE  Inv'
<1>. DEFINE q == request[r]
            g == q.safeguard
<1>1. /\ rows' = rows /\ audits' = audits /\ now' = now
      /\ audits' \subseteq Audit
  BY Facts DEF ReadForUpdate, ReadForVerify, ChooseTarget, ReadForChange, Reload, TablesOK
<1>2. /\ g \in SafeguardIds /\ rows[g] \in Row /\ q \in Request /\ RequestOK(r)
      /\ request \in [Requests -> Request]
  BY Facts DEF RequestOK, ReadForUpdate, ReadForVerify, ChooseTarget, ReadForChange, Reload
<1>3. Keeps /\ TablesOK'
  BY <1>1, StillKeeps
<1>4. CASE ReadForUpdate(r)
  <2>. DEFINE copy == Aged(WithInterval(rows[g], q.interval))
              new == [q EXCEPT !.pc = "write", !.before = rows[g], !.after = copy]
  <2>1. WithInterval(rows[g], q.interval) \in Row
    BY <1>2 DEF WithInterval, Row, Request
  <2>2. copy \in Row
    BY <2>1 DEF Aged, Row, States
  <2>3. new \in Request
    BY <1>2, <2>2 DEF Request
  <2>4. request' = [request EXCEPT ![r] = new]
    BY <1>4 DEF ReadForUpdate
  <2>5. CopyOK(new)
    <3>1. CASE copy.state = rows[g].state
      BY <3>1, <1>2, <2>2 DEF CopyOK, Request
    <3>2. CASE copy.state # rows[g].state
      BY <3>2, <1>2, <2>1, <2>2, TimeAssumption, NullAssumption
         DEF CopyOK, Aged, WithInterval, Expired, Row, Time, Request
    <3>. QED BY <3>1, <3>2
  <2>6. request'[r] = new
    BY <2>4, <1>2
  <2>7. RequestOK(r)'
    BY <1>1, <1>2, <1>4, <2>5, <2>6 DEF RequestOK, ReadForUpdate, CopyOK, Request
  <2>. QED BY <1>3, <2>3, <2>4, <2>7, InvStep
<1>5. CASE ReadForVerify(r)
  <2>1. CASE Expired(q.verifiedAt, rows[g].interval)
    BY <1>1, <1>5, <2>1, InvFinish DEF ReadForVerify
  <2>2. CASE ~ Expired(q.verifiedAt, rows[g].interval)
    <3>. DEFINE new == [q EXCEPT !.pc = "write", !.before = rows[g]]
    <3>1. new \in Request
      BY <1>2 DEF Request
    <3>2. request' = [request EXCEPT ![r] = new]
      BY <1>5, <2>2 DEF ReadForVerify
    <3>3. request'[r] = new
      BY <3>2, <1>2
    <3>4. RequestOK(r)'
      BY <1>1, <1>2, <1>5, <3>3 DEF RequestOK, ReadForVerify, Request
    <3>. QED BY <1>3, <3>1, <3>2, <3>4, InvStep
  <2>. QED BY <2>1, <2>2
<1>6. CASE ChooseTarget(r)
  <2>. DEFINE target == IF Effective(rows[g]) THEN "active" ELSE "pending"
              new == [q EXCEPT !.pc = "read", !.target = target]
  <2>. target \in {"active", "pending"}
    OBVIOUS
  <2>. HIDE DEF target
  <2>1. new \in Request
    BY <1>2 DEF Request, States
  <2>2. request' = [request EXCEPT ![r] = new]
    BY <1>6 DEF ChooseTarget, target
  <2>3. request'[r] = new
    BY <2>2, <1>2
  <2>4. target = "active" => rows[g].verifiedAt # Null
    BY DEF Effective, target
  <2>5. RequestOK(r)'
    BY <1>1, <1>2, <1>6, <2>3, <2>4 DEF RequestOK, ChooseTarget, Request
  <2>. QED BY <1>3, <2>1, <2>2, <2>5, InvStep
<1>7. CASE ReadForChange(r)
  <2>. DEFINE new == [q EXCEPT !.pc = "write", !.before = rows[g]]
  <2>1. new \in Request
    BY <1>2 DEF Request
  <2>2. request' = [request EXCEPT ![r] = new]
    BY <1>7 DEF ReadForChange
  <2>3. request'[r] = new
    BY <2>2, <1>2
  <2>4. RequestOK(r)'
    BY <1>1, <1>2, <1>7, <2>3 DEF RequestOK, ReadForChange, Request
  <2>. QED BY <1>3, <2>1, <2>2, <2>4, InvStep
<1>8. CASE Reload(r)
  <2>. DEFINE new == [q EXCEPT !.pc = "audit", !.after = rows[g]]
  <2>1. new \in Request
    BY <1>2 DEF Request
  <2>2. request' = [request EXCEPT ![r] = new]
    BY <1>8 DEF Reload
  <2>3. request'[r] = new
    BY <2>2, <1>2
  <2>4. RequestOK(r)'
    BY <1>1, <1>2, <1>8, <2>3 DEF RequestOK, Reload, Request
  <2>. QED BY <1>3, <2>1, <2>2, <2>4, InvStep
<1>. QED BY <1>4, <1>5, <1>6, <1>7, <1>8
\* A row as ActiveWasVerified asks for it.
Vouched(row) ==
  /\ row.state \in {"active", "expired"} => row.verifiedAt # Null
  /\ (row.verifiedAt = Null) <=> (row.verifiedBy = Null)

\* One row changes, or appears, and a verification on it is not lost.
LEMMA OneRow ==
  ASSUME Inv, NEW g \in SafeguardIds, NEW w \in Row, Vouched(w),
         rows[g] # Null /\ rows[g].verifiedAt # Null => w.verifiedAt # Null,
         rows' = [rows EXCEPT ![g] = w], UNCHANGED <<audits, now>>
  PROVE  Keeps /\ TablesOK'
<1>1. rows \in [SafeguardIds -> Row \cup {Null}] /\ now \in Nat
  BY TimeAssumption DEF Inv, TypeOK, Time
<1>2. w # Null
  BY NullAssumption
<1>3. Keeps
  BY <1>1, <1>2 DEF Keeps
<1>4. ActiveWasVerified'
  <2>1. ASSUME NEW h \in SafeguardIds, rows'[h] # Null PROVE Vouched(rows'[h])
    BY <1>1, <2>1 DEF Inv, ActiveWasVerified, Vouched
  <2>. QED BY <2>1 DEF ActiveWasVerified, Vouched
<1>. QED BY <1>1, <1>3, <1>4 DEF Inv, TypeOK, TablesOK

\* A row that exists is well typed and vouched for.
LEMMA RowFacts ==
  ASSUME Inv, NEW r \in Requests,
         request[r].pc \in {"check", "read", "write", "sync", "reload", "audit"}
  PROVE  /\ request[r].safeguard \in SafeguardIds
         /\ rows[request[r].safeguard] \in Row
         /\ rows[request[r].safeguard] # Null
         /\ Vouched(rows[request[r].safeguard])
BY Facts DEF RequestOK, TablesOK, ActiveWasVerified, Vouched

\* A new safeguard is never verified, hence not active.
LEMMA InvInsert ==
  ASSUME Inv, NEW r \in Requests, InsertSafeguard(r)
  PROVE  Inv'
<1>. DEFINE q == request[r]
            at == q.verifiedAt
            w == [interval |-> q.interval, verifiedAt |-> at,
                  verifiedBy |-> IF at = Null THEN Null ELSE q.actor,
                  state |-> InitialState(at, q.interval)]
<1>1. /\ q \in Request /\ RequestOK(r) /\ q.pc = "insert"
      /\ request \in [Requests -> Request]
  BY Facts DEF InsertSafeguard
<1>2. PICK g \in SafeguardIds :
        /\ rows[g] = Null
        /\ rows' = [rows EXCEPT ![g] = w]
        /\ request' = [request EXCEPT ![r].pc = "audit", ![r].safeguard = g,
                                      ![r].after = w]
  BY DEF InsertSafeguard
<1>3. InitialState(at, q.interval) \in States
  BY DEF InitialState, States
<1>4. w \in Row
  BY <1>1, <1>3 DEF RequestOK, Row
<1>5. Vouched(w)
  BY <1>1, NullAssumption DEF RequestOK, Vouched, InitialState
<1>6. Keeps /\ TablesOK'
  BY <1>2, <1>4, <1>5, OneRow DEF InsertSafeguard
<1>. DEFINE new == [q EXCEPT !.pc = "audit", !.safeguard = g, !.after = w]
<1>. HIDE DEF w
<1>7. new \in Request
  BY <1>1, <1>4 DEF Request
<1>8. request' = [request EXCEPT ![r] = new] /\ request'[r] = new
  BY <1>1, <1>2
<1>9. RequestOK(r)'
  <2>1. rows'[g] # Null
    BY <1>2, <1>4, NullAssumption, Facts DEF TablesOK
  <2>. QED BY <1>1, <1>4, <1>8, <2>1 DEF RequestOK, Request
<1>. QED BY <1>6, <1>7, <1>8, <1>9, InvStep

\* The first statement of an update.
LEMMA InvUpdate ==
  ASSUME Inv, NEW r \in Requests, UpdateSafeguard(r)
  PROVE  Inv'
<1>. DEFINE q == request[r]
            g == q.safeguard
            w == Updated(rows[g], q.after)
            new == [q EXCEPT !.pc = IF q.after.state # q.before.state
                                      THEN "sync" ELSE "audit"]
<1>1. /\ q \in Request /\ RequestOK(r) /\ q.pc = "write" /\ q.op = "update"
      /\ request \in [Requests -> Request]
      /\ rows \in [SafeguardIds -> Row \cup {Null}]
  BY Facts DEF UpdateSafeguard, TablesOK
<1>2. g \in SafeguardIds /\ rows[g] \in Row /\ Vouched(rows[g])
  BY <1>1, RowFacts
<1>3. CopyOK(q)
  BY <1>1 DEF RequestOK
<1>4. w \in Row /\ w.verifiedAt = rows[g].verifiedAt
        /\ w.verifiedBy = rows[g].verifiedBy /\ w.state = rows[g].state
  BY <1>2, <1>3 DEF CopyOK, Updated, Row
<1>5. Vouched(w)
  BY <1>2, <1>4 DEF Vouched
<1>6. rows' = [rows EXCEPT ![g] = w] /\ request' = [request EXCEPT ![r] = new]
  BY <1>1 DEF UpdateSafeguard
<1>7. UNCHANGED <<audits, now>>
  BY DEF UpdateSafeguard
<1>. HIDE DEF w
<1>8. Keeps /\ TablesOK'
  BY <1>2, <1>4, <1>5, <1>6, <1>7, OneRow
<1>9. new \in Request /\ request'[r] = new
  BY <1>1, <1>6 DEF Request
<1>10. rows'[g] # Null
  BY <1>1, <1>2, <1>4, <1>6, NullAssumption
<1>11. CopyOK(request[r])'
  BY <1>1, <1>3, <1>7, <1>9 DEF CopyOK, Request
<1>12. RequestOK(r)'
  BY <1>1, <1>2, <1>3, <1>9, <1>10, <1>11 DEF RequestOK, CopyOK, Request
<1>. QED BY <1>6, <1>8, <1>9, <1>12, InvStep

\* The second one: it finds the state that was read, which was active.
LEMMA InvSync ==
  ASSUME Inv, NEW r \in Requests, SyncLifecycle(r)
  PROVE  Inv'
<1>. DEFINE q == request[r]
            g == q.safeguard
            w == [rows[g] EXCEPT !.state = "expired"]
            new == [q EXCEPT !.pc = "audit"]
<1>1. /\ q \in Request /\ RequestOK(r) /\ q.pc = "sync"
      /\ request \in [Requests -> Request]
      /\ rows \in [SafeguardIds -> Row \cup {Null}]
  BY Facts DEF SyncLifecycle, TablesOK
<1>2. g \in SafeguardIds /\ rows[g] \in Row /\ rows[g] # Null /\ Vouched(rows[g])
  BY <1>1, RowFacts
<1>3. CopyOK(q) /\ q.before.state = "active" /\ q.after.state = "expired"
  BY <1>1 DEF RequestOK, CopyOK
<1>4. /\ rows' = IF rows[g].state = "active" THEN [rows EXCEPT ![g] = w] ELSE rows
      /\ UNCHANGED <<audits, now>>
      /\ request' = [request EXCEPT ![r] = new]
  BY <1>1, <1>2, <1>3 DEF SyncLifecycle
<1>5. Keeps /\ TablesOK'
  <2>1. CASE rows[g].state = "active"
    <3>1. w \in Row /\ Vouched(w) /\ w.verifiedAt = rows[g].verifiedAt
      BY <1>2, <2>1 DEF Row, States, Vouched
    <3>. QED BY <1>2, <1>4, <2>1, <3>1, OneRow
  <2>2. CASE rows[g].state # "active"
    BY <1>4, <2>2, StillKeeps, Facts DEF TablesOK
  <2>. QED BY <2>1, <2>2
<1>6. new \in Request /\ request'[r] = new
  BY <1>1, <1>4 DEF Request
<1>7. rows'[g] # Null
  BY <1>2, <1>5 DEF Keeps
<1>8. RequestOK(r)'
  BY <1>1, <1>2, <1>3, <1>6, <1>7 DEF RequestOK, CopyOK, Request
<1>. QED BY <1>4, <1>5, <1>6, <1>8, InvStep

\* What verify, invalidate and restore make of a row.
LEMMA ChangedRow ==
  ASSUME Inv, NEW r \in Requests,
         request[r].pc = "write", request[r].op # "update"
  PROVE  LET row == rows[request[r].safeguard]
             w == Changed(request[r], row)
         IN  /\ request[r].op \in {"verify", "invalidate", "restore"}
             /\ w \in Row /\ Vouched(w)
             /\ row.verifiedAt # Null => w.verifiedAt # Null
<1>. DEFINE q == request[r]
            row == rows[q.safeguard]
<1>1. row \in Row /\ Vouched(row) /\ RequestOK(r)
  BY RowFacts, Facts
<1>2. CASE q.op = "verify"
  <2>1. q.verifiedAt \in Time /\ q.actor \in Users
    BY <1>1, <1>2 DEF RequestOK
  <2>2. q.verifiedAt # Null /\ q.actor # Null
    BY <2>1, TimeAssumption, NullAssumption DEF Time
  <2>. DEFINE w == Verified(row, q.verifiedAt, q.actor)
  <2>3. w \in Row /\ Vouched(w) /\ w.verifiedAt # Null
    BY <1>1, <2>1, <2>2 DEF Verified, Row, States, Vouched
  <2>4. Changed(q, row) = w
    BY <1>2 DEF Changed
  <2>. QED BY <1>2, <2>3, <2>4
<1>3. CASE q.op = "invalidate"
  BY <1>1, <1>3 DEF Changed, Row, States, Vouched
<1>4. CASE q.op = "restore"
  BY <1>1, <1>4 DEF Changed, RequestOK, Row, States, Vouched
<1>. QED BY <1>1, <1>2, <1>3, <1>4 DEF RequestOK, Operations

\* The conditional updates.
LEMMA InvSetLifecycle ==
  ASSUME Inv, NEW r \in Requests, SetLifecycle(r)
  PROVE  Inv'
<1>. DEFINE q == request[r]
            g == q.safeguard
            w == Changed(q, rows[g])
            new == [q EXCEPT !.pc = "reload"]
<1>1. /\ q \in Request /\ RequestOK(r) /\ q.pc = "write" /\ q.op # "update"
      /\ request \in [Requests -> Request]
      /\ rows \in [SafeguardIds -> Row \cup {Null}]
      /\ UNCHANGED <<audits, now>> /\ audits \subseteq Audit
  BY Facts DEF SetLifecycle, TablesOK
<1>2. g \in SafeguardIds /\ rows[g] \in Row /\ rows[g] # Null
  BY <1>1, RowFacts
<1>3. CASE rows[g].state \in FromStates(q.op)
  <2>1. rows' = [rows EXCEPT ![g] = w] /\ request' = [request EXCEPT ![r] = new]
    BY <1>3 DEF SetLifecycle
  <2>2. /\ q.op \in {"verify", "invalidate", "restore"} /\ w \in Row /\ Vouched(w)
        /\ rows[g].verifiedAt # Null => w.verifiedAt # Null
    BY <1>1, ChangedRow
  <2>. HIDE DEF w
  <2>3. Keeps /\ TablesOK'
    BY <1>1, <1>2, <2>1, <2>2, OneRow
  <2>4. new \in Request /\ request'[r] = new
    BY <1>1, <2>1 DEF Request
  <2>5. rows'[g] # Null
    BY <1>2, <2>3 DEF Keeps
  <2>6. RequestOK(r)'
    BY <1>1, <1>2, <2>2, <2>4, <2>5 DEF RequestOK, Request
  <2>. QED BY <2>1, <2>3, <2>4, <2>6, InvStep
<1>4. CASE rows[g].state \notin FromStates(q.op)
  BY <1>1, <1>4, InvFinish DEF SetLifecycle
<1>. QED BY <1>3, <1>4

\* The entry that is written is well typed.
LEMMA InvRecord ==
  ASSUME Inv, NEW r \in Requests, RecordAudit(r)
  PROVE  Inv'
<1>1. AuditOf(request[r]) \in Audit /\ audits \subseteq Audit
  BY DEF Inv, TypeOK, RecordAudit
<1>2. audits' \subseteq Audit
  BY <1>1 DEF RecordAudit
<1>. QED BY <1>2, InvFinish DEF RecordAudit

\* Time passes: what has expired stays expired.
LEMMA InvTick ==
  ASSUME Inv, Tick
  PROVE  Inv'
<1>1. now \in Nat /\ now' = now + 1 /\ now' \in Time
      /\ UNCHANGED <<rows, request, audits>>
  BY TimeAssumption DEF Tick, Inv, TypeOK, Time
<1>2. Keeps /\ TablesOK'
  BY <1>1 DEF Keeps, TablesOK, Inv, TypeOK, ActiveWasVerified
<1>3. \A p \in Requests : RequestOK(p)'
  BY <1>1, <1>2, OthersKept
<1>. QED BY <1>1, <1>2, <1>3 DEF Inv, TypeOK, TablesOK, AuditOf

\* The invariant is inductive.
LEMMA InvNext == Inv /\ [Next]_vars => Inv'
<1>. SUFFICES ASSUME Inv, [Next]_vars PROVE Inv'
  OBVIOUS
<1>1. CASE UNCHANGED vars
  BY <1>1 DEF vars, Inv, TypeOK, ActiveWasVerified, RequestOK, CopyOK, AuditOf
<1>2. CASE Tick
  BY <1>2, InvTick
<1>3. ASSUME NEW r \in Requests, Begin(r) \/ Step(r) \/ Interrupt(r)
      PROVE  Inv'
  <2>1. CASE Interrupt(r)
    BY <2>1, InvFinish, Facts DEF Interrupt, TablesOK
  <2>. QED BY <1>3, <2>1, InvBegin, InvInsert, InvRead, InvUpdate, InvSync,
              InvSetLifecycle, InvRecord DEF Step
<1>. QED BY <1>1, <1>2, <1>3 DEF Next

\* Rows, requests and audit entries have the shape of their tables and handlers.
THEOREM TypeCorrect == Spec => []TypeOK
<1>1. Inv => TypeOK
  BY DEF Inv
<1>. QED BY <1>1, InvInit, InvNext, PTL DEF Spec

\* A safeguard that is active or expired has a verification, with its date and
\* its user, on record.
THEOREM ActiveVerified == Spec => []ActiveWasVerified
<1>1. Inv => ActiveWasVerified
  BY DEF Inv
<1>. QED BY <1>1, InvInit, InvNext, PTL DEF Spec----------------------------------------------------------------------------
\* The statements that change a row that exists.
WritesFields(r, g) ==
  /\ request[r].pc = "write" /\ request[r].op = "update"
  /\ rows'[g] = Updated(rows[g], request[r].after)

Expires(r, g) ==
  /\ request[r].pc = "sync" /\ request[r].op = "update"
  /\ rows[g].state = "active" /\ request[r].before.state = "active"
  /\ request[r].before.verifiedAt \in Nat
  /\ now > request[r].before.verifiedAt + request[r].after.interval
  /\ rows'[g] = [rows[g] EXCEPT !.state = "expired"]

Changes(r, g) ==
  /\ request[r].pc = "write" /\ request[r].op \in {"verify", "invalidate", "restore"}
  /\ rows[g].state \in FromStates(request[r].op)
  /\ rows'[g] = Changed(request[r], rows[g])

\* A step changes a row by one of these statements or not at all.
LEMMA RowStep ==
  ASSUME Inv, [Next]_vars, NEW g \in SafeguardIds, rows[g] # Null
  PROVE  \/ rows'[g] = rows[g]
         \/ \E r \in Requests :
              /\ request[r].safeguard = g
              /\ WritesFields(r, g) \/ Expires(r, g) \/ Changes(r, g)
<1>1. CASE UNCHANGED rows
  BY <1>1
<1>2. ASSUME NEW r \in Requests, InsertSafeguard(r)
      PROVE  rows'[g] = rows[g]
  BY <1>2, Facts DEF InsertSafeguard, TablesOK
<1>3. ASSUME NEW r \in Requests, UpdateSafeguard(r)
      PROVE  rows'[g] = rows[g] \/ (request[r].safeguard = g /\ WritesFields(r, g))
  BY <1>3, Facts DEF UpdateSafeguard, WritesFields, TablesOK
<1>4. ASSUME NEW r \in Requests, SyncLifecycle(r)
      PROVE  rows'[g] = rows[g] \/ (request[r].safeguard = g /\ Expires(r, g))
  <2>1. CopyOK(request[r]) /\ request[r].op = "update" /\ request[r].pc = "sync"
          /\ request[r].after.state # request[r].before.state
    BY <1>4, Facts DEF SyncLifecycle, RequestOK
  <2>. QED BY <1>4, <2>1, Facts DEF SyncLifecycle, CopyOK, Expires, TablesOK
<1>5. ASSUME NEW r \in Requests, SetLifecycle(r)
      PROVE  rows'[g] = rows[g] \/ (request[r].safeguard = g /\ Changes(r, g))
  <2>1. request[r].pc = "write" /\ request[r].op \in {"verify", "invalidate", "restore"}
    BY <1>5, ChangedRow DEF SetLifecycle
  <2>. QED BY <1>5, <2>1, Facts DEF SetLifecycle, Changes, TablesOK
<1>6. CASE Next
  <2>1. CASE Tick
    BY <1>1, <2>1 DEF Tick
  <2>2. ASSUME NEW r \in Requests, Begin(r) \/ Interrupt(r) \/ ReadForUpdate(r)
               \/ ReadForVerify(r) \/ ChooseTarget(r) \/ ReadForChange(r)
               \/ Reload(r) \/ RecordAudit(r)
        PROVE  UNCHANGED rows
    BY <2>2 DEF Begin, BeginCreate, BeginOn, Interrupt, ReadForUpdate, ReadForVerify,
                ChooseTarget, ReadForChange, Reload, RecordAudit
  <2>. QED BY <1>1, <1>2, <1>3, <1>4, <1>5, <1>6, <2>1, <2>2 DEF Next, Step
<1>. QED BY <1>1, <1>6 DEF vars

\* A row whose fields are written keeps its state
\* and its verification.
LEMMA FieldsOnly ==
  ASSUME Inv, NEW g \in SafeguardIds, rows[g] # Null, NEW r \in Requests,
         request[r].safeguard = g, WritesFields(r, g)
  PROVE  /\ rows'[g].state = rows[g].state
         /\ rows'[g].verifiedAt = rows[g].verifiedAt
         /\ rows'[g].verifiedBy = rows[g].verifiedBy
<1>1. rows[g] \in Row
  BY Facts
<1>. QED BY <1>1 DEF WritesFields, Updated, Row

\* Only a verification or a restore ends an invalidation.
THEOREM InvalidationLasts == Spec => InvalidationHolds
<1>. DEFINE Holds(g) ==
       rows[g] # Null /\ rows[g].state = "invalid" /\ rows'[g].state # "invalid"
         => \E r \in Requests :
              /\ request[r].op \in {"verify", "restore"}
              /\ request[r].safeguard = g /\ request[r].pc = "write"
<1>1. ASSUME Inv, [Next]_vars, NEW g \in SafeguardIds PROVE Holds(g)
  <2>1. SUFFICES ASSUME rows[g] # Null, rows[g].state = "invalid",
                        rows'[g].state # "invalid"
                 PROVE  \E r \in Requests :
                          /\ request[r].op \in {"verify", "restore"}
                          /\ request[r].safeguard = g /\ request[r].pc = "write"
    OBVIOUS
  <2>2. PICK r \in Requests :
          /\ request[r].safeguard = g
          /\ WritesFields(r, g) \/ Expires(r, g) \/ Changes(r, g)
    BY <1>1, <2>1, RowStep
  <2>3. ~ WritesFields(r, g)
    BY <1>1, <2>1, <2>2, FieldsOnly
  <2>4. ~ Expires(r, g)
    BY <2>1 DEF Expires
  <2>5. request[r].op # "invalidate"
    BY <2>1, <2>2, <2>3, <2>4 DEF Changes, FromStates
  <2>. QED BY <2>2, <2>3, <2>4, <2>5 DEF Changes
<1>2. Inv /\ [Next]_vars => [\A g \in SafeguardIds : Holds(g)]_vars
  BY <1>1
<1>. QED BY <1>2, InvInit, InvNext, PTL DEF Spec, InvalidationHolds

\* Only a verification changes the date and the user of the last one.
THEOREM VerificationsKept == Spec => VerificationKept
<1>. DEFINE Kept(g) ==
       /\ rows[g] # Null
       /\ <<rows'[g].verifiedAt, rows'[g].verifiedBy>> #
            <<rows[g].verifiedAt, rows[g].verifiedBy>>
       => \E r \in Requests :
            request[r].op = "verify" /\ request[r].safeguard = g
              /\ request[r].pc = "write"
<1>1. ASSUME Inv, [Next]_vars, NEW g \in SafeguardIds PROVE Kept(g)
  <2>1. SUFFICES ASSUME rows[g] # Null,
                        \/ rows'[g].verifiedAt # rows[g].verifiedAt
                        \/ rows'[g].verifiedBy # rows[g].verifiedBy
                 PROVE  \E r \in Requests :
                          request[r].op = "verify" /\ request[r].safeguard = g
                            /\ request[r].pc = "write"
    OBVIOUS
  <2>2. PICK r \in Requests :
          /\ request[r].safeguard = g
          /\ WritesFields(r, g) \/ Expires(r, g) \/ Changes(r, g)
    BY <1>1, <2>1, RowStep
  <2>3. ~ WritesFields(r, g)
    BY <1>1, <2>1, <2>2, FieldsOnly
  <2>4. rows[g] \in Row
    BY <1>1, <2>1, Facts
  <2>5. ~ Expires(r, g)
    BY <2>1, <2>4 DEF Expires, Row
  <2>6. request[r].op \notin {"invalidate", "restore"}
    BY <2>1, <2>2, <2>3, <2>4, <2>5 DEF Changes, Changed, Row
  <2>. QED BY <2>2, <2>3, <2>5, <2>6 DEF Changes
<1>2. Inv /\ [Next]_vars => [\A g \in SafeguardIds : Kept(g)]_vars
  BY <1>1
<1>. QED BY <1>2, InvInit, InvNext, PTL DEF Spec, VerificationKept

\* The lifecycle moves in its order, whatever overtakes whatever.
THEOREM LifecycleOrdered == Spec => LifecycleOrder
<1>. DEFINE Ordered(g) ==
       rows[g] # Null /\ rows'[g].state # rows[g].state =>
         <<rows[g].state, rows'[g].state>> \in
           {<<"pending", "active">>, <<"expired", "active">>, <<"invalid", "active">>,
            <<"active", "expired">>, <<"invalid", "pending">>,
            <<"pending", "invalid">>, <<"active", "invalid">>, <<"expired", "invalid">>}
<1>1. ASSUME Inv, [Next]_vars, NEW g \in SafeguardIds PROVE Ordered(g)
  <2>1. SUFFICES ASSUME rows[g] # Null, rows'[g].state # rows[g].state
                 PROVE  Ordered(g)
    OBVIOUS
  <2>2. PICK r \in Requests :
          /\ request[r].safeguard = g
          /\ WritesFields(r, g) \/ Expires(r, g) \/ Changes(r, g)
    BY <1>1, <2>1, RowStep
  <2>3. rows[g] \in Row /\ rows[g].state \in States /\ RequestOK(r)
    BY <1>1, <2>1, Facts DEF Row
  <2>4. CASE WritesFields(r, g)
    BY <1>1, <2>1, <2>2, <2>4, FieldsOnly
  <2>5. CASE Expires(r, g)
    BY <2>3, <2>5 DEF Expires, Row
  <2>6. CASE Changes(r, g)
    <3>1. CASE request[r].op = "verify"
      <4>1. rows'[g].state = "active"
        BY <2>3, <2>6, <3>1 DEF Changes, Changed, Verified, Row
      <4>. QED BY <2>1, <2>3, <4>1 DEF States
    <3>2. CASE request[r].op = "invalidate"
      <4>1. rows'[g].state = "invalid" /\ rows[g].state # "invalid"
        BY <2>3, <2>6, <3>2 DEF Changes, Changed, FromStates, Row
      <4>. QED BY <2>3, <4>1 DEF States
    <3>3. CASE request[r].op = "restore"
      <4>1. rows'[g].state \in {"active", "pending"} /\ rows[g].state = "invalid"
        BY <2>3, <2>6, <3>3 DEF Changes, Changed, FromStates, Row, RequestOK
      <4>. QED BY <4>1
    <3>. QED BY <2>6, <3>1, <3>2, <3>3 DEF Changes
  <2>. QED BY <2>2, <2>4, <2>5, <2>6
<1>2. Inv /\ [Next]_vars => [\A g \in SafeguardIds : Ordered(g)]_vars
  BY <1>1
<1>. QED BY <1>2, InvInit, InvNext, PTL DEF Spec, LifecycleOrder

\* Only an update that was overtaken expires a verification that is still good.
THEOREM ExpiresInTime == Spec => ExpiryNotEarly
<1>. DEFINE Timely(g) ==
       /\ rows[g] # Null
       /\ rows[g].state # "expired" /\ rows'[g].state = "expired"
       /\ now <= rows[g].verifiedAt + rows[g].interval
       => \E r \in Requests :
            /\ request[r].pc = "sync" /\ request[r].safeguard = g
            /\ \/ request[r].before.verifiedAt # rows[g].verifiedAt
               \/ request[r].after.interval # rows[g].interval
<1>1. ASSUME Inv, [Next]_vars, NEW g \in SafeguardIds PROVE Timely(g)
  <2>1. SUFFICES ASSUME rows[g] # Null, rows[g].state # "expired",
                        rows'[g].state = "expired",
                        now <= rows[g].verifiedAt + rows[g].interval
                 PROVE  \E r \in Requests :
                          /\ request[r].pc = "sync" /\ request[r].safeguard = g
                          /\ \/ request[r].before.verifiedAt # rows[g].verifiedAt
                             \/ request[r].after.interval # rows[g].interval
    OBVIOUS
  <2>2. PICK r \in Requests :
          /\ request[r].safeguard = g
          /\ WritesFields(r, g) \/ Expires(r, g) \/ Changes(r, g)
    BY <1>1, <2>1, RowStep
  <2>3. rows[g] \in Row /\ RequestOK(r)
    BY <1>1, <2>1, Facts
  <2>4. ~ WritesFields(r, g)
    BY <1>1, <2>1, <2>2, FieldsOnly
  <2>5. ~ Changes(r, g)
    BY <2>1, <2>3 DEF Changes, Changed, Verified, RequestOK, Row
  <2>6. Expires(r, g)
    BY <2>2, <2>4, <2>5
  <2>7. ~ (/\ request[r].before.verifiedAt = rows[g].verifiedAt
           /\ request[r].after.interval = rows[g].interval)
    <3>1. SUFFICES ASSUME request[r].before.verifiedAt = rows[g].verifiedAt,
                          request[r].after.interval = rows[g].interval
                   PROVE  FALSE
      OBVIOUS
    <3>2. /\ now > rows[g].verifiedAt + rows[g].interval
          /\ rows[g].verifiedAt \in Nat
      BY <2>6, <3>1 DEF Expires
    <3>3. rows[g].interval \in Nat
      BY <2>3, IntervalAssumption DEF Row
    <3>4. now \in Nat
      BY <1>1, TimeAssumption DEF Inv, TypeOK, Time
    <3>. QED BY <2>1, <3>2, <3>3, <3>4
  <2>. QED BY <2>2, <2>6, <2>7 DEF Expires
<1>2. Inv /\ [Next]_vars => [\A g \in SafeguardIds : Timely(g)]_vars
  BY <1>1
<1>. QED BY <1>2, InvInit, InvNext, PTL DEF Spec, ExpiryNotEarly
=============================================================================
