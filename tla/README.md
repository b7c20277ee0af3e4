# A verification of the HAZOP safeguard coverage service

The repository is a Go service (Gin, GORM, PostgreSQL or SQLite) with a Vue client. Process
engineers describe process nodes, deviation scenarios and safeguards; the service evaluates how
well the safeguards of a scenario cover it; independent reviewers confirm the result; writes
leave an entry in an audit trail. This directory holds TLA+ modules that model the core
of the service, the TLC configurations that check them, and proofs that TLAPS checks.

Paths without a prefix are under `src/backend/internal/`.

## 1. The system

| component | state | operations | talks to |
| --- | --- | --- | --- |
| coverage evaluation service (`service/coverage_evaluation_service.go`) | table `coverage_evaluations` | Run, Confirm, Void, Replay; Get, List, Compare read | scenarios, nodes, safeguards (reads), the algorithm, the audit trail |
| deviation scenario service (`service/deviation_scenario_service.go`) | table `deviation_scenarios` with an optimistic version | Create, Update, Transition; Get, List read | nodes (read), audit trail; the client sends back the version it loaded |
| scenario page and store of the client (`src/frontend/src/pages/DeviationsPage.vue`, `stores/deviation-scenario.ts`) | the list of scenarios, the fields of an open form | open, reload, save, cancel | scenario service over HTTP |
| safeguard service (`service/safeguard_service.go`) | table `safeguards`, no version | Create, Update, Verify, Invalidate, Restore; Get, List read | scenarios (read), the clock, audit trail |
| process node service (`service/process_node_service.go`) | table `process_nodes`, no version | Create, Update, Deactivate; Get, List read | summaries over the other tables, audit trail |
| coverage algorithm (`algorithm/`) | none; a pure function of a frozen snapshot | NewSnapshot, Evaluate, Replay, BuildGraph | called by the evaluation service |
| audit trail (`middleware/audit.go`, audit repository) | table `audit_logs`, append only | one INSERT per write operation; list | every service |
| rate limiter (`middleware/auth.go`) | a map of windows behind a mutex | Middleware | logins, runs and replays |
| authentication, roles (`middleware/auth.go`, `rbac.go`, `constants/roles.go`) | users | Login, RequireAuth, RequirePermission | every request |
| coverage run of the client (`src/frontend/src/hooks/useCoverageRun.ts`) | generation counter, timer | launch, watch, stop | evaluation service over HTTP |

What all four services have in common decides what can go wrong:

* A handler reads rows, checks them in Go, changes one table with one conditional `UPDATE` (or an
  `INSERT`), often reads the row again, and writes the audit entry. Each statement commits by
  itself. Only the loading of demonstration data uses a transaction (`database/database.go`).
* Handlers run concurrently. PostgreSQL gets up to 20 connections. With SQLite there is one
  connection, but it is given up between two statements, so requests interleave there as well.
* A handler can stop between any two statements: its context ends when the caller disconnects, a
  statement can fail, the process can be stopped. Nothing cleans up afterwards. An entry of the
  audit trail is therefore lost when a request stops between its change and the entry, and a run
  that fails writes none. The properties about the trail speak of requests that are not stopped
  there, and of results, confirmations and voidings only.
* Rows are never deleted, and `created_by`, `process_node_id` and `idempotency_key` never updated.

What is hard, and what makes each component correct, in short (the complete list is `hazards` in
`PROJECT.json`, each at its line):

* *evaluation service*: races between runs with one Idempotency-Key, runs that stop half way,
  replays of unfinished rows, confirmations that race with voids. Runs that do not meet on a row,
  results that belong to their input, history that is never overwritten, confirmation by someone
  else than the author, an honest audit trail.
* *scenario service*: checks made on a row that has changed when the `UPDATE` comes, and a version
  that is older still. No lost updates; what was reviewed is what was submitted; no self-review.
* *safeguard service*: no version at all, a two-statement update, a verification that ages. No
  stale copy may bring an invalidated safeguard or an old verification back.
* *node service*: unconditional updates, which write the status back as it was read and so undo a
  deactivation they did not see; scenarios added to a node that goes out of use meanwhile.
* *algorithm*: independence of the order of rows and of Go's map iteration, the instant of expiry,
  keys that are blank once they are trimmed, float64 at integer and threshold boundaries.
* *rate limiter*: a clock that is read before the mutex is held, so that requests enter out of order
  and late; no stretch of a window lets more than two batches through, and no client is shut out.
* *client*: a list that is reloaded under an open form, so that a save can name a version whose
  content its fields do not have.

## 2. The modules

In every service module a request in flight is a process. `request[r]` holds its program counter
`pc` and the local variables of its handler that matter later; **one action is one database
statement together with the Go code up to the next statement**, checks and early returns included.
`Interrupt(r)` ends a request between two statements and leaves the tables as they are. Reading
and its checks are therefore one action, the conditional update another, the reload a third, the
audit `INSERT` a fourth, and the actions of other requests fall in between.

### CoverageRun, EvaluationLedger, CoverageRefinesLedger, CoverageRunProofs

`CoverageRun` is the evaluation service. `rows` is `coverage_evaluations`, `audits` the entries of
entity `coverage_evaluation`. A row keeps its key, its frozen snapshot and hash, score, state,
confirmer and replay verdict.

| operation | actions |
| --- | --- |
| Run | `BeginRun`, `FindExisting`, `FreezeInput`, `CreateRow`, `StartEvaluation`, `CompleteEvaluation` or `FailEvaluation`, `Reload`, `RecordAudit` |
| Confirm | `BeginConfirm`, `ReadForConfirm`, `Confirm`, `Reload`, `RecordAudit` |
| Void | `BeginVoid`, `ReadForVoid`, `Void`, `Reload`, `RecordAudit` |
| Replay | `BeginReplay`, `ReadForReplay`, `SetReplayResult`, `RecordAudit` |

The evaluator is a constant, `Outcome`: any function of the snapshot, which may also return an
error. The snapshot itself is the scenario's identity and a `Content`: what three reads of tables
that others edit meanwhile add up to is any content. The service's lookup by Idempotency-Key
(`FindByIdempotencyKey`) and the unique index of the table (`KeyTaken`) are two definitions, used by
`FindExisting` and by `CreateRow`. The second lookup of Run after a refused `INSERT` only reads and
answers, so it is part of the refusal. The hash is taken as free of
collisions. `confirmed_at`, durations, texts and the algorithm version are left out.

`EvaluationLedger` is what the service promises: a ledger with at most one entry per key, in which
accept, complete, fail, confirm and void are single steps. `CoverageRefinesLedger` holds the
mapping: the entry of a key is the row with that key, `queued` and `running` are both "accepted",
requests and audit trail are hidden.

### ScenarioReview, ReviewWorkflow, ScenarioReviewRefines, ScenarioReviewProofs

`ScenarioReview` is the scenario service. The content of a scenario is a function from fields to
values, so that an update that names only some fields can be told from one that writes them all. The
page sends all of them; the API allows fewer, and so does the model. An edit begins on the page:
`OpenForm` fills the form, `form`, from the list of the store; `LoadList` reloads the list under the
open form (`seen` is the entry of the list); `SaveForm` sends the version the list then has, which
is what the store does; `CancelForm` gives up. A save that is refused leaves the form open, and it
may be reloaded and saved again. Answers of list requests that overtake each other can only bring an
older version back, with which the save is refused, and are not modelled. A transition is sent with
the version of the list when it begins. A caller that makes up a version it has not seen is not
modelled. The audit entry is computed from the row as read, as in the code. The constant
`Interruptible` says before which statements a request may stop.

`ReviewWorkflow` is the promise: edits and review steps as single steps on the scenario as it is at
that moment. The table is the workflow's state, so the mapping is the identity, and what has to be
shown is that every conditional `UPDATE`, made long after its checks, is one of these steps.

### SafeguardLifecycle, SafeguardLifecycleProofs

The safeguard service with a clock that counts days. Of the descriptive fields it keeps the test
interval, the one the lifecycle depends on. `UpdateSafeguard` and `SyncLifecycle` are the two
statements of Update; `ChooseTarget` and `ReadForChange` the two reads of Restore. A handler reads
the clock in the action of the read that precedes it. The five minutes by which a verification may
be dated ahead are less than the unit of the clock and appear only in `CoverageEvaluator`.

### ProcessNodes, ProcessNodesProofs

The node service, and of the creation of a scenario the part that concerns its node. An update
writes all columns but the code back from the copy it read, the status included. The lookup of a
code (`WithCode`) and the unique index (`CodeTaken`) are two definitions here as well.

### CoverageEvaluator, CoverageEvaluatorProofs, CoverageScoreProofs

The algorithm, one action per iteration of each of its loops. Which safeguard the filter loop sees
next is open, which covers every order in which rows and map entries can come. A key that is given
as blanks passes the length check of `dto/safeguard.go` and is trimmed to nothing afterwards; it is
the key `Blank`, which the filter rejects.

Effectiveness is a multiple of `1/Scale` and the product of what gets through an exact fraction.
What float64 makes of it is a number of steps of `1/Precision` (in the code 2^53, the steps of
float64 just below 1), and which way it rounds is left open: the share `1 - combined` may lie up to
`Drift` steps per layer from the exact one, and the product of risk and share up to `Drift` steps of
the share from the exact product, in either direction. `Drift` is 4 in the code: one layer rounds
`1 - effectiveness`, the product and `1 - remainingProbability`, each by at most one step as no
value exceeds 1; the residual rounds `1 - combined` and one product, by half a unit in the last
place of a number up to 25, which is at most one step of the share. `Rounded` keeps a share on its
side of one half, since rounding keeps the order of two numbers and a half is exact; the verdict on
the paths and the residual risk are therefore two roundings of one number. The definitions the result is compared with (`Counting`, `Remaining`,
`IsEffectiveAt`) are computed from the stored rows and share nothing with the loops; the products
are folds over sets of layers, which have no order. The proofs about them, and about the order of
the lists, have the module `CoverageScoreProofs`.

### RateLimiter, RateLimiterProofs

`ReadClock` is the start of the middleware, up to the clock reading; `Enter` everything between
`Lock` and `Unlock`. Instants are kept as ages that `Tick` lets grow: `lag` is the age of the clock
reading a request waits with, `age` that of the start of a window. Ages beyond `MaxAge` and counts
beyond `Limit + 1` can no longer be told apart by the code and are cut off there. `MaxDelay` bounds
the time between clock reading and entering; the code gives no bound, but of a delay longer than a
window the code can promise nothing of this kind, and `TimeAssumption` excludes it. `admitted` is a
record for the properties, of the ages of the last `2 * Limit + 1` requests let through; no action
reads it. Ages beyond `Window - MaxDelay` count as forgotten: with one tick more the promise of two
batches is false, as requests can enter late by `MaxDelay`.

### FrozenInput, FrozenInputProofs

The composition of `ScenarioReview` and `SafeguardLifecycle`, by `INSTANCE`, with the two reads
`CoverageRun` takes as one step (`FreezeInput`). The node is read between them and left out, as it
has no part in the score. `moments` records what a run that read everything at once could have
found at each moment since the first read. Every step of the two services is a step here, with one
condition their composition adds: a safeguard is created for a scenario that exists, which
`service/safeguard_service.go:46` checks.

### Common conventions

Operators whose name begins with `Faulty` are plausible wrong versions of the definition that
follows them; `Next` never uses one. Put in its place they show that each property would notice the
mistake (`mutants` in `PROJECT.json`). The tables start empty: the demonstration rows of
`database/database.go` are rows the operations could have produced, without audit entries.

## 3. What TLC checks

| run | instance | what it shows |
| --- | --- | --- |
| `CoverageRunSafety` | 2 requests, 2 rows, 2 keys, 2 scenarios of which one fails to evaluate, 2 users; interruptions | `TypeOK`; a run alone on its row until its result (the two conflict answers after Create cannot happen); results that belong to their snapshot; confirmer and author differ; a row marked as passing its replay has the result of its snapshot, whenever the replay read it; only transitions of the table in `coverage_state.go`; frozen evidence; an abandoned row is stuck for good; the service implements the ledger |
| `CoverageRunFair` | 2 requests, 1 row, no interruptions, weak fairness | every result, confirmation and voiding is audited, as nothing is interrupted here; confirmation entries name the confirmer of record; every accepted run finishes; the ledger with its fairness |
| `ScenarioReviewSafety` | 2 requests, 1 scenario of 1 field, an administrator (engineer and reviewer) and a reviewer; versions up to 6; a request may stop before its insert, read or update | a change that passes the version check applies to what the list and the service had seen; independent reviewer of record, also through rework and a second review; the audit entries form one chain and, as no request stops right before its entry here, cover every version; only named fields change; the review process; refinement of the workflow |
| `SafeguardLifecycleSafety` | 2 requests, 1 safeguard, intervals of 1 and 2 days, 3 days | active means verified by someone; an invalidation holds until a verification or a restore; a verification is changed by verifications only; the order of lifecycle states; only an update that was overtaken expires a good verification (so one that lands between the two statements of an update is expired at once) |
| `CoverageEvaluatorSafety` | every set of up to 3 safeguards over 2 keys and the blank one, effectiveness 0.49 and 1, risks 3 and 20, shares in steps of 1/100 that drift by 1, verification and reading around the instant of expiry, a second of 2 ticks | no safeguard lost or counted twice on the way; one layer per key in key order; the score of the best layers that have a key; the verdict on the paths and the residual risk agree, and the residual is off the exact share by the drift at most; evaluator and safeguard service agree on expiry up to the second that is cut off, but for blank keys |
| `ProcessNodesSafety` | 2 requests, 2 nodes, 2 codes, 1 scenario | only an update that asks for it, or that read the node before it was deactivated and so undoes that, brings a deactivated node back |
| `RateLimiterFair` | 2 requests, 2 clients, 2 requests per window of 3 ticks, a delay of 1 tick, a map that evicts above 1 window | at most twice the limit within a window less the delay; a client that keeps asking is let through again and again |

Five runs end in a violation on purpose. Each shows where the code does something else than a
document or a message of the repository says; `findings` in `PROJECT.json` quotes both sides.

| run | the disagreement |
| --- | --- |
| `CoverageRunReplay` | A replay that reads a row while it is queued or running compares the real score with zero and stores "failed", also when the run has completed in between: a sound evaluation is marked as not reproducible. |
| `SafeguardLifecycleRestore` | Restoring an invalidated safeguard whose verification is still good leaves it pending: the effectiveness test asks for the state active, which an invalidated row does not have. |
| `ProcessNodesScenario` | A scenario is added to a node that was deactivated after the check. |
| `ScenarioReviewForm` | A list that reloads under an open edit form lends it the version of another editor's change; the save is accepted and overwrites that change. |
| `FrozenInputMoment` | A run that reads the scenario before one change and the safeguards after another freezes an input the tables never held. |

### Bounds

Two requests are enough for every race the code has: a statement depends on one row and on the
locals of its own request, so a third request can only repeat what the second does to that row, and
requests begin anew as often as they like, so histories are not limited to two calls. Two rows and
two keys let a wrong row be touched. Six versions allow a scenario to be edited, analyzed, sent to
rework, analyzed again, verified and accepted. Three days let a verification of one day expire while
one of two days does not. One field is enough for the checks on content there; the proofs cover
several. With shares in hundredths an effectiveness of 0.49 has its share next to the half, so that
drift carries it across, and its product with 3 and 20 across an integer, up and down; a perfect
layer gives the residual that the maximum lifts to 1. A finer precision adds only shares between
these. `MaxVersion` stands in the guards of `SaveForm` and `BeginTransition`, `MaxTime` in that of
the safeguards' `Tick`, and `MaxDelay` in that of the limiter's; there are no other bounds on a
counter. A limit of 2 tells a batch from a request, a window of 3 ticks has an inside, and a map
that sweeps above one window sweeps whenever the two clients are both in it. `FrozenInputMoment`
needs one editor, one maintainer, one safeguard, two versions and no passing of time. Requests,
rows, keys and node codes are interchangeable in the runs that use symmetry; those runs check no
liveness. Where no property of a run reads the audit trail the configuration takes states that
differ only in it for one (`VIEW WithoutAudits`); no action reads it either, and `TypeOK` looks at
an entry when it is about to be written. The proofs below lift the bounds for every safety property
of the runs that pass.

### Fairness

`CoverageRunFair` assumes weak fairness of `Step(r)` for each request, that is, a handler
that has been accepted keeps being scheduled and its statements are answered, which the Go runtime
and the database give as long as nothing interrupts the request; `Interrupts` is `FALSE` there. No
fairness is assumed of callers: nobody has to confirm, void or replay anything. `RateLimiterFair`
assumes weak fairness of `Tick` and of `Enter(r)`: time goes on, and `sync.Mutex`, whose critical
section makes no call that blocks, lets every waiting goroutine in. No client has to ask; that one
does is the premise of `NobodyStarves`. With interruptions
`EveryRunFinishes` is false, and `AbandonedForGood` says what happens instead.

## 4. What is proved

The eight proof modules prove, for any sets of requests, rows, keys, users, scenarios, safeguards,
fields, values and layers, any evaluator, any limit, window and delay, and any bound on versions and
days, every invariant and every action property that the passing runs check on small instances; what
they leave to TLC is listed at the end of this section. They rest on the named
assumptions of the modules: users and roles are sets of users, `Outcome` yields numbers or an error
that is no number, `Null` is none of the values it stands beside, times and limits are natural
numbers.

*Evaluation service.* `TypeInv` strengthens `TypeOK` by what the locals of a request are at each
`pc` (a request that is about to update has an existing row, and so on). `Inv` adds, in this order
of dependence: one row per key (`OneRowPerKey`, what the unique index gives and the refinement of
the ledger needs); `RunOwnsItsRow`, which needs that the from-lists of Confirm and Void
contain neither `queued` nor `running`; `ResultOfSnapshot`, which needs it because the result is
stored for the snapshot the request still holds; `ConfirmChecked`, that a request which has passed
the author check still has a row of that scenario, and with it `ConfirmerSeparated`. `RowStepNext`
then says that every step leaves all rows alone, inserts a row under a free key, or starts,
completes, fails, confirms, voids or marks one row, and `EvidenceFrozen`, `LegalTransitions`,
`AbandonedForGood` and the refinement of the ledger follow from the row step alone. `AuditInv` adds
that the entries still to be written are already true of their rows. `PassedReplaysSound` says that
the positive verdict of a replay, unlike the negative one of `CoverageRunReplay`, cannot be stale:
`Passed` adds to it that what a replay on its way to its statement found to pass is still so, since
a row gets its result once and only the one of its snapshot (`ReproducibleStays`).

*Scenario service.* The heart is that two rows of one scenario with equal versions are equal: each
request's `seen` and `before` is either the current row or has a smaller version (`TypeInv`). Hence
a conditional update that matches its version changes exactly what was checked, and every row step
is an edit or a review step of the workflow. For the audit chain, `ChainInv` speaks of the entries
written together with those still to be written. `VersionsAudited` assumes that no request stops
right before its audit entry (`"audit" \notin Interruptible`), as `ChangesTraced` in
`CoverageRunProofs` assumes `Interrupts = FALSE`; without that both are false.

*Safeguard service.* `Inv` is `TypeOK` and `ActiveWasVerified` with `RequestOK`. A restore that aims
at the state active has seen a verification, and a verification is replaced but never taken back;
hence the row is still verified when the state is set. `CopyOK` says the same of an update: its copy
has the state it read, or is expired under the interval that is to be written. `RowStep` lists how
one step can change one row; `InvalidationHolds`, `VerificationKept`, `LifecycleOrder` and
`ExpiryNotEarly` follow.

*Node service.* `ReactivatedByUpdate` rests on `RequestOK`:
what an update is about to write is what it read, overlaid with what was asked for.

*Algorithm.* `Inv` follows the evaluation phase by phase: `Placed` and `Filtered` (every safeguard
of the snapshot is in one place, told from the others by its eligibility), `OneLayerPerKey`,
`Chosen` (a chosen layer is beaten by none of its key), `Shares` and `ResidualIsSafe`. The lemmas
below it say what the smallest key of a set is, that the best of a key exists and is one, what
cutting to the second does to a comparison of instants (`EligibleAgrees`), what a ceiling is
(`Ceiling`), and that the residual stays within its bounds, and on the side of the half its paths are
on, whichever way the score was rounded, for any even precision and any drift (`ResidualBounds`).

*The score.* `Product` is a fold over a set, defined by a `CHOOSE` of a function that satisfies the
fold's equation. `FoldingEquation` shows that there is one: for subsets of up to `n` layers by a
least counterexample in `n`, and thus for the whole set. `ProductOfAny` then shows, by a smallest
set for which it fails, that the product does not depend on the layer taken first, and
`ProductOfMore` that one layer more brings its factor. With that `Score` is inductive: after `n`
iterations of `CalculateScore` the two products are those of the first `n` layers, which have
different keys (`OneLayerPerKey`) and so form a set of `n`. `ScoreCorrect` combines this with
`BestLayersCount`. No induction rule is used, since the prover cannot instantiate one: the least
counterexample comes from the well-foundedness of numbers and of finite sets under inclusion.

*More safeguards.* `MoreSafeguardsNeverHurt` compares two tables of safeguards, one within the other:
the share of risk that gets through the larger is at most that of the smaller, whatever the key,
state, evidence and effectiveness of what was added. This is not plain, since an added safeguard may
displace another of its key from the layers that count. `CountingLayers` says that what counts of a
table is one layer per key, and that it covers every eligible one: one of the same key is at least
as effective. `CoveringIsBetter` then compares the products of two such sets, by a smallest set for
which the comparison fails. It is a statement about the operators of the score, which `ScoreCorrect`
ties to what a run computes; TLC has evaluated it on all tables of the small instance.

*The lists.* `ResultDetermined` says what `Replay` relies on when it compares hashes. `SameList`
shows that two lists in strict key order with the same entries are the same list; `Listed` follows
which groups have been listed as deduplicated; so rejected, kept and deduplicated layers and their
order are functions of the rows and the clock (`Ranking` of a set named by the input), although
which row and which map entry comes next is open in the model.

*Rate limiter.* `TypeOK`, with the counter that never leaves its range, and `BurstBounded`, from the
invariant `Batches`. Of the record of those let through, the latest `Batch` entered the present
window, so the next one is at least as old as the window less the delay; the `Limit` after them
entered the window before; and whoever came before those is forgotten. A request opens a window only
when its clock reading is past the end of the old one (`OpensWindow`), by which time those of the
window before are out of reach; one that joins a window keeps the count in step with the record
(`JoinsWindow`); and a window that a sweep removes has let nobody through that still counts
(`SweptWindow`), although the sweep uses the clock reading of a request for another key. TLC has
checked `Batches` before it was proved.

*Frozen input.* `FrozenInputMoment` shows that the input of a run may be one the tables never held.
`UnchangedVersionSuffices` shows what would rule that out: if the scenario, looked up once more
after the last read, has the version that was frozen, the input is that of one moment. The
safeguards have no version, and need none for this: the proof rests on the scenario being the same
row between the two reads, so that the moment of the second read will do. It uses the invariant of
the scenario service (`Proven`, an instance of `ScenarioReviewProofs`): equal versions mean equal
rows, and no step changes a row without a new version (`AdvancesNext`). The assumptions of that
module about its constants are premises of the theorem here (`Constants`). `HalvesAreReal` says what
holds without the check.

Only model-checked: liveness under fairness (`EveryRunFinishes`, `ImplementsFairLedger`,
`NobodyStarves`), which is out of the prover's reach, and the violations of the five runs that end
in one, which are single behaviours.

## 5. What is not modelled

* Reads that change nothing: lists, summaries, comparison, the timeline of a scenario (which is cut
  out of the latest 100 entries of all scenarios), the audit list.
* Authentication and the role table; the sets `Runners`, `Confirmers`, `Engineers`, `Reviewers`
  stand for the users whose role passes. A role taken away while a token is valid is not modelled.
* The graph of causes and consequences and the wording of the explanation: all paths of an
  evaluation share one protection, so they do not influence the result.
* Evidence notes of safeguards, effectiveness and keys as they are edited. The configuration reads a
  number of grace days for verifications (`config/config.go:31`) that nothing uses, so the lifecycle
  has none.
* A restart of the process, with which the limiter forgets its windows, and the `Retry-After` header
  it sends, which is cut to whole seconds.
* The session of the client: a late answer "unauthorized" to a request of an earlier session removes
  the token of the present one (`src/frontend/src/api/client.ts`). The server keeps no sessions, so
  nothing but the page is affected.
* The polling of the client's coverage run. `launch` makes a new random key for every run, and Run
  answers a key it has not seen with the row it has just finished, or with an error, so the state
  in the answer is always a terminal one and the polling loop is not entered against this service.
* Validation of requests, rendering, configuration, migration, demonstration data.

## 6. Plan

Done, in order of importance: the evaluation service with its ledger and proofs; the scenario
service with its workflow, the client's edit form and proofs; the safeguard service, the node
service and the algorithm with their proofs; audits and replays as theorems; the rate limiter; the
composition that shows which inputs the reads of a run can freeze; the score, the order of the
result, the bound on bursts and the composition as theorems.

Left: the client's session, with an answer of an earlier session arriving late.
