-------------------------- MODULE CoverageEvaluator --------------------------
(* The coverage algorithm: what Evaluate computes from the safeguards of a  *)
(* scenario.  One action is one iteration of one of its loops.  The loops   *)
(* over a slice or a map take its elements in any order, which covers every *)
(* order ListByScenario, a collation or Go's map iteration can produce.     *)
(* Effectiveness is a multiple of 1/Scale, products are exact fractions,    *)
(* and float64 computes a share within some steps of the exact one: which   *)
(* way it rounds is left open.                                              *)
EXTENDS Integers, Sequences, FiniteSetsExt

CONSTANTS
  Ids,             \* primary keys of the scenario's safeguards
  Keys,            \* independence keys as stored, as numbers in string order
  Levels,          \* effectiveness, in units of 1/Scale
  Scale,           \* units of effectiveness that make a perfect layer
  Lifecycles,      \* lifecycle states a row is read in
  Intervals,       \* test intervals in days
  Verifications,   \* clock readings of last_verified_at
  Instants,        \* clock readings at which an input is frozen
  Second,          \* clock ticks in a second
  Day,             \* clock ticks in a day
  Tolerance,       \* how far ahead of the clock a verification may be dated
  Risks,           \* values of likelihood * severity
  Precision,       \* steps in which float64 tells shares of 1 apart, 2^53
  Drift,           \* steps by which one rule of the score is off at most, 4
  Null             \* SQL NULL, no row

VARIABLES
  rows,            \* what ListByScenario read, by primary key
  instant,         \* the clock when it was read
  initialRisk,     \* likelihood * severity of the scenario
  pc,              \* the loop Evaluate is in
  todo,            \* snapshot entries not yet looked at
  rejected,        \* snapshot entries that are not eligible
  groups,          \* the eligible ones, by independence key
  keys,            \* groups not yet resolved
  retained,        \* the layer kept of each group, in key order
  deduplicated,    \* what was ignored beside it
  steps,           \* the score after each layer, see Combine
  result

vars == <<rows, instant, initialRisk, pc, todo, rejected, groups, keys,
          retained, deduplicated, steps, result>>

input == <<rows, instant, initialRisk>>

Safeguard == [id : Ids, key : Keys, level : Levels, interval : Intervals,
              verifiedAt : Verifications \cup {Null}, state : Lifecycles]

\* An entry of the snapshot: verification cut to the second.
Entry == [id : Ids, key : Keys, level : Levels, interval : Intervals,
          verifiedAt : Nat \cup {Null}, state : Lifecycles]

ASSUME ScaleAssumption == Scale \in Nat \ {0} /\ Levels \subseteq 1 .. Scale

ASSUME KeyAssumption == Ids \subseteq Nat /\ Keys \subseteq Nat

ASSUME ClockAssumption ==
  /\ Second \in Nat \ {0} /\ Day \in Nat \ {0} /\ Day % Second = 0
  /\ Verifications \subseteq Nat /\ Instants \subseteq Nat
  /\ Intervals \subseteq Nat \ {0} /\ Tolerance \in Nat

ASSUME RiskAssumption == Risks \subseteq 1 .. 25

\* A half can be told exactly.
ASSUME PrecisionAssumption ==
  Precision \in Nat \ {0} /\ Precision % 2 = 0 /\ Drift \in Nat \ {0}

ASSUME NullAssumption == Null \notin Safeguard /\ Null \notin Nat
----------------------------------------------------------------------------
\* Operators named "Faulty..." are wrong versions of the definition that
\* follows them, each a slip one could make in the code it models; Next does
\* not use them.  They show that the properties would notice.

\* Fault: rounding up instead of truncating.
FaultyTruncate(t) == IF t % Second = 0 THEN t ELSE t - (t % Second) + Second

\* Time.Truncate(time.Second).
Truncate(t) == t - (t % Second)

\* Entry of the snapshot for a row.
Frozen(row) ==
  [row EXCEPT !.verifiedAt = IF row.verifiedAt = Null THEN Null
                             ELSE Truncate(row.verifiedAt)]

ReferenceTime == Truncate(instant)

\* AddDate(0, 0, test_interval_days).
Expires(s) == s.verifiedAt + s.interval * Day

\* Fault: the instant of expiry itself no longer counts.
FaultyEligible(s, at) ==
  s.state = "active" /\ s.verifiedAt # Null /\ at < Expires(s)

\* ineligibleReason is empty.
Eligible(s, at) ==
  /\ s.state = "active"
  /\ s.level > 0 /\ s.level <= Scale
  /\ s.verifiedAt # Null
  /\ s.interval > 0
  /\ ~ at > Expires(s)

\* The key of a safeguard whose key was given as blanks: its length is checked
\* before it is trimmed.
Blank == 0

\* The safeguard passes both checks of the first loop.
Accepted(s, at) == s.key # Blank /\ Eligible(s, at)

\* Fault: the sort is ascending.
FaultyBetter(s, t) ==
  s.level < t.level \/ (s.level = t.level /\ s.id < t.id)

\* The order within a group: higher effectiveness, then lower id.
Better(s, t) ==
  s.level > t.level \/ (s.level = t.level /\ s.id < t.id)

\* items[0] of the sorted group.
Best(items) == CHOOSE s \in items : \A t \in items \ {s} : Better(s, t)

\* Fault: a layer as effective as the one kept is taken for it.
FaultyOthers(items, kept) == {s \in items : s.level < kept.level}

\* items[1:] of the sorted group.
Others(items, kept) == items \ {kept}

\* Fault: sorted in descending order.
FaultyNextKey == Max(keys)

\* sort.Strings(keys), one after the other.
NextKey == Min(keys)

\* Fault: effectiveness is added up.
FaultyThrough(p, s) ==
  [remaining |-> p.remaining * Scale - s.level * p.whole, whole |-> p.whole * Scale]

\* remainingProbability *= 1 - effectiveness, as a fraction.
Through(p, s) ==
  [remaining |-> p.remaining * (Scale - s.level), whole |-> p.whole * Scale]

Unprotected == [remaining |-> 1, whole |-> 1]

Combined == IF steps = <<>> THEN Unprotected ELSE steps[Len(steps)]

\* 1 - combined as it is computed, in steps.
MayGetThrough(p) ==
  LET exact == p.remaining * Precision
      off == Drift * Len(retained) * p.whole
  IN  {share \in 0 .. Precision : share * p.whole \in exact - off .. exact + off}

\* What float64 can make of 1 - combined and of its product with the risk:
\* rounding keeps an order, so a share stays on its side of a half.
Rounded(share) ==
  {s \in (0 .. Precision) \cap ((share - Drift) .. (share + Drift)) :
     /\ 2 * share <= Precision => 2 * s <= Precision
     /\ 2 * share >= Precision => 2 * s >= Precision}

\* Fault: int() without math.Ceil.
FaultyResidual(risk, share) ==
  LET floor == (risk * share) \div Precision IN IF floor < 1 THEN 1 ELSE floor

\* max(1, ceil(risk * share)).
Residual(risk, share) ==
  LET ceil == (risk * share + Precision - 1) \div Precision
  IN  IF ceil < 1 THEN 1 ELSE ceil

RiskRank(score) ==
  CASE score >= 20               -> "critical"
    [] score >= 12 /\ score < 20 -> "high"
    [] score >= 6 /\ score < 12  -> "medium"
    [] OTHER                     -> "low"

Init ==
  /\ rows \in {f \in [Ids -> Safeguard \cup {Null}] :
                 \A i \in Ids : f[i] # Null => f[i].id = i}
  /\ instant \in Instants
  /\ \A i \in Ids :
       rows[i] # Null /\ rows[i].verifiedAt # Null =>
         rows[i].verifiedAt <= instant + Tolerance
  /\ initialRisk \in Risks
  /\ pc = "freeze"
  /\ todo = {} /\ rejected = {} /\ keys = {}
  /\ groups = [k \in Keys |-> {}]
  /\ retained = <<>> /\ deduplicated = <<>> /\ steps = <<>>
  /\ result = Null
----------------------------------------------------------------------------
\* NewSnapshot.
Freeze ==
  /\ pc = "freeze"
  /\ todo' = {Frozen(rows[i]) : i \in {j \in Ids : rows[j] # Null}}
  /\ pc' = "filter"
  /\ UNCHANGED <<input, rejected, groups, keys, retained, deduplicated, steps, result>>

\* First loop of ResolveIndependence.
Filter ==
  /\ pc = "filter"
  /\ \E s \in todo :
       /\ todo' = todo \ {s}
       /\ IF Accepted(s, ReferenceTime)
            THEN /\ groups' = [groups EXCEPT ![s.key] = @ \cup {s}]
                 /\ UNCHANGED rejected
            ELSE /\ rejected' = rejected \cup {s}
                 /\ UNCHANGED groups
  /\ UNCHANGED <<input, pc, keys, retained, deduplicated, steps, result>>

CollectKeys ==
  /\ pc = "filter" /\ todo = {}
  /\ keys' = {k \in Keys : groups[k] # {}}
  /\ pc' = "resolve"
  /\ UNCHANGED <<input, todo, rejected, groups, retained, deduplicated, steps, result>>

\* Second loop: of each group, by key, one layer stays and the rest is listed.
Resolve ==
  /\ pc = "resolve" /\ keys # {}
  /\ LET k == NextKey
         kept == Best(groups[k])
         ignored == Others(groups[k], kept)
     IN  /\ keys' = keys \ {k}
         /\ retained' = Append(retained, kept)
         /\ deduplicated' = IF ignored = {} THEN deduplicated
                            ELSE Append(deduplicated,
                                        [key |-> k, kept |-> kept, ignored |-> ignored])
  /\ UNCHANGED <<input, pc, todo, rejected, groups, steps, result>>

\* CalculateScore starts; retained is in the order its own sort gives.
StartScore ==
  /\ pc = "resolve" /\ keys = {}
  /\ pc' = "score"
  /\ UNCHANGED <<input, todo, rejected, groups, keys, retained, deduplicated, steps, result>>

Combine ==
  /\ pc = "score" /\ Len(steps) < Len(retained)
  /\ steps' = Append(steps, Through(Combined, retained[Len(steps) + 1]))
  /\ UNCHANGED <<input, pc, todo, rejected, groups, keys, retained, deduplicated, result>>

\* All paths share one protection, so they are covered together or not at all.
Conclude ==
  /\ pc = "score" /\ Len(steps) = Len(retained)
  /\ \E share \in MayGetThrough(Combined) : \E rounded \in Rounded(share) :
       LET residual == Residual(initialRisk, rounded)
       IN  result' = [remaining |-> Combined.remaining, whole |-> Combined.whole,
                      covered |-> 2 * share <= Precision, residual |-> residual,
                      before |-> RiskRank(initialRisk), after |-> RiskRank(residual)]
  /\ pc' = "done"
  /\ UNCHANGED <<input, todo, rejected, groups, keys, retained, deduplicated, steps>>

Done == pc = "done" /\ UNCHANGED vars

Next ==
  \/ Freeze \/ Filter \/ CollectKeys \/ Resolve \/ StartScore \/ Combine \/ Conclude
  \/ Done

Spec == Init /\ [][Next]_vars
----------------------------------------------------------------------------
(* Reference definitions, straight from the safeguards as stored.           *)
Stored == {rows[i] : i \in {j \in Ids : rows[j] # Null}}

\* IsEffectiveAt of the model, which the safeguard service asks.
IsEffectiveAt(s, at) ==
  s.state = "active" /\ s.verifiedAt # Null /\ at <= Expires(s)

\* The layers that count: effective, with a key, and beaten by no other of the same key.
Counting(safeguards) ==
  LET eligible == {s \in {Frozen(row) : row \in safeguards} :
                     s.key # Blank /\ IsEffectiveAt(s, ReferenceTime)}
  IN  {s \in eligible : ~ \E t \in eligible :
         t.key = s.key /\ (t.level > s.level \/ (t.level = s.level /\ t.id < s.id))}

\* The product over layers of a factor that depends on the level.
Product(factor, layers) == FoldSet(LAMBDA s, p : factor[s.level] * p, 1, layers)

\* 1 - product(1 - effectiveness): what gets through, and of how much.
Remaining(layers) == Product([l \in Levels |-> Scale - l], layers)
Whole(layers) == Product([l \in Levels |-> Scale], layers)

Retained == Range(retained)
Ignored == UNION {d.ignored : d \in Range(deduplicated)}
----------------------------------------------------------------------------
(* Properties.                                                              *)
Fraction == [remaining : Nat, whole : Nat \ {0}]
Ranks == {"low", "medium", "high", "critical"}
Result == [remaining : Nat, whole : Nat \ {0}, covered : BOOLEAN,
           residual : Nat, before : Ranks, after : Ranks]

\* Every variable has the shape of the Go value it stands for.
TypeOK ==
  /\ pc \in {"freeze", "filter", "resolve", "score", "done"}
  /\ todo \subseteq Entry /\ rejected \subseteq Entry
  /\ groups \in [Keys -> SUBSET Entry]
  /\ keys \subseteq Keys
  /\ retained \in Seq(Entry)
  /\ deduplicated \in Seq([key : Keys, kept : Entry, ignored : SUBSET Entry])
  /\ steps \in Seq(Fraction)
  /\ result \in Result \cup {Null}

\* At every step each safeguard of the snapshot is in exactly one place: not
\* looked at, rejected, or in the group of its key; and once the groups are
\* resolved, either kept or listed as deduplicated (ResolveIndependence).
EveryLayerAccounted ==
  /\ pc # "freeze" =>
       /\ todo \cup rejected \cup UNION {groups[k] : k \in Keys} = {Frozen(row) : row \in Stored}
       /\ todo \cap rejected = {}
       /\ \A k \in Keys : groups[k] \cap (todo \cup rejected) = {}
  /\ Retained \cap Ignored = {}
  /\ \A k \in Keys : \A s \in groups[k] :
       s.key = k /\ (s \in Retained \cup Ignored <=> pc \in {"resolve", "score", "done"} /\ k \notin keys)

\* No independence key is counted twice, and what is kept and listed comes in
\* key order, whatever order the rows and the map were walked in: equal inputs
\* give equal result texts (ResolveIndependence, CalculateScore).
OneLayerPerKey ==
  /\ \A i, j \in DOMAIN retained : i < j => retained[i].key < retained[j].key
  /\ \A i, j \in DOMAIN deduplicated : i < j => deduplicated[i].key < deduplicated[j].key
  /\ \A d \in Range(deduplicated) : d.kept \in Retained /\ d.kept.key = d.key

\* The score is that of the best effective layer of each key, computed from
\* the stored rows, and of nothing else: a layer without a key adds nothing.
ScoreOfBestLayers ==
  pc = "done" =>
    /\ Retained = Counting(Stored)
    /\ result.remaining = Remaining(Counting(Stored))
    /\ result.whole = Whole(Counting(Stored))

\* The paths' verdict and the residual risk come from two roundings of one
\* product, and agree: covered paths leave at most half of the risk, rounded
\* up, and uncovered ones at least that.  The residual is never zero, never
\* above the risk without protection, and off the exact share of it by the
\* drift of the layers and of its own rule at most (CalculateScore).
ResidualIsSafe ==
  pc = "done" =>
    LET half == (initialRisk + 1) \div 2
        exact == result.remaining * Precision
        off == Drift * (Len(retained) + 1) * result.whole
        unit == result.whole * Precision
    IN  /\ result.residual \in 1 .. initialRisk
        /\ IF result.covered THEN result.residual <= half ELSE result.residual >= half
        /\ initialRisk * (exact - off) <= result.residual * unit
        /\ (result.residual - 1) * unit <= initialRisk * (exact + off)

\* The evaluator works on times cut to the second, the safeguard service on
\* the full ones: the two disagree on a layer for less than a second after it
\* expires, and the evaluator never drops one the service still calls
\* effective, but for a layer without a key, which the service does not ask
\* about (NewSnapshot, ResolveIndependence, IsEffectiveAt).
ExpiryAgrees ==
  pc # "freeze" =>
    \A row \in Stored :
      /\ Frozen(row) \in rejected => row.key = Blank \/ ~ IsEffectiveAt(row, instant)
      /\ Frozen(row) \in groups[row.key] =>
           /\ row.key # Blank /\ row.verifiedAt # Null
           /\ instant < Expires(row) + Second
============================================================================
