----------------------- MODULE CoverageEvaluatorProofs -----------------------
(* Theorems about CoverageEvaluator for every number of safeguards, keys,   *)
(* levels, clock readings and risks.                                        *)
EXTENDS CoverageEvaluator, WellFoundedInduction, TLAPS

\* A set of numbers that has a member has a smallest one.
LEMMA MinExists ==
  ASSUME NEW T \in SUBSET Nat, T # {}
  PROVE  Min(T) \in T /\ \A y \in T : Min(T) <= y
<1>1. PICK x \in T : \A y \in T : ~ (<<y, x>> \in OpToRel(<, Nat))
  <2>. DEFINE R == OpToRel(<, Nat)
  <2>1. IsWellFoundedOn(R, Nat)
    BY NatLessThanWellFounded
  <2>. HIDE DEF R
  <2>2. \E x \in T : \A y \in T : ~ (<<y, x>> \in R)
    BY <2>1, WFMin
  <2>. QED BY <2>2 DEF R
<1>2. \A y \in T : ~ (y < x)
  BY <1>1 DEF OpToRel
<1>3. \A y \in T : x <= y
  BY <1>2
<1>. QED BY <1>3 DEF Min

\* A sorted group has a first element: ids tell its elements apart.
LEMMA BestExists ==
  ASSUME NEW items \in SUBSET Entry, items # {},
         \A s, t \in items : s.id = t.id => s = t
  PROVE  /\ Best(items) \in items
         /\ \A t \in items \ {Best(items)} : Better(Best(items), t)
<1>. USE ScaleAssumption, KeyAssumption
<1>1. \A s \in items : s.level \in 1 .. Scale /\ s.id \in Nat
  BY DEF Entry
<1>. DEFINE depths == {Scale - s.level : s \in items}
            m == Min(depths)
            top == {s \in items : Scale - s.level = m}
            ids == {s.id : s \in top}
<1>2. m \in depths /\ \A d \in depths : m <= d
  <2>1. depths \in SUBSET Nat /\ depths # {}
    BY <1>1
  <2>. HIDE DEF depths
  <2>. QED BY <2>1, MinExists
<1>. HIDE DEF m
<1>3. Min(ids) \in ids /\ \A i \in ids : Min(ids) <= i
  <2>1. ids \in SUBSET Nat /\ ids # {}
    BY <1>1, <1>2
  <2>. HIDE DEF ids
  <2>. QED BY <2>1, MinExists
<1>4. PICK s \in top : s.id = Min(ids)
  BY <1>3
<1>5. ASSUME NEW t \in items \ {s} PROVE Better(s, t)
  <2>1. Scale - t.level \in depths /\ s \in items /\ Scale - s.level = m
    OBVIOUS
  <2>2. s.level >= t.level
    BY <1>1, <1>2, <2>1
  <2>3. s.level = t.level => s.id <= t.id
    BY <1>1, <1>3, <1>4, <2>1
  <2>4. s.id # t.id
    BY <2>1
  <2>. QED BY <1>1, <2>1, <2>2, <2>3, <2>4 DEF Better
<1>. QED BY <1>4, <1>5 DEF Best

\* Multiplying keeps the order.
LEMMA Times ==
  ASSUME NEW a \in Int, NEW b \in Int, NEW y \in Nat, a <= b
  PROVE  a * y <= b * y
<1>1. (b - a) * y \in Nat
  OBVIOUS
<1>2. (b - a) * y = b * y - a * y
  OBVIOUS
<1>. QED BY <1>1, <1>2

\* Division with remainder.
LEMMA Division ==
  ASSUME NEW x \in Nat, NEW y \in Nat \ {0}
  PROVE  \E q \in Nat, r \in 0 .. y - 1 :
           x = q * y + r /\ x % y = r /\ x \div y = q
<1>1. \E q \in Int, r \in 0 .. y - 1 : x = y * q + r /\ q = x \div y /\ r = x % y
  OBVIOUS
<1>2. PICK q \in Int, r \in 0 .. y - 1 : x = y * q + r /\ q = x \div y /\ r = x % y
  BY <1>1
<1>3. y * q = q * y
  OBVIOUS
<1>4. q >= 0
  <2>. SUFFICES ASSUME q <= -1 PROVE FALSE
    OBVIOUS
  <2>1. q * y <= (-1) * y
    BY Times
  <2>2. (-1) * y = -y
    OBVIOUS
  <2>. QED BY <1>2, <1>3, <2>1, <2>2
<1>5. x = q * y + r /\ x % y = r /\ x \div y = q
  BY <1>2, <1>3
<1>6. q \in Nat
  BY <1>4
<1>. QED BY <1>5, <1>6

\* Cutting to the second: what stays is whole seconds.
LEMMA TruncateSeconds ==
  ASSUME NEW a \in Nat
  PROVE  \E q \in Nat : /\ Truncate(a) = q * Second
                        /\ q * Second <= a /\ a < q * Second + Second
<1>. Second \in Nat \ {0}
  BY ClockAssumption
<1>1. PICK q \in Nat, r \in 0 .. Second - 1 : a = q * Second + r /\ a % Second = r
  BY Division
<1>. DEFINE s == q * Second
<1>2. s \in Nat /\ a = s + r
  BY <1>1
<1>. HIDE DEF s
<1>3. Truncate(a) = s /\ s <= a /\ a < s + Second
  BY <1>1, <1>2 DEF Truncate
<1>. QED BY <1>3 DEF s

\* It keeps the order across whole seconds.
LEMMA TruncateMonotone ==
  ASSUME NEW a \in Nat, NEW b \in Nat, NEW n \in Nat, a <= b + n * Second
  PROVE  Truncate(a) <= Truncate(b) + n * Second
<1>. Second \in Nat \ {0}
  BY ClockAssumption
<1>1. PICK p \in Nat : Truncate(a) = p * Second /\ p * Second <= a
  BY TruncateSeconds
<1>2. PICK q \in Nat : Truncate(b) = q * Second /\ b < q * Second + Second
  BY TruncateSeconds
<1>. DEFINE ps == p * Second
            qs == q * Second
            ns == n * Second
<1>3. /\ ps \in Nat /\ qs \in Nat /\ ns \in Nat
      /\ ps <= a /\ a <= b + ns /\ b < qs + Second
      /\ Truncate(a) = ps /\ Truncate(b) = qs
  BY <1>1, <1>2
<1>4. p >= q + n + 1 => qs + ns + Second <= ps
  <2>. SUFFICES ASSUME p >= q + n + 1 PROVE qs + ns + Second <= ps
    OBVIOUS
  <2>1. (q + n + 1) * Second <= p * Second
    BY Times
  <2>2. (q + n + 1) * Second = q * Second + n * Second + Second
    OBVIOUS
  <2>. QED BY <2>1, <2>2
<1>5. p <= q + n => ps <= qs + ns
  <2>. SUFFICES ASSUME p <= q + n PROVE ps <= qs + ns
    OBVIOUS
  <2>1. p * Second <= (q + n) * Second
    BY Times
  <2>2. (q + n) * Second = q * Second + n * Second
    OBVIOUS
  <2>. QED BY <2>1, <2>2
<1>. HIDE DEF ps, qs, ns
<1>6. ps <= qs + ns
  BY <1>3, <1>4, <1>5
<1>. QED BY <1>3, <1>6 DEF ns

\* It loses less than a second.
LEMMA TruncateClose ==
  ASSUME NEW a \in Nat
  PROVE  Truncate(a) \in Nat /\ Truncate(a) <= a /\ a < Truncate(a) + Second
<1>1. PICK q \in Nat : /\ Truncate(a) = q * Second
                       /\ q * Second <= a /\ a < q * Second + Second
  BY TruncateSeconds
<1>2. q * Second \in Nat
  BY ClockAssumption
<1>. QED BY <1>1, <1>2

\* Test intervals are whole seconds.
LEMMA IntervalInSeconds ==
  ASSUME NEW i \in Intervals
  PROVE  \E n \in Nat : i * Day = n * Second
<1>. Second \in Nat \ {0} /\ Day \in Nat
  BY ClockAssumption
<1>0. Day % Second = 0 /\ i \in Nat
  BY ClockAssumption
<1>1. PICK d \in Nat, r \in 0 .. Second - 1 :
        Day = d * Second + r /\ Day % Second = r /\ Day \div Second = d
  BY Division
<1>2. i \in Nat /\ Day = d * Second
  BY <1>0, <1>1
<1>3. i * Day = (i * d) * Second
  BY <1>0, <1>2
<1>4. i * d \in Nat
  BY <1>2
<1>. QED BY <1>3, <1>4

\* Dividing with the remainder rounded up.
LEMMA Ceiling ==
  ASSUME NEW x \in Nat, NEW y \in Nat \ {0}
  PROVE  \E q \in Nat : (x + y - 1) \div y = q /\ x <= q * y /\ q * y <= x + y - 1
<1>1. PICK q \in Nat, r \in 0 .. y - 1 : x + y - 1 = q * y + r /\ (x + y - 1) \div y = q
  BY Division
<1>. DEFINE qy == q * y
<1>2. qy \in Nat /\ x + y - 1 = qy + r
  BY <1>1
<1>. HIDE DEF qy
<1>3. x <= qy /\ qy <= x + y - 1
  BY <1>2
<1>. QED BY <1>1, <1>3 DEF qy

\* A product of smaller factors does not exceed one of larger factors.
LEMMA Below ==
  ASSUME NEW q \in Nat, NEW b \in Nat, NEW y \in Nat \ {0}, NEW x \in Int,
         q * y <= x + y - 1, x <= b * y
  PROVE  q <= b
<1>. SUFFICES ASSUME b + 1 <= q PROVE FALSE
  OBVIOUS
<1>1. (b + 1) * y <= q * y
  BY Times
<1>2. (b + 1) * y = b * y + y
  OBVIOUS
<1>. DEFINE by == b * y
            qy == q * y
<1>3. by \in Nat /\ qy \in Nat /\ by + y <= qy /\ qy <= x + y - 1 /\ x <= by
  BY <1>1, <1>2
<1>. HIDE DEF by, qy
<1>. QED BY <1>3

\* However a share is rounded: the residual risk stays on the side of a half
\* that the share is on, and as close to the exact share as the steps allow.
LEMMA ResidualBounds ==
  ASSUME NEW remaining \in Nat, NEW whole \in Nat \ {0}, NEW n \in Nat,
         NEW risk \in Nat \ {0}, NEW share \in 0 .. Precision,
         share * whole \in remaining * Precision - Drift * n * whole
                             .. remaining * Precision + Drift * n * whole,
         NEW s \in Rounded(share)
  PROVE  LET k == Residual(risk, s)
             half == (risk + 1) \div 2
             exact == remaining * Precision
             off == Drift * (n + 1) * whole
             unit == whole * Precision
         IN  /\ k \in 1 .. risk
             /\ IF 2 * share <= Precision THEN k <= half ELSE k >= half
             /\ risk * (exact - off) <= k * unit
             /\ (k - 1) * unit <= risk * (exact + off)
<1>. DEFINE k == Residual(risk, s)
            half == (risk + 1) \div 2
            exact == remaining * Precision
            drift == Drift * n * whole
            off == Drift * (n + 1) * whole
            unit == whole * Precision
            x == risk * s
<1>1. /\ Precision \in Nat \ {0} /\ Drift \in Nat
      /\ s \in 0 .. Precision /\ share - Drift <= s /\ s <= share + Drift
      /\ 2 * share <= Precision => 2 * s <= Precision
      /\ 2 * share >= Precision => 2 * s >= Precision
  BY PrecisionAssumption DEF Rounded
<1>2. x \in Nat /\ x <= risk * Precision
  <2>1. s * risk <= Precision * risk
    BY <1>1, Times
  <2>. QED BY <1>1, <2>1
<1>3. PICK q \in Nat : /\ (x + Precision - 1) \div Precision = q
                       /\ x <= q * Precision /\ q * Precision <= x + Precision - 1
  BY <1>1, <1>2, Ceiling
<1>4. k = IF q < 1 THEN 1 ELSE q
  BY <1>3 DEF Residual
<1>. HIDE DEF k, x
<1>5. q <= risk
  BY <1>1, <1>2, <1>3, Below
<1>6. half \in Nat /\ half >= 1 /\ risk <= 2 * half /\ 2 * half <= risk + 1
  OBVIOUS
<1>. HIDE DEF half
<1>7. ASSUME 2 * share <= Precision PROVE k <= half
  <2>1. 2 * x <= risk * Precision
    <3>1. (2 * s) * risk <= Precision * risk
      BY <1>1, <1>7, Times
    <3>2. (2 * s) * risk = 2 * (risk * s)
      BY <1>1
    <3>. QED BY <1>1, <3>1, <3>2 DEF x
  <2>2. risk * Precision <= (2 * half) * Precision
    BY <1>1, <1>6, Times
  <2>3. (2 * half) * Precision = 2 * (half * Precision)
    BY <1>1, <1>6
  <2>4. x <= half * Precision
    <3>. DEFINE a == risk * Precision
                b == half * Precision
    <3>1. a \in Nat /\ b \in Nat /\ 2 * x <= a /\ a <= 2 * b
      BY <1>1, <1>6, <2>1, <2>2, <2>3
    <3>. HIDE DEF a, b
    <3>2. x <= b
      BY <1>2, <3>1
    <3>. QED BY <3>2 DEF b
  <2>5. q <= half
    BY <1>1, <1>2, <1>3, <1>6, <2>4, Below
  <2>. QED BY <1>4, <1>6, <2>5
<1>8. ASSUME ~ (2 * share <= Precision) PROVE k >= half
  <2>1. risk * Precision <= 2 * x
    <3>1. Precision * risk <= (2 * s) * risk
      BY <1>1, <1>8, Times
    <3>2. (2 * s) * risk = 2 * (risk * s)
      BY <1>1
    <3>. QED BY <1>1, <3>1, <3>2 DEF x
  <2>2. risk <= 2 * q
    <3>. SUFFICES ASSUME 2 * q + 1 <= risk PROVE FALSE
      OBVIOUS
    <3>1. (2 * q + 1) * Precision <= risk * Precision
      BY <1>1, Times
    <3>2. (2 * q + 1) * Precision = 2 * (q * Precision) + Precision
      BY <1>1
    <3>. DEFINE a == risk * Precision
                b == q * Precision
    <3>3. /\ a \in Nat /\ b \in Nat /\ a <= 2 * x /\ x <= b
          /\ 2 * b + Precision <= a
      BY <1>1, <1>3, <2>1, <3>1, <3>2
    <3>. HIDE DEF a, b
    <3>. QED BY <1>1, <1>2, <3>3
  <2>. QED BY <1>4, <1>6, <2>2
<1>9. k \in 1 .. risk
  BY <1>4, <1>5
<1>10. x <= k * Precision
  <2>1. q * Precision <= k * Precision
    BY <1>1, <1>4, <1>9, Times
  <2>. DEFINE a == q * Precision
              b == k * Precision
  <2>2. a \in Nat /\ b \in Nat /\ x <= a /\ a <= b
    BY <1>1, <1>3, <1>9, <2>1
  <2>. HIDE DEF a, b
  <2>3. x <= b
    BY <1>2, <2>2
  <2>. QED BY <2>3 DEF b
<1>11. (k - 1) * Precision <= x
  <2>1. CASE q < 1
    BY <1>1, <1>2, <1>4, <2>1
  <2>2. CASE q >= 1
    <3>1. (k - 1) * Precision = q * Precision - Precision
      BY <1>1, <1>4, <2>2
    <3>. DEFINE a == q * Precision
    <3>2. a \in Nat /\ a <= x + Precision - 1 /\ (k - 1) * Precision = a - Precision
      BY <1>1, <1>3, <3>1
    <3>. HIDE DEF a
    <3>. QED BY <1>1, <1>2, <3>2
  <2>. QED BY <2>1, <2>2
<1>12. /\ exact \in Nat /\ drift \in Nat /\ off = drift + Drift * whole
       /\ Drift * whole \in Nat /\ share * whole \in Nat /\ s * whole \in Nat
       /\ exact - drift <= share * whole /\ share * whole <= exact + drift
  BY <1>1
<1>13. exact - off <= s * whole /\ s * whole <= exact + off
  <2>1. (share - Drift) * whole <= s * whole /\ s * whole <= (share + Drift) * whole
    BY <1>1, Times
  <2>2. /\ (share - Drift) * whole = share * whole - Drift * whole
        /\ (share + Drift) * whole = share * whole + Drift * whole
    BY <1>1
  <2>. DEFINE a == share * whole
              b == s * whole
              c == Drift * whole
  <2>3. /\ a \in Nat /\ b \in Nat /\ c \in Nat /\ off = drift + c
        /\ a - c <= b /\ b <= a + c /\ exact - drift <= a /\ a <= exact + drift
    BY <1>12, <2>1, <2>2
  <2>. HIDE DEF a, b, c, exact, drift, off
  <2>4. exact - off <= b /\ b <= exact + off
    BY <1>12, <2>3
  <2>. QED BY <2>4 DEF b
<1>14. off \in Nat
  BY <1>12
<1>. HIDE DEF exact, drift, off
<1>15. /\ risk * (s * whole) = x * whole
       /\ (k * Precision) * whole = k * unit /\ ((k - 1) * Precision) * whole = (k - 1) * unit
  BY <1>1, <1>9 DEF x
<1>16. risk * (exact - off) <= k * unit
  <2>1. (exact - off) * risk <= (s * whole) * risk
    BY <1>12, <1>13, <1>14, Times
  <2>2. x * whole <= (k * Precision) * whole
    BY <1>1, <1>2, <1>9, <1>10, Times
  <2>3. (exact - off) * risk = risk * (exact - off) /\ (s * whole) * risk = risk * (s * whole)
    BY <1>12, <1>14
  <2>. DEFINE a == risk * (exact - off)
              b == x * whole
              c == k * unit
  <2>4. a \in Int /\ b \in Int /\ c \in Int /\ a <= b /\ b <= c
    BY <1>1, <1>2, <1>9, <1>12, <1>14, <1>15, <2>1, <2>2, <2>3
  <2>. HIDE DEF a, b, c
  <2>5. a <= c
    BY <2>4
  <2>. QED BY <2>5 DEF a, c
<1>17. (k - 1) * unit <= risk * (exact + off)
  <2>1. (s * whole) * risk <= (exact + off) * risk
    BY <1>12, <1>13, <1>14, Times
  <2>2. ((k - 1) * Precision) * whole <= x * whole
    BY <1>1, <1>2, <1>9, <1>11, Times
  <2>3. (exact + off) * risk = risk * (exact + off) /\ (s * whole) * risk = risk * (s * whole)
    BY <1>12, <1>14
  <2>. DEFINE a == (k - 1) * unit
              b == x * whole
              c == risk * (exact + off)
  <2>4. a \in Int /\ b \in Int /\ c \in Int /\ a <= b /\ b <= c
    BY <1>1, <1>2, <1>9, <1>12, <1>14, <1>15, <2>1, <2>2, <2>3
  <2>. HIDE DEF a, b, c
  <2>5. a <= c
    BY <2>4
  <2>. QED BY <2>5 DEF a, c
<1>. QED BY <1>7, <1>8, <1>9, <1>16, <1>17 DEF k, half, exact, off
----------------------------------------------------------------------------
(* The invariant.  The loops only move safeguards of the snapshot from one  *)
(* place to the next, each place is told from the others by what Accepted   *)
(* says, and what the second loop has done so far is told by keys.          *)
Snapshot == {Frozen(row) : row \in Stored}

InputOK ==
  /\ rows \in [Ids -> Safeguard \cup {Null}]
  /\ \A i \in Ids : rows[i] # Null => rows[i].id = i
  /\ instant \in Nat
  /\ initialRisk \in 1 .. 25

\* What is still, or already, empty in each loop.
Phase ==
  /\ pc = "freeze" => todo = {} /\ rejected = {} /\ \A k \in Keys : groups[k] = {}
  /\ pc \in {"freeze", "filter"} => keys = {} /\ retained = <<>> /\ deduplicated = <<>>
  /\ pc \notin {"freeze", "filter"} => todo = {}
  /\ pc # "resolve" => keys = {}
  /\ pc # "done" => result = Null

Placed ==
  /\ pc # "freeze" =>
       todo \cup rejected \cup UNION {groups[k] : k \in Keys} = Snapshot
  /\ todo \cap rejected = {}
  /\ \A k \in Keys : groups[k] \cap (todo \cup rejected) = {}

Filtered ==
  /\ \A s \in rejected : ~ Accepted(s, ReferenceTime)
  /\ \A k \in Keys : \A s \in groups[k] : s.key = k /\ Accepted(s, ReferenceTime)

\* The groups the second loop has resolved, and what it has put in order.
Resolved ==
  IF pc \in {"freeze", "filter"} THEN {}
  ELSE {k \in Keys : groups[k] # {} /\ k \notin keys}

Chosen ==
  /\ \A k \in keys : groups[k] # {}
  /\ Retained = {Best(groups[k]) : k \in Resolved}
  /\ Ignored = UNION {groups[k] \ {Best(groups[k])} : k \in Resolved}
  /\ \A i \in DOMAIN retained : \A k \in keys : retained[i].key < k
  /\ \A i \in DOMAIN deduplicated : \A k \in keys : deduplicated[i].key < k

\* What gets through a layer is no more than what reached it.
Shares == \A i \in DOMAIN steps : steps[i].remaining <= steps[i].whole

Inv == /\ InputOK /\ TypeOK /\ Phase /\ Placed /\ Filtered /\ OneLayerPerKey
       /\ Chosen /\ Shares /\ ResidualIsSafe

\* What an entry of the snapshot has of its row.
LEMMA FrozenSafeguard ==
  ASSUME NEW row \in Safeguard
  PROVE  /\ Frozen(row) \in Entry
         /\ Frozen(row).id = row.id /\ Frozen(row).key = row.key
         /\ Frozen(row).level = row.level /\ Frozen(row).interval = row.interval
         /\ Frozen(row).state = row.state
         /\ Frozen(row).verifiedAt = IF row.verifiedAt = Null THEN Null
                                     ELSE Truncate(row.verifiedAt)
<1>2. row.verifiedAt # Null => Truncate(row.verifiedAt) \in Nat
  <2>. SUFFICES ASSUME row.verifiedAt # Null PROVE Truncate(row.verifiedAt) \in Nat
    OBVIOUS
  <2>1. row.verifiedAt \in Nat
    BY ClockAssumption DEF Safeguard
  <2>. QED BY <2>1, TruncateClose
<1>. DEFINE v == IF row.verifiedAt = Null THEN Null ELSE Truncate(row.verifiedAt)
<1>3. v \in Nat \cup {Null}
  BY <1>2
<1>. HIDE DEF v
<1>4. Frozen(row) = [row EXCEPT !.verifiedAt = v]
  BY DEF Frozen, v
<1>5. /\ Frozen(row) \in Entry
      /\ Frozen(row).id = row.id /\ Frozen(row).key = row.key
      /\ Frozen(row).level = row.level /\ Frozen(row).interval = row.interval
      /\ Frozen(row).state = row.state /\ Frozen(row).verifiedAt = v
  BY <1>3, <1>4 DEF Safeguard, Entry
<1>. QED BY <1>5 DEF v

\* A row that is read is a safeguard, and its entry in the snapshot is typed.
LEMMA FrozenType ==
  ASSUME InputOK, NEW row \in Stored
  PROVE  /\ row \in Safeguard /\ Frozen(row) \in Entry
         /\ Frozen(row).id = row.id /\ Frozen(row).key = row.key
         /\ Frozen(row).level = row.level /\ Frozen(row).interval = row.interval
         /\ Frozen(row).state = row.state
         /\ Frozen(row).verifiedAt = IF row.verifiedAt = Null THEN Null
                                     ELSE Truncate(row.verifiedAt)
<1>1. row \in Safeguard
  BY NullAssumption DEF Stored, InputOK
<1>. QED BY <1>1, FrozenSafeguard

\* The snapshot holds typed entries, told apart by their ids.
LEMMA SnapshotType ==
  ASSUME InputOK
  PROVE  /\ Snapshot \subseteq Entry
         /\ \A s, t \in Snapshot : s.id = t.id => s = t
<1>1. \A a, b \in Stored : a.id = b.id => a = b
  BY DEF Stored, InputOK
<1>2. \A s \in Snapshot : \E a \in Stored : s = Frozen(a)
  BY DEF Snapshot
<1>. QED BY <1>1, <1>2, FrozenType

\* The first element of a group that is not empty is in it, and before all
\* others.
LEMMA GroupBest ==
  ASSUME Inv, NEW k \in Keys, groups[k] # {}
  PROVE  /\ Best(groups[k]) \in groups[k]
         /\ \A t \in groups[k] \ {Best(groups[k])} : Better(Best(groups[k]), t)
         /\ groups[k] \subseteq Snapshot /\ groups[k] \subseteq Entry
<1>1. groups[k] \subseteq Snapshot
  BY DEF Inv, Phase, Placed
<1>2. groups[k] \in SUBSET Entry /\ \A s, t \in groups[k] : s.id = t.id => s = t
  BY <1>1, SnapshotType DEF Inv
<1>. QED BY <1>1, <1>2, BestExists

\* No member of a group is in two groups.
LEMMA OneGroup ==
  ASSUME Inv, NEW j \in Keys, NEW k \in Keys, NEW s \in groups[j], s \in groups[k]
  PROVE  j = k
BY DEF Inv, Filtered

\* An input that is read and nothing done with it yet.
LEMMA InvInit == Init => Inv
<1>. SUFFICES ASSUME Init PROVE Inv
  OBVIOUS
<1>1. InputOK
  BY ClockAssumption, RiskAssumption DEF Init, InputOK
<1>2. Retained = {} /\ Ignored = {}
  BY DEF Init, Retained, Ignored, Range
<1>3. TypeOK
  BY DEF Init, TypeOK
<1>4. Phase /\ Placed /\ Filtered /\ Shares /\ ResidualIsSafe
  BY DEF Init, Phase, Placed, Filtered, Shares, ResidualIsSafe
<1>5. OneLayerPerKey
  BY DEF Init, OneLayerPerKey, Range
<1>6. Chosen
  BY <1>2 DEF Init, Chosen, Resolved
<1>. QED BY <1>1, <1>3, <1>4, <1>5, <1>6 DEF Inv

\* Evaluate never writes its input.
LEMMA InputStays ==
  ASSUME Inv, UNCHANGED input
  PROVE  /\ InputOK' /\ Snapshot' = Snapshot /\ Stored' = Stored
         /\ ReferenceTime' = ReferenceTime /\ initialRisk' = initialRisk
         /\ \A s : Accepted(s, ReferenceTime)' <=> Accepted(s, ReferenceTime)
<1>1. rows' = rows /\ instant' = instant /\ initialRisk' = initialRisk
  BY DEF input
<1>2. Stored' = Stored
  BY <1>1 DEF Stored
<1>3. Snapshot' = Snapshot
  BY <1>2 DEF Snapshot
<1>4. ReferenceTime' = ReferenceTime
  BY <1>1 DEF ReferenceTime
<1>5. InputOK'
  BY <1>1 DEF Inv, InputOK
<1>6. \A s : Accepted(s, ReferenceTime)' <=> Accepted(s, ReferenceTime)
  BY <1>4 DEF Accepted, Eligible
<1>. QED BY <1>1, <1>2, <1>3, <1>4, <1>5, <1>6

\* NewSnapshot.
LEMMA InvFreeze == Inv /\ Freeze => Inv'
<1>. SUFFICES ASSUME Inv, Freeze PROVE Inv'
  OBVIOUS
<1>0. UNCHANGED <<input, rejected, groups, keys, retained, deduplicated, steps, result>>
      /\ pc = "freeze" /\ pc' = "filter"
  BY DEF Freeze
<1>1. todo' = Snapshot
  BY DEF Freeze, Snapshot, Stored
<1>. USE InputStays DEF Inv
<1>2. TypeOK'
  BY <1>0, <1>1, SnapshotType DEF TypeOK
<1>3. Phase' /\ Placed' /\ Filtered'
  BY <1>0, <1>1 DEF Phase, Placed, Filtered
<1>4. Retained' = Retained /\ Ignored' = Ignored /\ OneLayerPerKey'
  BY <1>0 DEF Retained, Ignored, OneLayerPerKey
<1>5. Chosen'
  BY <1>0, <1>4 DEF Chosen, Resolved
<1>6. Shares' /\ ResidualIsSafe'
  BY <1>0 DEF Shares, ResidualIsSafe
<1>. QED BY <1>0, <1>2, <1>3, <1>4, <1>5, <1>6

\* One iteration of the first loop.
LEMMA InvFilter == Inv /\ Filter => Inv'
<1>. SUFFICES ASSUME Inv, Filter PROVE Inv'
  OBVIOUS
<1>0. UNCHANGED <<input, pc, keys, retained, deduplicated, steps, result>>
      /\ pc = "filter"
  BY DEF Filter
<1>. USE InputStays DEF Inv
<1>1. PICK s \in todo :
        /\ todo' = todo \ {s}
        /\ \/ /\ Accepted(s, ReferenceTime) /\ rejected' = rejected
              /\ groups' = [groups EXCEPT ![s.key] = @ \cup {s}]
           \/ /\ ~ Accepted(s, ReferenceTime) /\ groups' = groups
              /\ rejected' = rejected \cup {s}
  BY DEF Filter
<1>2. s \in Entry /\ s.key \in Keys
  BY DEF TypeOK, Entry
<1>3. TypeOK'
  BY <1>0, <1>1, <1>2 DEF TypeOK
<1>4. Placed'
  <2>1. CASE groups' = groups /\ rejected' = rejected \cup {s}
    BY <1>0, <1>1, <2>1 DEF Placed
  <2>2. CASE rejected' = rejected /\ groups' = [groups EXCEPT ![s.key] = @ \cup {s}]
    <3>1. \A k \in Keys : groups'[k] = IF k = s.key THEN groups[k] \cup {s} ELSE groups[k]
      BY <2>2 DEF TypeOK
    <3>2. \A x : (\E k \in Keys : x \in groups'[k])
                   <=> x = s \/ \E k \in Keys : x \in groups[k]
      BY <1>2, <3>1
    <3>3. UNION {groups'[k] : k \in Keys} = {s} \cup UNION {groups[k] : k \in Keys}
      BY <3>2, Zenon
    <3>. QED BY <1>0, <1>1, <2>2, <3>1, <3>3 DEF Placed
  <2>. QED BY <1>1, <2>1, <2>2
<1>5. Filtered'
  BY <1>0, <1>1, <1>2 DEF Filtered, TypeOK
<1>6. Phase'
  BY <1>0, <1>1 DEF Phase
<1>7. Retained' = Retained /\ Ignored' = Ignored /\ OneLayerPerKey'
  BY <1>0 DEF Retained, Ignored, OneLayerPerKey
<1>8. Chosen'
  BY <1>0, <1>7 DEF Chosen, Resolved, Phase
<1>9. Shares' /\ ResidualIsSafe'
  BY <1>0 DEF Shares, ResidualIsSafe
<1>. QED BY <1>0, <1>3, <1>4, <1>5, <1>6, <1>7, <1>8, <1>9

\* The keys of the groups: none is resolved yet.
LEMMA InvCollectKeys == Inv /\ CollectKeys => Inv'
<1>. SUFFICES ASSUME Inv, CollectKeys PROVE Inv'
  OBVIOUS
<1>0. UNCHANGED <<input, todo, rejected, groups, retained, deduplicated, steps, result>>
      /\ pc = "filter" /\ pc' = "resolve" /\ todo = {}
      /\ keys' = {k \in Keys : groups[k] # {}}
  BY DEF CollectKeys
<1>. USE InputStays DEF Inv
<1>1. TypeOK' /\ Phase' /\ Placed' /\ Filtered'
  BY <1>0 DEF TypeOK, Phase, Placed, Filtered
<1>2. Retained' = Retained /\ Ignored' = Ignored /\ OneLayerPerKey'
  BY <1>0 DEF Retained, Ignored, OneLayerPerKey
<1>3. Chosen'
  <2>1. Resolved = {} /\ Resolved' = {}
    BY <1>0 DEF Resolved
  <2>2. DOMAIN retained = {} /\ DOMAIN deduplicated = {}
    BY <1>0 DEF Phase
  <2>. QED BY <1>0, <1>2, <2>1, <2>2 DEF Chosen
<1>4. Shares' /\ ResidualIsSafe'
  BY <1>0 DEF Shares, ResidualIsSafe
<1>. QED BY <1>0, <1>1, <1>2, <1>3, <1>4

\* CalculateScore starts.
LEMMA InvStartScore == Inv /\ StartScore => Inv'
<1>. SUFFICES ASSUME Inv, StartScore PROVE Inv'
  OBVIOUS
<1>0. UNCHANGED <<input, todo, rejected, groups, keys, retained, deduplicated, steps, result>>
      /\ pc = "resolve" /\ pc' = "score" /\ keys = {}
  BY DEF StartScore
<1>. USE InputStays DEF Inv
<1>1. TypeOK' /\ Phase' /\ Placed' /\ Filtered'
  BY <1>0 DEF TypeOK, Phase, Placed, Filtered
<1>2. Retained' = Retained /\ Ignored' = Ignored /\ OneLayerPerKey'
  BY <1>0 DEF Retained, Ignored, OneLayerPerKey
<1>3. Chosen'
  BY <1>0, <1>2 DEF Chosen, Resolved
<1>4. Shares' /\ ResidualIsSafe'
  BY <1>0 DEF Shares, ResidualIsSafe
<1>. QED BY <1>0, <1>1, <1>2, <1>3, <1>4

\* What has got through so far is a fraction, and no more than everything.
LEMMA CombinedType ==
  ASSUME Inv
  PROVE  Combined \in Fraction /\ Combined.remaining <= Combined.whole
<1>1. CASE steps = <<>>
  BY <1>1 DEF Combined, Unprotected, Fraction
<1>2. CASE steps # <<>>
  <2>1. Len(steps) \in DOMAIN steps /\ steps[Len(steps)] \in Fraction
    BY <1>2 DEF Inv, TypeOK
  <2>. QED BY <1>2, <2>1 DEF Combined, Inv, Shares
<1>. QED BY <1>1, <1>2

\* One layer more keeps the fraction one.
LEMMA ThroughType ==
  ASSUME NEW p \in Fraction, p.remaining <= p.whole, NEW s \in Entry
  PROVE  /\ Through(p, s) \in Fraction
         /\ Through(p, s).remaining <= Through(p, s).whole
<1>. DEFINE a == p.remaining
            w == p.whole
            open == Scale - s.level
<1>0. s.level \in 1 .. Scale /\ Scale \in Nat \ {0}
  BY ScaleAssumption DEF Entry
<1>1. a \in Nat /\ w \in Nat \ {0} /\ a <= w /\ open \in Nat /\ open <= Scale
      /\ Scale \in Nat \ {0}
  BY <1>0 DEF Fraction
<1>. HIDE DEF a, w, open
<1>2. a * open \in Nat /\ w * Scale \in Nat
  BY <1>1
<1>3. a * open <= w * Scale
  <2>1. a * open <= w * open
    BY <1>1, Times
  <2>2. open * w <= Scale * w
    BY <1>1, Times
  <2>3. open * w = w * open /\ Scale * w = w * Scale
    BY <1>1
  <2>4. w * open \in Nat
    BY <1>1
  <2>. QED BY <1>2, <2>1, <2>2, <2>3, <2>4
<1>4. w * Scale # 0
  BY <1>1
<1>5. Through(p, s) = [remaining |-> a * open, whole |-> w * Scale]
  BY DEF Through, a, w, open
<1>. QED BY <1>2, <1>3, <1>4, <1>5 DEF Fraction

\* One iteration of the score's loop.
LEMMA InvCombine == Inv /\ Combine => Inv'
<1>. SUFFICES ASSUME Inv, Combine PROVE Inv'
  OBVIOUS
<1>. DEFINE s == retained[Len(steps) + 1]
            p == Through(Combined, s)
<1>0. UNCHANGED <<input, pc, todo, rejected, groups, keys, retained, deduplicated, result>>
      /\ pc = "score" /\ steps' = Append(steps, p) /\ Len(steps) < Len(retained)
  BY DEF Combine
<1>. USE InputStays DEF Inv
<1>1. steps \in Seq(Fraction) /\ retained \in Seq(Entry)
  BY DEF TypeOK
<1>2. s \in Entry
  BY <1>0, <1>1
<1>3. p \in Fraction /\ p.remaining <= p.whole
  BY <1>2, CombinedType, ThroughType
<1>. HIDE DEF p, s
<1>4. steps' \in Seq(Fraction) /\ Shares'
  <2>1. \A i \in DOMAIN steps' : steps'[i] = p \/ (i \in DOMAIN steps /\ steps'[i] = steps[i])
    BY <1>0, <1>1, <1>3
  <2>. QED BY <1>0, <1>1, <1>3, <2>1 DEF Shares
<1>5. TypeOK' /\ Phase' /\ Placed' /\ Filtered' /\ ResidualIsSafe'
  BY <1>0, <1>4 DEF TypeOK, Phase, Placed, Filtered, ResidualIsSafe
<1>6. Retained' = Retained /\ Ignored' = Ignored /\ OneLayerPerKey'
  BY <1>0 DEF Retained, Ignored, OneLayerPerKey
<1>7. Chosen'
  BY <1>0, <1>6 DEF Chosen, Resolved
<1>. QED BY <1>0, <1>4, <1>5, <1>6, <1>7

\* The result: every way a rounding can go is safe.
LEMMA InvConclude == Inv /\ Conclude => Inv'
<1>. SUFFICES ASSUME Inv, Conclude PROVE Inv'
  OBVIOUS
<1>0. UNCHANGED <<input, todo, rejected, groups, keys, retained, deduplicated, steps>>
      /\ pc = "score" /\ pc' = "done"
  BY DEF Conclude
<1>. USE InputStays DEF Inv
<1>1. PICK share \in MayGetThrough(Combined) : \E r \in Rounded(share) :
        result' = [remaining |-> Combined.remaining, whole |-> Combined.whole,
                   covered |-> 2 * share <= Precision,
                   residual |-> Residual(initialRisk, r),
                   before |-> RiskRank(initialRisk),
                   after |-> RiskRank(Residual(initialRisk, r))]
  BY DEF Conclude
<1>2. PICK rounded \in Rounded(share) :
        result' = [remaining |-> Combined.remaining, whole |-> Combined.whole,
                   covered |-> 2 * share <= Precision,
                   residual |-> Residual(initialRisk, rounded),
                   before |-> RiskRank(initialRisk),
                   after |-> RiskRank(Residual(initialRisk, rounded))]
  BY <1>1
<1>3. initialRisk \in Nat \ {0} /\ Len(retained) \in Nat /\ retained' = retained
  BY <1>0 DEF InputOK, TypeOK
<1>4. Combined.remaining \in Nat /\ Combined.whole \in Nat \ {0}
      /\ Combined.remaining <= Combined.whole
  BY CombinedType DEF Fraction
<1>5. share \in 0 .. Precision /\
      share * Combined.whole
        \in Combined.remaining * Precision - Drift * Len(retained) * Combined.whole
            .. Combined.remaining * Precision + Drift * Len(retained) * Combined.whole
  BY <1>1 DEF MayGetThrough
<1>6. LET k == Residual(initialRisk, rounded)
          half == (initialRisk + 1) \div 2
          exact == Combined.remaining * Precision
          off == Drift * (Len(retained) + 1) * Combined.whole
          unit == Combined.whole * Precision
      IN  /\ k \in 1 .. initialRisk
          /\ IF 2 * share <= Precision THEN k <= half ELSE k >= half
          /\ initialRisk * (exact - off) <= k * unit
          /\ (k - 1) * unit <= initialRisk * (exact + off)
  BY <1>2, <1>3, <1>4, <1>5, ResidualBounds
<1>7. \A m : RiskRank(m) \in Ranks
  BY DEF RiskRank, Ranks
<1>8. (2 * share <= Precision) \in BOOLEAN
  OBVIOUS
<1>9. /\ result'.remaining = Combined.remaining /\ result'.whole = Combined.whole
      /\ result'.covered = (2 * share <= Precision)
      /\ result'.residual = Residual(initialRisk, rounded)
      /\ initialRisk' = initialRisk
  BY <1>2, <1>0
<1>12. result' \in Result
  BY <1>2, <1>3, <1>4, <1>6, <1>7, <1>8 DEF Result
<1>13. TypeOK' /\ Phase' /\ Placed' /\ Filtered' /\ Shares'
  BY <1>0, <1>12 DEF TypeOK, Phase, Placed, Filtered, Shares
<1>14. ResidualIsSafe'
  BY <1>3, <1>6, <1>9 DEF ResidualIsSafe
<1>10. Retained' = Retained /\ Ignored' = Ignored /\ OneLayerPerKey'
  BY <1>0 DEF Retained, Ignored, OneLayerPerKey
<1>11. Chosen'
  BY <1>0, <1>10 DEF Chosen, Resolved
<1>. QED BY <1>0, <1>10, <1>11, <1>13, <1>14

\* Appending adds one value to those of a sequence.
LEMMA AppendRange ==
  ASSUME NEW S, NEW q \in Seq(S), NEW x \in S
  PROVE  /\ Append(q, x) \in Seq(S)
         /\ Range(Append(q, x)) = Range(q) \cup {x}
         /\ \A i \in DOMAIN Append(q, x) :
              \/ i \in DOMAIN q /\ Append(q, x)[i] = q[i] /\ i <= Len(q)
              \/ i = Len(q) + 1 /\ Append(q, x)[i] = x
<1>. DEFINE a == Append(q, x)
<1>1. /\ a \in Seq(S) /\ Len(a) = Len(q) + 1 /\ Len(q) \in Nat
      /\ DOMAIN a = 1 .. Len(q) + 1 /\ DOMAIN q = 1 .. Len(q)
      /\ \A i \in DOMAIN q : a[i] = q[i]
      /\ a[Len(q) + 1] = x
  OBVIOUS
<1>. HIDE DEF a
<1>2. \A i \in DOMAIN a : \/ i \in DOMAIN q /\ a[i] = q[i] /\ i <= Len(q)
                          \/ i = Len(q) + 1 /\ a[i] = x
  BY <1>1
<1>3. Range(a) = Range(q) \cup {x}
  BY <1>1, <1>2 DEF Range
<1>. QED BY <1>1, <1>2, <1>3 DEF a

\* One iteration of the second loop: the smallest key is resolved.
LEMMA InvResolve == Inv /\ Resolve => Inv'
<1>. SUFFICES ASSUME Inv, Resolve PROVE Inv'
  OBVIOUS
<1>. DEFINE Dropped == [key : Keys, kept : Entry, ignored : SUBSET Entry]
<1>1. PICK k, kept, ignored, d :
        /\ k = Min(keys) /\ kept = Best(groups[k])
        /\ ignored = groups[k] \ {kept}
        /\ d = [key |-> k, kept |-> kept, ignored |-> ignored]
  OBVIOUS
<1>0. /\ UNCHANGED <<input, pc, todo, rejected, groups, steps, result>>
      /\ pc = "resolve" /\ keys # {} /\ keys' = keys \ {k}
      /\ retained' = Append(retained, kept)
      /\ deduplicated' = IF ignored = {} THEN deduplicated ELSE Append(deduplicated, d)
  BY <1>1 DEF Resolve, NextKey, Others
<1>. USE InputStays DEF Inv
<1>2. k \in keys /\ k \in Keys /\ k \in Nat /\ \A j \in keys \ {k} : j \in Nat /\ k < j
  <2>1. keys \in SUBSET Nat /\ keys \subseteq Keys
    BY KeyAssumption DEF TypeOK
  <2>2. Min(keys) \in keys /\ \A j \in keys : Min(keys) <= j
    BY <1>0, <2>1, MinExists
  <2>3. k \in keys /\ \A j \in keys : k <= j
    BY <1>1, <2>2
  <2>. QED BY <2>1, <2>3
<1>3. groups[k] # {}
  BY <1>2 DEF Chosen
<1>4. /\ kept \in groups[k] /\ kept \in Entry /\ kept.key = k
      /\ ignored \subseteq Entry /\ groups[k] = {kept} \cup ignored
      /\ d \in Dropped /\ d.key = k /\ d.kept = kept /\ d.ignored = ignored
  <2>1. kept \in groups[k] /\ groups[k] \subseteq Entry
    BY <1>1, <1>2, <1>3, GroupBest
  <2>. QED BY <1>1, <1>2, <2>1 DEF Filtered
<1>5. retained \in Seq(Entry) /\ deduplicated \in Seq(Dropped)
  BY DEF TypeOK
<1>6. /\ retained' \in Seq(Entry) /\ Retained' = Retained \cup {kept}
      /\ \A i \in DOMAIN retained' :
           \/ i \in DOMAIN retained /\ retained'[i] = retained[i] /\ i <= Len(retained)
           \/ i = Len(retained) + 1 /\ retained'[i] = kept
  BY <1>0, <1>4, <1>5, AppendRange DEF Retained
<1>7. /\ deduplicated' \in Seq(Dropped)
      /\ Range(deduplicated') = Range(deduplicated) \cup (IF ignored = {} THEN {} ELSE {d})
      /\ \A i \in DOMAIN deduplicated' :
           \/ /\ i \in DOMAIN deduplicated /\ deduplicated'[i] = deduplicated[i]
              /\ i <= Len(deduplicated)
           \/ i = Len(deduplicated) + 1 /\ deduplicated'[i] = d
  <2>. HIDE DEF Dropped
  <2>1. CASE ignored = {}
    <3>1. DOMAIN deduplicated = 1 .. Len(deduplicated)
      BY <1>5
    <3>. QED BY <1>0, <1>5, <2>1, <3>1
  <2>2. CASE ignored # {}
    BY <1>0, <1>4, <1>5, <2>2, AppendRange
  <2>. QED BY <2>1, <2>2
<1>8. Ignored' = Ignored \cup ignored
  <2>1. \A x : (\E e \in Range(deduplicated') : x \in e.ignored)
                 <=> x \in ignored \/ \E e \in Range(deduplicated) : x \in e.ignored
    BY <1>4, <1>7
  <2>2. Ignored = {x \in Ignored : TRUE} /\ Ignored' = {x \in Ignored' : TRUE}
    OBVIOUS
  <2>3. \A x : (x \in Ignored' <=> \E e \in Range(deduplicated') : x \in e.ignored)
               /\ (x \in Ignored <=> \E e \in Range(deduplicated) : x \in e.ignored)
    BY Zenon DEF Ignored
  <2>. QED BY <2>1, <2>3
<1>9. Resolved' = Resolved \cup {k} /\ k \notin Resolved
  BY <1>0, <1>2, <1>3 DEF Resolved
<1>10. TypeOK'
  BY <1>0, <1>6, <1>7 DEF TypeOK
<1>11. Phase' /\ Placed' /\ Filtered' /\ Shares' /\ ResidualIsSafe'
  BY <1>0 DEF Phase, Placed, Filtered, Shares, ResidualIsSafe
<1>12. Chosen'
  <2>1. \A j \in keys' : groups'[j] # {}
    BY <1>0 DEF Chosen
  <2>2. Retained' = {Best(groups'[j]) : j \in Resolved'}
    BY <1>0, <1>1, <1>6, <1>9 DEF Chosen
  <2>3. Ignored' = UNION {groups'[j] \ {Best(groups'[j])} : j \in Resolved'}
    <3>1. \A x : x \in Ignored <=> \E j \in Resolved : x \in groups[j] \ {Best(groups[j])}
      BY Zenon DEF Chosen
    <3>2. \A x : x \in Ignored' <=> \E j \in Resolved' : x \in groups[j] \ {Best(groups[j])}
      BY <1>1, <1>8, <1>9, <3>1
    <3>3. Ignored' = UNION {groups[j] \ {Best(groups[j])} : j \in Resolved'}
      BY <3>2, Zenon
    <3>. QED BY <1>0, <3>3
  <2>4. \A i \in DOMAIN retained' : \A j \in keys' : retained'[i].key < j
    BY <1>0, <1>2, <1>4, <1>6 DEF Chosen
  <2>5. \A i \in DOMAIN deduplicated' : \A j \in keys' : deduplicated'[i].key < j
    BY <1>0, <1>2, <1>4, <1>7 DEF Chosen
  <2>. QED BY <2>1, <2>2, <2>3, <2>4, <2>5 DEF Chosen
<1>13. OneLayerPerKey'
  <2>1. \A i, j \in DOMAIN retained' : i < j => retained'[i].key < retained'[j].key
    <3>1. DOMAIN retained = 1 .. Len(retained) /\ Len(retained) \in Nat
      BY <1>5
    <3>2. \A i \in DOMAIN retained : retained[i].key < k
      BY <1>2 DEF Chosen
    <3>. QED BY <1>4, <1>6, <3>1, <3>2 DEF OneLayerPerKey
  <2>2. \A i, j \in DOMAIN deduplicated' :
          i < j => deduplicated'[i].key < deduplicated'[j].key
    <3>1. DOMAIN deduplicated = 1 .. Len(deduplicated) /\ Len(deduplicated) \in Nat
      BY <1>5
    <3>2. \A i \in DOMAIN deduplicated : deduplicated[i].key < k
      BY <1>2 DEF Chosen
    <3>. QED BY <1>4, <1>7, <3>1, <3>2 DEF OneLayerPerKey
  <2>3. \A e \in Range(deduplicated') : e.kept \in Retained' /\ e.kept.key = e.key
    BY <1>4, <1>6, <1>7 DEF OneLayerPerKey
  <2>. QED BY <2>1, <2>2, <2>3 DEF OneLayerPerKey
<1>. QED BY <1>0, <1>10, <1>11, <1>12, <1>13

\* The invariant is inductive.
LEMMA InvNext == Inv /\ [Next]_vars => Inv'
<1>. SUFFICES ASSUME Inv, [Next]_vars PROVE Inv'
  OBVIOUS
<1>1. CASE UNCHANGED vars
  <2>. USE <1>1 DEF vars, input
  <2>1. InputOK' /\ TypeOK' /\ Phase' /\ Filtered' /\ Shares'
    BY DEF Inv, InputOK, TypeOK, Phase, Filtered, Shares, Accepted, Eligible, ReferenceTime
  <2>2. Retained' = Retained /\ Ignored' = Ignored /\ Snapshot' = Snapshot
    BY DEF Retained, Ignored, Snapshot, Stored
  <2>3. Placed' /\ OneLayerPerKey' /\ Chosen' /\ ResidualIsSafe'
    BY <2>2 DEF Inv, Placed, OneLayerPerKey, Chosen, Resolved, ResidualIsSafe
  <2>. QED BY <2>1, <2>3 DEF Inv
<1>2. CASE Done
  BY <1>1, <1>2 DEF Done
<1>. QED BY <1>1, <1>2, InvFreeze, InvFilter, InvCollectKeys, InvResolve, InvStartScore,
            InvCombine, InvConclude DEF Next
----------------------------------------------------------------------------
\* Whatever it is given, every variable of Evaluate keeps its shape.
THEOREM TypeCorrect == Spec => []TypeOK
<1>1. Inv => TypeOK
  BY DEF Inv
<1>. QED BY <1>1, InvInit, InvNext, PTL DEF Spec

\* No independence key is counted twice, and the result comes in key order.
THEOREM KeysCountOnce == Spec => []OneLayerPerKey
<1>1. Inv => OneLayerPerKey
  BY DEF Inv
<1>. QED BY <1>1, InvInit, InvNext, PTL DEF Spec

\* However float64 rounds, verdict and residual risk agree, and the residual is
\* as close to what gets through as the steps of the computation allow.
THEOREM ResidualSafe == Spec => []ResidualIsSafe
<1>1. Inv => ResidualIsSafe
  BY DEF Inv
<1>. QED BY <1>1, InvInit, InvNext, PTL DEF Spec

\* No safeguard is lost or used twice between the snapshot and the lists of
\* the result, in whatever order the loops take them.
THEOREM LayersAccounted == Spec => []EveryLayerAccounted
<1>1. Inv => EveryLayerAccounted
  <2>. SUFFICES ASSUME Inv PROVE EveryLayerAccounted
    OBVIOUS
  <2>1. /\ Retained = {Best(groups[k]) : k \in Resolved}
        /\ \A x : x \in Ignored <=> \E k \in Resolved : x \in groups[k] \ {Best(groups[k])}
    <3>1. Ignored = UNION {groups[k] \ {Best(groups[k])} : k \in Resolved}
      BY DEF Inv, Chosen
    <3>2. \A x : x \in Ignored <=> \E k \in Resolved : x \in groups[k] \ {Best(groups[k])}
      BY <3>1, Zenon
    <3>. QED BY <3>2 DEF Inv, Chosen
  <2>2. \A k \in Resolved : k \in Keys /\ groups[k] # {} /\ Best(groups[k]) \in groups[k]
    BY GroupBest DEF Resolved
  <2>3. Retained \cap Ignored = {}
    BY <2>1, <2>2, OneGroup
  <2>4. ASSUME NEW k \in Keys, NEW s \in groups[k]
        PROVE  /\ s.key = k
               /\ s \in Retained \cup Ignored
                    <=> pc \in {"resolve", "score", "done"} /\ k \notin keys
    <3>1. s.key = k
      BY DEF Inv, Filtered
    <3>2. s \in Retained \cup Ignored <=> k \in Resolved
      BY <2>1, <2>2, OneGroup
    <3>3. k \in Resolved <=> pc \in {"resolve", "score", "done"} /\ k \notin keys
      BY DEF Resolved, Inv, TypeOK
    <3>. QED BY <3>1, <3>2, <3>3
  <2>5. pc # "freeze" =>
          /\ todo \cup rejected \cup UNION {groups[k] : k \in Keys}
               = {Frozen(row) : row \in Stored}
          /\ todo \cap rejected = {}
          /\ \A k \in Keys : groups[k] \cap (todo \cup rejected) = {}
    BY DEF Inv, Placed, Snapshot
  <2>. QED BY <2>3, <2>4, <2>5 DEF EveryLayerAccounted
<1>. QED BY <1>1, InvInit, InvNext, PTL DEF Spec

\* The evaluator and the safeguard service: cutting to the second never makes
\* the evaluator drop a layer the service calls effective, and lets it count
\* one for less than a second after its expiry.
LEMMA EligibleAgrees ==
  ASSUME InputOK, NEW row \in Stored
  PROVE  /\ IsEffectiveAt(row, instant) => Eligible(Frozen(row), ReferenceTime)
         /\ Eligible(Frozen(row), ReferenceTime) =>
              row.verifiedAt # Null /\ instant < Expires(row) + Second
<1>. DEFINE s == Frozen(row)
            v == row.verifiedAt
            length == row.interval * Day
<1>1. /\ row \in Safeguard /\ s \in Entry /\ s.level = row.level
      /\ s.interval = row.interval /\ s.state = row.state
      /\ s.verifiedAt = IF v = Null THEN Null ELSE Truncate(v)
  BY FrozenType
<1>2. /\ s.level \in 1 .. Scale /\ Scale \in Nat \ {0}
      /\ s.interval \in Intervals /\ s.interval \in Nat \ {0}
      /\ v # Null => v \in Nat
  BY <1>1, ScaleAssumption, ClockAssumption DEF Safeguard, Entry
<1>3. PICK n \in Nat : length = n * Second
  BY <1>1, <1>2, IntervalInSeconds
<1>4. length \in Nat /\ Second \in Nat \ {0} /\ instant \in Nat
  BY <1>3, ClockAssumption DEF InputOK
<1>5. v # Null => /\ Truncate(v) # Null /\ Truncate(v) \in Nat /\ Truncate(v) <= v
                  /\ v \in Nat
  BY <1>2, TruncateClose, NullAssumption
<1>6. /\ ReferenceTime \in Nat /\ ReferenceTime <= instant
      /\ instant < ReferenceTime + Second
  BY <1>4, TruncateClose DEF ReferenceTime
<1>7. ASSUME v # Null, instant <= v + length
      PROVE  ReferenceTime <= Truncate(v) + length
  BY <1>2, <1>3, <1>4, <1>7, TruncateMonotone DEF ReferenceTime
<1>8. Expires(row) = v + length
  BY DEF Expires
<1>9. v # Null => Expires(s) = Truncate(v) + length
  BY <1>1 DEF Expires
<1>. HIDE DEF s, v, length
<1>10. ASSUME IsEffectiveAt(row, instant) PROVE Eligible(s, ReferenceTime)
  <2>1. s.state = "active" /\ v # Null /\ instant <= v + length
    BY <1>1, <1>8, <1>10 DEF IsEffectiveAt, v
  <2>2. ~ ReferenceTime > Expires(s)
    BY <1>4, <1>5, <1>6, <1>7, <1>9, <2>1
  <2>. QED BY <1>1, <1>2, <1>5, <2>1, <2>2 DEF Eligible
<1>11. ASSUME Eligible(s, ReferenceTime)
       PROVE  v # Null /\ instant < Expires(row) + Second
  <2>1. v # Null /\ ~ ReferenceTime > Truncate(v) + length
    BY <1>1, <1>9, <1>11 DEF Eligible
  <2>. QED BY <1>4, <1>5, <1>6, <1>8, <2>1
<1>. QED BY <1>10, <1>11 DEF s, v

\* The two notions of expiry differ by less than a second, and to one side;
\* what else the evaluator drops of the effective layers are those without a key.
THEOREM ExpiriesAgree == Spec => []ExpiryAgrees
<1>1. Inv => ExpiryAgrees
  <2>. SUFFICES ASSUME Inv, NEW row \in Stored
                PROVE  /\ Frozen(row) \in rejected =>
                            row.key = Blank \/ ~ IsEffectiveAt(row, instant)
                       /\ Frozen(row) \in groups[row.key] =>
                            /\ row.key # Blank /\ row.verifiedAt # Null
                            /\ instant < Expires(row) + Second
    BY DEF ExpiryAgrees
  <2>1. row.key \in Keys /\ Frozen(row).key = row.key
    BY FrozenType DEF Inv, Safeguard
  <2>. QED BY <2>1, EligibleAgrees DEF Inv, Filtered, Accepted
<1>. QED BY <1>1, InvInit, InvNext, PTL DEF Spec

\* The layers the score is made of are the effective ones that no other of
\* their key beats, told from the stored rows and not from the loops.
LayersAreBest == pc = "done" => Retained = Counting(Stored)

\* However the rows and the maps are walked, the result counts the best layers.
THEOREM BestLayersCount == Spec => []LayersAreBest
<1>1. Inv => LayersAreBest
  <2>. SUFFICES ASSUME Inv, pc = "done" PROVE Retained = Counting(Stored)
    BY DEF LayersAreBest
  <2>. DEFINE eligible == {s \in Snapshot :
                 s.key # Blank /\ IsEffectiveAt(s, ReferenceTime)}
              best == {s \in eligible : ~ \E t \in eligible :
                 t.key = s.key /\ (t.level > s.level \/ (t.level = s.level /\ t.id < s.id))}
  <2>1. Counting(Stored) = best
    BY DEF Counting, Snapshot
  <2>2. ASSUME NEW s \in Snapshot
        PROVE  /\ s \in Entry
               /\ s \in eligible <=> Accepted(s, ReferenceTime)
    <3>1. s \in Entry
      BY SnapshotType DEF Inv
    <3>2. s.level \in 1 .. Scale /\ Scale \in Nat /\ s.interval \in Nat \ {0}
      BY <3>1, ScaleAssumption, ClockAssumption DEF Entry
    <3>3. ReferenceTime \in Nat
      BY TruncateClose DEF ReferenceTime, Inv, InputOK
    <3>4. s.verifiedAt # Null => Expires(s) \in Nat
      <4>. SUFFICES ASSUME s.verifiedAt # Null PROVE Expires(s) \in Nat
        OBVIOUS
      <4>1. s.verifiedAt \in Nat /\ s.interval \in Nat /\ Day \in Nat
        BY <3>1, ClockAssumption DEF Entry
      <4>2. s.interval * Day \in Nat
        BY <4>1
      <4>. QED BY <4>1, <4>2 DEF Expires
    <3>5. s.verifiedAt # Null =>
            (ReferenceTime <= Expires(s) <=> ~ ReferenceTime > Expires(s))
      BY <3>3, <3>4
    <3>. QED BY <3>1, <3>2, <3>5 DEF Accepted, Eligible, IsEffectiveAt
  <2>3. ASSUME NEW s PROVE s \in eligible <=> \E k \in Keys : s \in groups[k]
    <3>1. s \in Snapshot <=> s \in rejected \/ \E k \in Keys : s \in groups[k]
      <4>1. Snapshot = rejected \cup UNION {groups[k] : k \in Keys}
        BY DEF Inv, Phase, Placed
      <4>. QED BY <4>1, Zenon
    <3>. QED BY <2>2, <3>1 DEF Inv, Filtered
  <2>4. \A s \in eligible : s.level \in Int /\ s.id \in Nat /\ s.key \in Keys
                            /\ s \in groups[s.key]
    <3>1. ASSUME NEW s \in eligible PROVE s.level \in Int /\ s.id \in Nat /\ s.key \in Keys
      <4>1. s \in Entry
        BY <2>2
      <4>2. s.level \in 1 .. Scale /\ s.id \in Nat /\ s.key \in Keys /\ Scale \in Nat
        BY <4>1, ScaleAssumption, KeyAssumption DEF Entry
      <4>. QED BY <4>2
    <3>2. ASSUME NEW s \in eligible PROVE s \in groups[s.key]
      BY <2>3 DEF Inv, Filtered
    <3>. QED BY <3>1, <3>2
  <2>5. Retained = {Best(groups[k]) : k \in {j \in Keys : groups[j] # {}}}
    BY DEF Inv, Chosen, Phase, Resolved
  <2>. HIDE DEF eligible
  <2>6. ASSUME NEW k \in Keys, groups[k] # {} PROVE Best(groups[k]) \in best
    <3>. DEFINE s == Best(groups[k])
    <3>1. s \in groups[k] /\ \A t \in groups[k] \ {s} : Better(s, t)
      BY <2>6, GroupBest
    <3>. HIDE DEF s
    <3>2. s \in eligible /\ s.key = k
      BY <2>3, <3>1 DEF Inv, Filtered
    <3>3. ASSUME NEW t \in eligible, t.key = s.key,
                 t.level > s.level \/ (t.level = s.level /\ t.id < s.id)
          PROVE  FALSE
      <4>1. t \in groups[k] /\ t # s
        BY <2>4, <3>2, <3>3
      <4>2. Better(s, t)
        BY <3>1, <4>1
      <4>. QED BY <2>4, <3>2, <3>3, <4>2 DEF Better
    <3>. QED BY <3>2, <3>3 DEF s
  <2>7. ASSUME NEW s \in best PROVE s \in Retained
    <3>. DEFINE k == s.key
                b == Best(groups[k])
    <3>1. s \in eligible /\ k \in Keys /\ s \in groups[k] /\ groups[k] # {}
      BY <2>4
    <3>2. b \in groups[k] /\ \A t \in groups[k] \ {b} : Better(b, t)
      BY <3>1, GroupBest
    <3>3. b \in eligible /\ b.key = k
      BY <2>3, <3>1, <3>2 DEF Inv, Filtered
    <3>4. s = b
      BY <2>4, <3>1, <3>2, <3>3 DEF Better
    <3>. QED BY <2>5, <3>1, <3>4
  <2>. QED BY <2>1, <2>5, <2>6, <2>7
<1>. QED BY <1>1, InvInit, InvNext, PTL DEF Spec
====
