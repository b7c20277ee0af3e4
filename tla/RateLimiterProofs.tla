-------------------------- MODULE RateLimiterProofs --------------------------
(* Theorems about RateLimiter for every limit, window, delay and map size.  *)
EXTENDS RateLimiter, TLAPS

\* The smaller of two numbers.
LEMMA MinOfTwo ==
  ASSUME NEW a \in Int, NEW b \in Int
  PROVE  Min({a, b}) = IF a <= b THEN a ELSE b
<1>1. CASE a <= b
  <2>1. \A x \in {a, b} : (\A y \in {a, b} : x <= y) => x = a
    BY <1>1
  <2>2. \A y \in {a, b} : a <= y
    BY <1>1
  <2>. QED BY <1>1, <2>1, <2>2 DEF Min
<1>2. CASE ~ (a <= b)
  <2>1. \A x \in {a, b} : (\A y \in {a, b} : x <= y) => x = b
    BY <1>2
  <2>2. \A y \in {a, b} : b <= y
    BY <1>2
  <2>. QED BY <1>2, <2>1, <2>2 DEF Min
<1>. QED BY <1>1, <1>2

\* What a request makes of the window of its key.
LEMMA CountedType ==
  ASSUME NEW w \in RateWindow \cup {Null}, NEW lag \in 0 .. MaxDelay
  PROVE  Counted(w, lag) \in RateWindow
<1>. USE TimeAssumption, LimitAssumption
<1>1. Fresh(lag) \in RateWindow
  BY DEF Fresh, RateWindow, MaxAge
<1>2. CASE Over(w, lag)
  BY <1>1, <1>2 DEF Counted
<1>3. CASE ~ Over(w, lag)
  <2>1. w \in RateWindow
    BY <1>3 DEF Over
  <2>. DEFINE c == Min({w.count + 1, Limit + 1})
  <2>2. c \in 1 .. Limit + 1
    <3>1. w.count \in 1 .. Limit + 1
      BY <2>1 DEF RateWindow
    <3>. QED BY <3>1, MinOfTwo
  <2>3. Counted(w, lag) = [w EXCEPT !.count = c]
    BY <1>3, <2>1 DEF Counted, RateWindow
  <2>. HIDE DEF c
  <2>. QED BY <2>1, <2>2, <2>3 DEF RateWindow
<1>. QED BY <1>2, <1>3

\* Reading the clock.
LEMMA TypeReadClock ==
  ASSUME TypeOK, NEW r \in Requests, ReadClock(r)
  PROVE  TypeOK'
<1>1. PICK k \in Keys :
        request' = [request EXCEPT ![r] = [pc |-> "clock", key |-> k, lag |-> 0]]
  BY DEF ReadClock
<1>2. [pc |-> "clock", key |-> k, lag |-> 0] \in Request
  BY TimeAssumption DEF Request
<1>. QED BY <1>1, <1>2 DEF ReadClock, TypeOK

\* Holding the mutex.
LEMMA TypeEnter ==
  ASSUME TypeOK, NEW r \in Requests, Enter(r)
  PROVE  TypeOK'
<1>. DEFINE k == request[r].key
            lag == request[r].lag
            w == Counted(windows[k], lag)
            ws == [windows EXCEPT ![k] = w]
<1>0. /\ windows' = Evicted(ws, lag)
      /\ admitted' = IF Allowed(w) THEN [admitted EXCEPT ![k] = Admit(@)] ELSE admitted
      /\ request' = [request EXCEPT ![r] = Idle]
  BY DEF Enter
<1>1. k \in Keys /\ lag \in 0 .. MaxDelay
  BY DEF Enter, TypeOK, Request
<1>2. w \in RateWindow
  BY <1>1, CountedType DEF TypeOK
<1>. HIDE DEF k, lag, w
<1>3. ws \in [Keys -> RateWindow \cup {Null}]
  BY <1>1, <1>2 DEF TypeOK
<1>. HIDE DEF ws
<1>4. windows' \in [Keys -> RateWindow \cup {Null}]
  BY <1>0, <1>3 DEF Evicted
<1>5. request' \in [Requests -> Request]
  BY <1>0 DEF TypeOK, Idle, Request
<1>6. admitted' \in [Keys -> [Latest -> 0 .. Forgotten]]
  <2>1. ASSUME NEW ages \in [Latest -> 0 .. Forgotten]
        PROVE  Admit(ages) \in [Latest -> 0 .. Forgotten]
    <3>1. \A i \in Latest : i # 1 => i - 1 \in Latest
      BY LimitAssumption DEF Latest
    <3>2. 0 \in 0 .. Forgotten
      BY TimeAssumption DEF Forgotten
    <3>. QED BY <3>1, <3>2 DEF Admit
  <2>. QED BY <1>0, <1>1, <2>1 DEF TypeOK
<1>. QED BY <1>4, <1>5, <1>6 DEF TypeOK

\* Time passing.
LEMMA TypeTick == TypeOK /\ Tick => TypeOK'
<1>. SUFFICES ASSUME TypeOK, Tick PROVE TypeOK'
  OBVIOUS
<1>. USE TimeAssumption
<1>1. windows' \in [Keys -> RateWindow \cup {Null}]
  <2>1. ASSUME NEW w \in RateWindow
        PROVE  [w EXCEPT !.age = Min({@ + 1, MaxAge})] \in RateWindow
    <3>. DEFINE a == Min({w.age + 1, MaxAge})
    <3>1. a \in 0 .. MaxAge
      <4>1. w.age \in 0 .. MaxAge /\ MaxAge \in Nat
        BY DEF RateWindow, MaxAge
      <4>. HIDE DEF MaxAge
      <4>. QED BY <4>1, MinOfTwo
    <3>2. [w EXCEPT !.age = Min({@ + 1, MaxAge})] = [w EXCEPT !.age = a]
      BY DEF RateWindow
    <3>. HIDE DEF a
    <3>. QED BY <3>1, <3>2 DEF RateWindow
  <2>. DEFINE Older(w) == [w EXCEPT !.age = Min({@ + 1, MaxAge})]
  <2>2. windows' = [k \in Keys |-> IF windows[k] = Null THEN Null ELSE Older(windows[k])]
    BY DEF Tick
  <2>3. \A w \in RateWindow : Older(w) \in RateWindow
    BY <2>1
  <2>. HIDE DEF Older
  <2>. QED BY <2>2, <2>3 DEF TypeOK
<1>2. request' \in [Requests -> Request]
  <2>1. ASSUME NEW r \in Requests PROVE request'[r] \in Request
    <3>1. CASE request[r].pc = "idle"
      BY <3>1 DEF Tick, TypeOK
    <3>2. CASE request[r].pc # "idle"
      <4>1. request[r] \in [pc : {"clock"}, key : Keys, lag : 0 .. MaxDelay]
            /\ request[r].lag < MaxDelay
        BY <3>2 DEF Tick, TypeOK, Request
      <4>2. request'[r] = [request[r] EXCEPT !.lag = request[r].lag + 1]
        BY <3>2, <4>1 DEF Tick
      <4>. QED BY <4>1, <4>2 DEF Request
    <3>. QED BY <3>1, <3>2
  <2>2. request' = [r \in Requests |-> request'[r]]
    BY DEF Tick
  <2>. QED BY <2>1, <2>2
<1>3. admitted' \in [Keys -> [Latest -> 0 .. Forgotten]]
  <2>1. Forgotten \in Nat
    BY DEF Forgotten
  <2>2. \A a \in 0 .. Forgotten : Min({a + 1, Forgotten}) \in 0 .. Forgotten
    BY <2>1, MinOfTwo
  <2>. QED BY <2>2 DEF Tick, TypeOK
<1>. QED BY <1>1, <1>2, <1>3 DEF TypeOK

\* Whatever the limit, the window and the map's size: windows stay in their
\* range and have counted the request that opened them.
THEOREM TypeCorrect == Spec => []TypeOK
<1>1. Init => TypeOK
  BY TimeAssumption DEF Init, TypeOK, Idle, Request, Forgotten
<1>2. TypeOK /\ [Next]_vars => TypeOK'
  <2>1. TypeOK /\ UNCHANGED vars => TypeOK'
    BY DEF vars, TypeOK
  <2>. QED BY <2>1, TypeReadClock, TypeEnter, TypeTick DEF Next
<1>. QED BY <1>1, <1>2, PTL DEF Spec
----------------------------------------------------------------------------
(* The burst.  Of the requests of a key let through so far, the latest ones *)
(* entered the present window, those before them the window before it, and  *)
(* all others are out of reach.  A request enters a window at most MaxDelay *)
(* after its end, and the next window begins where it ends or later.        *)
\* An age is at least n, or forgotten.
AtLeast(age, n) == age = Forgotten \/ age >= n

\* How many the present window has let through.
Batch(w) == IF w.count <= Limit THEN w.count ELSE Limit

BatchesOK(w, ages) ==
  /\ \A i, j \in Latest : i <= j => ages[i] <= ages[j]
  /\ w = Null => AtLeast(ages[1], 1) /\ ages[Limit + 1] = Forgotten
  /\ w # Null =>
       /\ AtLeast(ages[1], w.age - Window - MaxDelay + 1)
       /\ AtLeast(ages[Batch(w) + 1], w.age - MaxDelay + 1)
       /\ ages[Batch(w) + Limit + 1] = Forgotten

Batches == \A k \in Keys : BatchesOK(windows[k], admitted[k])

Ages == [Latest -> 0 .. Forgotten]

\* The places of the record the argument looks at, and its range.
LEMMA Places ==
  /\ Forgotten \in Nat
  /\ 1 \in Latest /\ Limit + 1 \in Latest /\ 2 * Limit + 1 \in Latest
  /\ \A i \in Latest : i # 1 => i - 1 \in Latest
  /\ \A n \in 0 .. Limit : n + 1 \in Latest /\ n + Limit + 1 \in Latest
BY TimeAssumption, LimitAssumption DEF Forgotten, Latest

\* One more request is let through: the record stays in order.
LEMMA AdmitSorted ==
  ASSUME NEW ages \in Ages, \A i, j \in Latest : i <= j => ages[i] <= ages[j]
  PROVE  /\ Admit(ages) \in Ages
         /\ Admit(ages)[1] = 0
         /\ \A i \in Latest : i + 1 \in Latest => Admit(ages)[i + 1] = ages[i]
         /\ \A i, j \in Latest : i <= j => Admit(ages)[i] <= Admit(ages)[j]
<1>1. /\ Admit(ages)[1] = 0
      /\ \A i \in Latest : i # 1 => Admit(ages)[i] = ages[i - 1]
  BY Places DEF Admit
<1>2. Admit(ages) \in Ages
  BY Places DEF Admit, Ages
<1>3. ASSUME NEW i \in Latest, NEW j \in Latest, i <= j
      PROVE  Admit(ages)[i] <= Admit(ages)[j]
  <2>1. CASE i = 1
    BY <1>1, <1>2, <2>1, Places DEF Ages
  <2>2. CASE i # 1
    <3>1. /\ i \in Int /\ j \in Int /\ j # 1
          /\ i - 1 \in Latest /\ j - 1 \in Latest /\ i - 1 <= j - 1
      BY <1>3, <2>2, Places DEF Latest
    <3>. QED BY <1>1, <2>2, <3>1
  <2>. QED BY <2>1, <2>2
<1>4. ASSUME NEW i \in Latest, i + 1 \in Latest
      PROVE  Admit(ages)[i + 1] = ages[i]
  <2>1. i + 1 # 1 /\ (i + 1) - 1 = i
    BY LimitAssumption DEF Latest
  <2>. QED BY <1>1, <1>4, <2>1
<1>. QED BY <1>1, <1>2, <1>3, <1>4

\* A request that opens a window: whoever was let through before came into
\* the window before it, and what came before that is out of reach.
LEMMA OpensWindow ==
  ASSUME NEW w \in RateWindow \cup {Null}, NEW lag \in 0 .. MaxDelay,
         NEW ages \in Ages, BatchesOK(w, ages), Over(w, lag)
  PROVE  BatchesOK(Fresh(lag), Admit(ages))
<1>. DEFINE more == Admit(ages)
<1>0. \A i, j \in Latest : i <= j => ages[i] <= ages[j]
  BY DEF BatchesOK
<1>1. AtLeast(ages[1], lag - MaxDelay + 1) /\ ages[Limit + 1] = Forgotten
  <2>1. CASE w = Null
    BY <2>1, TimeAssumption, Places DEF BatchesOK, AtLeast, Ages
  <2>2. CASE w # Null
    <3>1. w.age \in Int /\ w.age >= Window + lag /\ Batch(w) \in 0 .. Limit
      <4>1. w.age \in Nat /\ w.count \in 1 .. Limit + 1
        BY <2>2 DEF RateWindow
      <4>2. w.age >= Window + lag
        BY <2>2, <4>1, TimeAssumption DEF Over
      <4>. QED BY <4>1, <4>2, LimitAssumption DEF Batch
    <3>. DEFINE m == Batch(w)
    <3>2. /\ AtLeast(ages[1], w.age - Window - MaxDelay + 1)
          /\ AtLeast(ages[m + 1], w.age - MaxDelay + 1)
      BY <2>2 DEF BatchesOK
    <3>3. AtLeast(ages[1], lag - MaxDelay + 1)
      BY <3>1, <3>2, TimeAssumption, Places DEF AtLeast, Ages
    <3>4. m + 1 \in Latest /\ ages[m + 1] <= ages[Limit + 1]
      BY <1>0, <3>1, Places, LimitAssumption
    <3>. HIDE DEF m
    <3>5. ages[m + 1] = Forgotten
      BY <3>1, <3>2, <3>4, TimeAssumption DEF AtLeast, Ages, Forgotten
    <3>6. ages[Limit + 1] \in 0 .. Forgotten
      BY Places DEF Ages
    <3>. QED BY <3>3, <3>4, <3>5, <3>6, Places
  <2>. QED BY <2>1, <2>2
<1>2. /\ more[1] = 0 /\ more[2] = ages[1] /\ more[Limit + 2] = ages[Limit + 1]
      /\ \A i, j \in Latest : i <= j => more[i] <= more[j]
  <2>1. /\ 1 + 1 \in Latest /\ 1 + 1 = 2
        /\ (Limit + 1) + 1 \in Latest /\ (Limit + 1) + 1 = Limit + 2
    BY LimitAssumption DEF Latest
  <2>2. /\ more[1] = 0 /\ \A i \in Latest : i + 1 \in Latest => more[i + 1] = ages[i]
        /\ \A i, j \in Latest : i <= j => more[i] <= more[j]
    BY <1>0, AdmitSorted
  <2>3. more[1 + 1] = ages[1] /\ more[(Limit + 1) + 1] = ages[Limit + 1]
    BY <2>1, <2>2, Places
  <2>. QED BY <2>1, <2>2, <2>3
<1>3. /\ Fresh(lag) # Null /\ Fresh(lag).age = lag /\ Fresh(lag).count = 1
      /\ Batch(Fresh(lag)) = 1
  <2>1. Fresh(lag) \in RateWindow
    BY TimeAssumption, LimitAssumption DEF Fresh, RateWindow, MaxAge
  <2>. QED BY <2>1, NullAssumption, LimitAssumption DEF Fresh, Batch
<1>4. AtLeast(0, lag - Window - MaxDelay + 1)
  BY TimeAssumption DEF AtLeast
<1>. HIDE DEF more
<1>5. 1 + Limit + 1 = Limit + 2 /\ 1 + 1 = 2
  BY LimitAssumption
<1>6. BatchesOK(Fresh(lag), more)
  BY <1>1, <1>2, <1>3, <1>4, <1>5 DEF BatchesOK
<1>. QED BY <1>6 DEF more

\* A request that finds its window open.
LEMMA JoinsWindow ==
  ASSUME NEW w \in RateWindow \cup {Null}, NEW lag \in 0 .. MaxDelay,
         NEW ages \in Ages, BatchesOK(w, ages), ~ Over(w, lag)
  PROVE  BatchesOK(Counted(w, lag),
                   IF Allowed(Counted(w, lag)) THEN Admit(ages) ELSE ages)
<1>. DEFINE v == Counted(w, lag)
            more == Admit(ages)
            m == Batch(w)
<1>1. w \in RateWindow /\ w # Null
  BY DEF Over
<1>2. w.age \in Nat /\ w.age < Window + lag /\ w.count \in 1 .. Limit + 1
  <2>1. w.age \in Nat /\ w.count \in 1 .. Limit + 1
    BY <1>1 DEF RateWindow
  <2>2. w.age < Window + lag
    BY <2>1, TimeAssumption DEF Over
  <2>. QED BY <2>1, <2>2
<1>3. v \in RateWindow /\ v # Null
  BY CountedType, NullAssumption
<1>4. v.age = w.age /\ v.count = IF w.count <= Limit THEN w.count + 1 ELSE Limit + 1
  <2>1. Min({w.count + 1, Limit + 1})
          = IF w.count <= Limit THEN w.count + 1 ELSE Limit + 1
    BY <1>2, MinOfTwo, LimitAssumption
  <2>2. v = [w EXCEPT !.count = Min({w.count + 1, Limit + 1})]
    BY <1>1 DEF Counted, RateWindow
  <2>. QED BY <1>1, <2>1, <2>2 DEF RateWindow
<1>5. /\ \A i, j \in Latest : i <= j => ages[i] <= ages[j]
      /\ AtLeast(ages[1], w.age - Window - MaxDelay + 1)
      /\ AtLeast(ages[m + 1], w.age - MaxDelay + 1)
      /\ ages[m + Limit + 1] = Forgotten
  BY <1>1 DEF BatchesOK
<1>. HIDE DEF v
<1>6. CASE Allowed(v)
  <2>1. w.count < Limit /\ m = w.count /\ Batch(v) = m + 1 /\ m \in 1 .. Limit - 1
    BY <1>2, <1>4, <1>6, LimitAssumption DEF Allowed, Batch
  <2>. HIDE DEF m
  <2>2. /\ more[1] = 0
        /\ \A i \in Latest : i + 1 \in Latest => more[i + 1] = ages[i]
        /\ \A i, j \in Latest : i <= j => more[i] <= more[j]
    BY <1>5, AdmitSorted
  <2>. HIDE DEF more
  <2>3. /\ m + 1 \in Latest /\ (m + 1) + 1 \in Latest /\ Batch(v) + 1 = (m + 1) + 1
        /\ m + Limit + 1 \in Latest /\ (m + Limit + 1) + 1 \in Latest
        /\ Batch(v) + Limit + 1 = (m + Limit + 1) + 1
    BY <2>1, LimitAssumption DEF Latest
  <2>4. /\ more[Batch(v) + 1] = ages[m + 1]
        /\ more[Batch(v) + Limit + 1] = ages[m + Limit + 1]
    BY <2>2, <2>3
  <2>5. AtLeast(0, w.age - Window - MaxDelay + 1)
    BY <1>2, TimeAssumption DEF AtLeast
  <2>6. BatchesOK(v, more)
    BY <1>3, <1>4, <1>5, <2>2, <2>4, <2>5 DEF BatchesOK
  <2>. QED BY <1>6, <2>6 DEF v, more
<1>7. CASE ~ Allowed(v)
  <2>1. Batch(v) = m
    BY <1>2, <1>4, <1>7, LimitAssumption DEF Allowed, Batch
  <2>. HIDE DEF m
  <2>2. BatchesOK(v, ages)
    BY <1>3, <1>4, <1>5, <2>1 DEF BatchesOK
  <2>. QED BY <1>7, <2>2 DEF v
<1>. QED BY <1>6, <1>7

\* A window that a sweep removes has let nobody through that still counts.
LEMMA SweptWindow ==
  ASSUME NEW w \in RateWindow, NEW lag \in 0 .. MaxDelay, NEW ages \in Ages,
         BatchesOK(w, ages), w.age - lag > 2 * Window
  PROVE  BatchesOK(Null, ages)
<1>1. w # Null /\ w.age \in Nat
  BY NullAssumption DEF RateWindow
<1>2. ages[1] = Forgotten
  <2>1. AtLeast(ages[1], w.age - Window - MaxDelay + 1) /\ ages[1] \in 0 .. Forgotten
    BY <1>1, Places DEF BatchesOK, Ages
  <2>. QED BY <1>1, <2>1, TimeAssumption DEF AtLeast, Forgotten
<1>3. ages[1] <= ages[Limit + 1] /\ ages[Limit + 1] \in 0 .. Forgotten
  BY Places, LimitAssumption DEF BatchesOK, Ages
<1>4. ages[Limit + 1] = Forgotten
  BY <1>2, <1>3, Places
<1>. QED BY <1>2, <1>4 DEF BatchesOK, AtLeast

\* Time passes for a window and for the record.
LEMMA OlderWindow ==
  ASSUME NEW w \in RateWindow \cup {Null}, NEW ages \in Ages, BatchesOK(w, ages)
  PROVE  BatchesOK(IF w = Null THEN Null
                   ELSE [w EXCEPT !.age = Min({@ + 1, MaxAge})],
                   [i \in Latest |-> Min({ages[i] + 1, Forgotten})])
<1>. DEFINE v == IF w = Null THEN Null
                 ELSE [w EXCEPT !.age = Min({@ + 1, MaxAge})]
            older == [i \in Latest |-> Min({ages[i] + 1, Forgotten})]
<1>1. \A i \in Latest :
        older[i] = IF ages[i] + 1 <= Forgotten THEN ages[i] + 1 ELSE Forgotten
  BY MinOfTwo, Places DEF Ages
<1>. HIDE DEF older
<1>2. \A i, j \in Latest : i <= j => older[i] <= older[j]
  BY <1>1, Places DEF BatchesOK, Ages
<1>3. ASSUME NEW i \in Latest, NEW n \in Int, NEW n1 \in Int,
             AtLeast(ages[i], n), n1 <= n + 1
      PROVE  AtLeast(older[i], n1)
  BY <1>1, <1>3, Places DEF AtLeast, Ages
<1>4. ASSUME NEW i \in Latest, ages[i] = Forgotten
      PROVE  older[i] = Forgotten
  BY <1>1, <1>4, Places
<1>5. CASE w = Null
  <2>1. v = Null /\ AtLeast(ages[1], 1) /\ ages[Limit + 1] = Forgotten
    BY <1>5 DEF BatchesOK
  <2>2. AtLeast(older[1], 1) /\ older[Limit + 1] = Forgotten
    <3>1. 1 \in Int /\ 1 <= 1 + 1
      OBVIOUS
    <3>2. AtLeast(older[1], 1)
      BY <1>3, <2>1, <3>1, Places
    <3>. QED BY <1>4, <2>1, <3>2, Places
  <2>3. BatchesOK(v, older)
    BY <1>2, <2>1, <2>2 DEF BatchesOK
  <2>. QED BY <2>3 DEF older
<1>6. CASE w # Null
  <2>1. w \in RateWindow /\ w.age \in 0 .. MaxAge /\ MaxAge \in Nat
        /\ w.count \in 1 .. Limit + 1
    BY <1>6, TimeAssumption DEF RateWindow, MaxAge
  <2>. DEFINE a == Min({w.age + 1, MaxAge})
  <2>2. a \in 0 .. MaxAge /\ a <= w.age + 1
    <3>. HIDE DEF MaxAge
    <3>. QED BY <2>1, MinOfTwo
  <2>3. v = [w EXCEPT !.age = a]
    BY <1>6, <2>1 DEF RateWindow
  <2>. HIDE DEF a
  <2>4. v \in RateWindow /\ v.age = a /\ v.count = w.count
    BY <2>1, <2>2, <2>3 DEF RateWindow
  <2>. HIDE DEF v
  <2>5. v # Null /\ Batch(v) = Batch(w)
    BY <2>4, NullAssumption DEF Batch
  <2>. DEFINE m == Batch(w)
  <2>6. m \in 0 .. Limit
    BY <2>1, LimitAssumption DEF Batch
  <2>7. /\ AtLeast(ages[1], w.age - Window - MaxDelay + 1)
        /\ AtLeast(ages[m + 1], w.age - MaxDelay + 1)
        /\ ages[m + Limit + 1] = Forgotten
    BY <1>6 DEF BatchesOK
  <2>. HIDE DEF m
  <2>8. m + 1 \in Latest /\ m + Limit + 1 \in Latest /\ 1 \in Latest
    BY <2>6, Places
  <2>9. /\ w.age - Window - MaxDelay + 1 \in Int /\ a - Window - MaxDelay + 1 \in Int
        /\ w.age - MaxDelay + 1 \in Int /\ a - MaxDelay + 1 \in Int
        /\ a - Window - MaxDelay + 1 <= (w.age - Window - MaxDelay + 1) + 1
        /\ a - MaxDelay + 1 <= (w.age - MaxDelay + 1) + 1
    BY <2>1, <2>2, TimeAssumption
  <2>10. AtLeast(older[1], a - Window - MaxDelay + 1)
    BY <1>3, <2>7, <2>8, <2>9
  <2>11. AtLeast(older[m + 1], a - MaxDelay + 1)
    BY <1>3, <2>7, <2>8, <2>9
  <2>12. older[m + Limit + 1] = Forgotten
    BY <1>4, <2>7, <2>8
  <2>13. BatchesOK(v, older)
    BY <1>2, <2>4, <2>5, <2>10, <2>11, <2>12 DEF BatchesOK, m
  <2>. QED BY <2>13 DEF v, older
<1>. QED BY <1>5, <1>6

\* Nobody was let through yet.
LEMMA BatchesInit == Init => Batches
BY Places DEF Init, Batches, BatchesOK, AtLeast

\* Holding the mutex: the request's own window, then the sweep of all.
LEMMA BatchesEnter ==
  ASSUME TypeOK, Batches, NEW r \in Requests, Enter(r)
  PROVE  Batches'
<1>. DEFINE k == request[r].key
            lag == request[r].lag
            w == Counted(windows[k], lag)
            ws == [windows EXCEPT ![k] = w]
<1>0. /\ windows' = Evicted(ws, lag)
      /\ admitted' = IF Allowed(w) THEN [admitted EXCEPT ![k] = Admit(@)] ELSE admitted
  BY DEF Enter
<1>1. k \in Keys /\ lag \in 0 .. MaxDelay
  BY DEF Enter, TypeOK, Request
<1>2. /\ windows[k] \in RateWindow \cup {Null} /\ admitted[k] \in Ages
      /\ BatchesOK(windows[k], admitted[k])
  BY <1>1 DEF TypeOK, Batches, Ages
<1>3. BatchesOK(w, IF Allowed(w) THEN Admit(admitted[k]) ELSE admitted[k])
  <2>1. CASE Over(windows[k], lag)
    <3>1. w = Fresh(lag) /\ Allowed(w)
      BY <2>1, LimitAssumption DEF Counted, Fresh, Allowed
    <3>. HIDE DEF w, lag
    <3>. QED BY <1>1, <1>2, <2>1, <3>1, OpensWindow
  <2>2. CASE ~ Over(windows[k], lag)
    BY <1>1, <1>2, <2>2, JoinsWindow
  <2>. QED BY <2>1, <2>2
<1>4. w \in RateWindow
  BY <1>1, <1>2, CountedType
<1>. HIDE DEF k, lag, w
<1>5. /\ ws \in [Keys -> RateWindow \cup {Null}]
      /\ admitted' \in [Keys -> Ages]
  <2>1. ws \in [Keys -> RateWindow \cup {Null}]
    BY <1>1, <1>4 DEF TypeOK
  <2>2. Admit(admitted[k]) \in Ages
    BY <1>2, AdmitSorted DEF BatchesOK
  <2>. QED BY <1>0, <1>1, <2>1, <2>2 DEF TypeOK, Ages
<1>6. \A j \in Keys : BatchesOK(ws[j], admitted'[j])
  BY <1>0, <1>1, <1>3 DEF TypeOK, Batches
<1>. HIDE DEF ws
<1>7. ASSUME NEW j \in Keys PROVE BatchesOK(windows'[j], admitted'[j])
  <2>1. \/ windows'[j] = ws[j]
        \/ ws[j] # Null /\ ws[j].age - lag > 2 * Window /\ windows'[j] = Null
    BY <1>0, <1>5 DEF Evicted
  <2>2. CASE ws[j] # Null /\ ws[j].age - lag > 2 * Window /\ windows'[j] = Null
    <3>1. ws[j] \in RateWindow /\ admitted'[j] \in Ages
      BY <1>5, <2>2
    <3>. QED BY <1>1, <1>6, <2>2, <3>1, SweptWindow
  <2>. QED BY <1>6, <2>1, <2>2
<1>. QED BY <1>7 DEF Batches

\* Time passing.
LEMMA BatchesTick == TypeOK /\ Batches /\ Tick => Batches'
<1>. SUFFICES ASSUME TypeOK, Batches, Tick, NEW k \in Keys
              PROVE  BatchesOK(windows'[k], admitted'[k])
  BY DEF Batches
<1>1. /\ windows[k] \in RateWindow \cup {Null} /\ admitted[k] \in Ages
      /\ BatchesOK(windows[k], admitted[k])
  BY DEF TypeOK, Batches, Ages
<1>2. /\ windows'[k] = IF windows[k] = Null THEN Null
                       ELSE [windows[k] EXCEPT !.age = Min({@ + 1, MaxAge})]
      /\ admitted'[k] = [i \in Latest |-> Min({admitted[k][i] + 1, Forgotten})]
  BY DEF Tick
<1>. QED BY <1>1, <1>2, OlderWindow

\* Two batches fill the record: whoever came before them is forgotten.
LEMMA BatchesBound == TypeOK /\ Batches => BurstBounded
<1>. SUFFICES ASSUME TypeOK, Batches, NEW k \in Keys
              PROVE  admitted[k][2 * Limit + 1] > Window - MaxDelay
  BY DEF BurstBounded
<1>. DEFINE w == windows[k]
            ages == admitted[k]
<1>1. BatchesOK(w, ages) /\ ages \in Ages /\ w \in RateWindow \cup {Null}
  BY DEF TypeOK, Batches, Ages
<1>. HIDE DEF w, ages
<1>2. PICK i \in Latest : ages[i] = Forgotten
  <2>1. CASE w = Null
    BY <1>1, <2>1, Places DEF BatchesOK
  <2>2. CASE w # Null
    <3>1. Batch(w) \in 0 .. Limit
      BY <1>1, <2>2, LimitAssumption DEF Batch, RateWindow
    <3>. QED BY <1>1, <2>2, <3>1, Places DEF BatchesOK
  <2>. QED BY <2>1, <2>2
<1>3. i <= 2 * Limit + 1
  BY LimitAssumption DEF Latest
<1>4. Forgotten <= ages[2 * Limit + 1] /\ ages[2 * Limit + 1] \in 0 .. Forgotten
  BY <1>1, <1>2, <1>3, Places DEF BatchesOK, Ages
<1>5. ages[2 * Limit + 1] = Forgotten
  BY <1>4, Places
<1>. QED BY <1>5, TimeAssumption DEF ages, Forgotten

\* However many clients and requests, whatever the limit, the window and the
\* size of the map, and however late requests get the mutex: of any
\* 2 * Limit + 1 requests let through, the first and the last are more than a
\* window less the delay apart.
THEOREM BurstLimited == Spec => []BurstBounded
<1>1. TypeOK /\ Batches /\ [Next]_vars => Batches'
  <2>1. ASSUME TypeOK, Batches, NEW r \in Requests, ReadClock(r) PROVE Batches'
    BY <2>1 DEF ReadClock, Batches
  <2>2. TypeOK /\ Batches /\ UNCHANGED vars => Batches'
    BY DEF vars, Batches
  <2>. QED BY <2>1, <2>2, BatchesEnter, BatchesTick DEF Next
<1>. QED BY <1>1, TypeCorrect, BatchesInit, BatchesBound, PTL DEF Spec
==============================================================================
