---------------------------- MODULE RateLimiter ----------------------------
(* The rate limiter of the login, run and replay endpoints: a fixed window  *)
(* per key (scope and client address, or scope and user name) in one map    *)
(* behind a mutex.  A request reads the clock before it waits for the mutex. *)
(* Instants are kept as ages, in ticks; Tick lets time pass.                *)
EXTENDS Integers, FiniteSetsExt

CONSTANTS
  Requests,        \* requests that can be in the middleware at once
  Keys,            \* scope and client
  Limit,           \* requests let through per window
  Window,          \* length of a window, in ticks: time.Minute
  MaxWindows,      \* windows in the map before old ones are looked for: 10000
  MaxDelay,        \* bound: ticks from reading the clock to holding the mutex
  Null             \* no window in the map, no key

VARIABLES
  windows,         \* RateLimiter.windows: age of start and count, by key
  request,         \* the requests in the middleware
  admitted         \* ages of the last requests let through, by key

vars == <<windows, request, admitted>>

ASSUME LimitAssumption == Limit \in Nat \ {0}

ASSUME TimeAssumption ==
  Window \in Nat \ {0} /\ MaxDelay \in 0 .. Window

ASSUME SizeAssumption == MaxWindows \in Nat

\* From this age on a window is older than twice its length to every clock
\* reading, and stays so.
MaxAge == 2 * Window + MaxDelay + 1

\* From this age on the record of the admitted no longer tells ages apart.
Forgotten == Window - MaxDelay + 1

\* Two batches and one request more, the latest first.
Latest == 1 .. 2 * Limit + 1

RateWindow == [age : 0 .. MaxAge, count : 1 .. Limit + 1]

ASSUME NullAssumption == Null \notin RateWindow

Request == [pc : {"idle"}, key : {Null}, lag : {0}]
             \cup [pc : {"clock"}, key : Keys, lag : 0 .. MaxDelay]

Idle == [pc |-> "idle", key |-> Null, lag |-> 0]

Init ==
  /\ windows = [k \in Keys |-> Null]
  /\ request = [r \in Requests |-> Idle]
  /\ admitted = [k \in Keys |-> [i \in Latest |-> Forgotten]]
----------------------------------------------------------------------------
\* A window is over, to a clock read lag ticks ago.
Over(w, lag) == w = Null \/ w.age - lag >= Window

\* Fault: the request that opens a window is not counted.
FaultyFresh(lag) == [age |-> lag, count |-> 0]

\* rateWindow{start: now}, and count++.
Fresh(lag) == [age |-> lag, count |-> 1]

\* Fault: every request is taken for the start of the window.
FaultyCounted(w, lag) ==
  IF Over(w, lag) THEN Fresh(lag)
  ELSE [age |-> lag, count |-> Min({w.count + 1, Limit + 1})]

\* A refused request counts as well; above the limit the count says no more.
Counted(w, lag) ==
  IF Over(w, lag) THEN Fresh(lag)
  ELSE [w EXCEPT !.count = Min({@ + 1, Limit + 1})]

\* Fault: a full map is emptied, whatever the age of the windows.
FaultyEvicted(ws, lag) ==
  IF Cardinality({k \in Keys : ws[k] # Null}) > MaxWindows
    THEN [k \in Keys |-> Null] ELSE ws

\* A map that is too large loses the windows older than twice their length.
Evicted(ws, lag) ==
  IF Cardinality({k \in Keys : ws[k] # Null}) > MaxWindows
    THEN [k \in Keys |-> IF ws[k] # Null /\ ws[k].age - lag > 2 * Window
                           THEN Null ELSE ws[k]]
    ELSE ws

Allowed(w) == w.count <= Limit

\* One more request is let through.
Admit(ages) == [i \in Latest |-> IF i = 1 THEN 0 ELSE ages[i - 1]]
----------------------------------------------------------------------------
ReadClock(r) ==
  /\ request[r].pc = "idle"
  /\ \E k \in Keys :
       request' = [request EXCEPT ![r] = [pc |-> "clock", key |-> k, lag |-> 0]]
  /\ UNCHANGED <<windows, admitted>>

\* Everything between Lock and Unlock.
Enter(r) ==
  /\ request[r].pc = "clock"
  /\ LET k == request[r].key
         lag == request[r].lag
         window == Counted(windows[k], lag)
     IN  /\ windows' = Evicted([windows EXCEPT ![k] = window], lag)
         /\ admitted' = IF Allowed(window) THEN [admitted EXCEPT ![k] = Admit(@)]
                                           ELSE admitted
  /\ request' = [request EXCEPT ![r] = Idle]

\* Time passes, but no request waits for the mutex longer than MaxDelay.
Tick ==
  /\ \A r \in Requests : request[r].lag < MaxDelay \/ request[r].pc = "idle"
  /\ windows' = [k \in Keys |-> IF windows[k] = Null THEN Null
                                ELSE [windows[k] EXCEPT !.age = Min({@ + 1, MaxAge})]]
  /\ request' = [r \in Requests |->
       IF request[r].pc = "idle" THEN request[r]
                                 ELSE [request[r] EXCEPT !.lag = @ + 1]]
  /\ admitted' = [k \in Keys |->
       [i \in Latest |-> Min({admitted[k][i] + 1, Forgotten})]]

Next == Tick \/ \E r \in Requests : ReadClock(r) \/ Enter(r)

Spec == Init /\ [][Next]_vars

\* Time goes on, and sync.Mutex lets every waiting goroutine in.
Fairness == WF_vars(Tick) /\ \A r \in Requests : WF_vars(Enter(r))

FairSpec == Spec /\ Fairness
----------------------------------------------------------------------------
(* Properties.                                                              *)

\* Windows, requests and the record of the admitted have their shape, and a
\* window in the map has counted the request that opened it.
TypeOK ==
  /\ windows \in [Keys -> RateWindow \cup {Null}]
  /\ request \in [Requests -> Request]
  /\ admitted \in [Keys -> [Latest -> 0 .. Forgotten]]

\* The window is fixed, not sliding: around its end twice the limit passes,
\* but of any 2 * Limit + 1 requests let through the first is older than a
\* window's length less the delay between reading the clock and entering;
\* neither late clock readings nor the eviction of windows make room for a
\* third batch.
BurstBounded ==
  \A k \in Keys : admitted[k][2 * Limit + 1] > Window - MaxDelay

Waiting(k) == \E r \in Requests : request[r].key = k

\* Refused requests count, but do not postpone the end of the window: a client
\* that keeps asking is let through again and again.
NobodyStarves ==
  \A k \in Keys : []<>Waiting(k) => []<>(admitted[k][1] = 0)
============================================================================
