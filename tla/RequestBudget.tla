--------------------------- MODULE RequestBudget ---------------------------
(***************************************************************************)
(* PersistentAcquisitionSafety: the permits, run budgets, daily budgets    *)
(* and stop events of one G0 approval in PostgreSQL, used by concurrent    *)
(* PermitGuardedExternalTransport.fetch calls of several crawl runs.       *)
(*                                                                         *)
(* Every transaction that decides on a permit is serialized by the         *)
(* approval's advisory lock and so is one action.  The time it decides by  *)
(* is read before the lock is taken: a worker may decide with a time that  *)
(* is behind the one of a permit already granted.                          *)
(***************************************************************************)
EXTENDS Naturals, FiniteSets, Sequences, Functions

CONSTANTS
    Worker,            \* fetching processes
    Run,               \* crawl runs of the approval
    Key,               \* logical request keys
    Cost,              \* estimated costs a request may have
    RunOf,             \* the run a worker fetches for
    StatusCode,        \* response codes considered, a subset of Codes
    MaxTime,           \* bound: the clock stops here
    Minute,            \* length of the rate window, in clock ticks
    Day, Month,        \* budget days and months
    DayOf, MonthOf,    \* the calendar
    ActiveUntil,       \* expires_at of the approval; it is approved at 0
    RequestsPerMinute, Concurrency, PerRunCap, DailyCap,   \* traffic_limits
    DailyCost, MonthlyCost,                                \* cost_limits
    SettlementMayFail  \* whether the database may fail a settlement

Time == 0 .. MaxTime
Codes == {"403", "429", "other"}

ASSUME BudgetAssumption ==
    /\ IsFiniteSet(Run) /\ IsFiniteSet(Key) /\ IsFiniteSet(Day)
    /\ Cost \subseteq Nat
    /\ RunOf \in [Worker -> Run]
    /\ StatusCode \subseteq Codes
    /\ MaxTime \in Nat /\ Minute \in Nat \ {0} /\ ActiveUntil \in Nat
    /\ DayOf \in [Time -> Day]
    /\ MonthOf \in [Day -> Month]
    /\ {RequestsPerMinute, Concurrency, PerRunCap, DailyCap} \subseteq Nat \ {0}
    /\ {DailyCost, MonthlyCost} \subseteq Nat
    /\ SettlementMayFail \in BOOLEAN

\* A permit row is named by its unique key: run budget and request key.
Permit == Run \X Key

VARIABLES
    clock,     \* wall clock
    bound,     \* runs with a run budget row
    status,    \* AcquisitionRequestPermit.status ("none": no row)
    at,        \* ... its authorized_at
    cost,      \* ... its estimated_cost
    count,     \* AcquisitionRunBudget.request_count
    inflight,  \* ... its in_flight_count
    streak,    \* ... its consecutive_403 and consecutive_429
    stop,      \* ... its stop_reason
    events,    \* reasons of the run's stop events, in order of insertion
    dcount,    \* AcquisitionDailyBudget.request_count
    dcost,     \* ... its estimated_cost
    pc,        \* where a worker is
    want,      \* the permit it asks for or holds
    stamp,     \* the time it read before its transaction
    price,     \* the cost it asks for
    hist       \* response codes recorded in a run, in commit order (ghost)

granted == <<status, at, cost, count, dcount, dcost>>
latch == <<stop, events>>
worker == <<pc, want, stamp, price>>
vars == <<clock, bound, status, at, cost, count, inflight, streak, stop,
          events, dcount, dcost, pc, want, stamp, price, hist>>

Cap == {"per_run_request_cap", "daily_request_cap", "daily_cost_cap",
        "monthly_cost_cap"}
StopReason == Cap \cup {"approval_inactive", "repeated_403", "repeated_429",
                        "schema_drift", "manual"}
Breaker == {"403", "429"}

TypeOK ==
    /\ clock \in Time
    /\ bound \in SUBSET Run
    /\ status \in [Permit -> {"none", "authorized", "consumed",
                              "transport_failed"}]
    /\ at \in [Permit -> Time]
    /\ cost \in [Permit -> Nat]
    /\ count \in [Run -> Nat]
    /\ inflight \in [Run -> Nat]
    /\ streak \in [Run -> [Breaker -> Nat]]
    /\ stop \in [Run -> StopReason \cup {"none"}]
    /\ events \in [Run -> Seq(StopReason)]
    /\ dcount \in [Day -> Nat]
    /\ dcost \in [Day -> Nat]
    /\ pc \in [Worker -> {"new", "idle", "reserve", "flying", "over"}]
    /\ want \in [Worker -> Permit \cup {<<>>}]
    /\ stamp \in [Worker -> Time]
    /\ price \in [Worker -> Nat]
    /\ hist \in [Run -> Seq(Codes)]

Init ==
    /\ clock = 0
    /\ bound = {}
    /\ status = [p \in Permit |-> "none"]
    /\ at = [p \in Permit |-> 0]
    /\ cost = [p \in Permit |-> 0]
    /\ count = [r \in Run |-> 0]
    /\ inflight = [r \in Run |-> 0]
    /\ streak = [r \in Run |-> [b \in Breaker |-> 0]]
    /\ stop = [r \in Run |-> "none"]
    /\ events = [r \in Run |-> <<>>]
    /\ dcount = [d \in Day |-> 0]
    /\ dcost = [d \in Day |-> 0]
    /\ pc = [w \in Worker |-> "new"]
    /\ want = [w \in Worker |-> <<>>]
    /\ stamp = [w \in Worker |-> 0]
    /\ price = [w \in Worker |-> 0]
    /\ hist = [r \in Run |-> <<>>]

Granted == {p \in Permit : status[p] # "none"}
OfRun(r) == {p \in Granted : p[1] = r}
OfDay(d) == {p \in Granted : DayOf[at[p]] = d}
OfMonth(m) == {p \in Granted : MonthOf[DayOf[at[p]]] = m}
-----------------------------------------------------------------------------
Tick ==
    /\ clock < MaxTime
    /\ clock' = clock + 1
    /\ UNCHANGED <<bound, granted, inflight, streak, latch, worker, hist>>

\* _approval_is_active
Active(t) == t < ActiveUntil

\* initialize: bind the run to the approval, unless the approval is over.
\* Two workers of one run find the row of whoever came first.
Initialize(w) ==
    /\ pc[w] = "new"
    /\ \/ /\ Active(clock)
          /\ bound' = bound \cup {RunOf[w]}
          /\ pc' = [pc EXCEPT ![w] = "idle"]
       \/ /\ ~Active(clock)
          /\ pc' = [pc EXCEPT ![w] = "over"]
          /\ UNCHANGED bound
    /\ UNCHANGED <<clock, granted, inflight, streak, latch, want, stamp,
                   price, hist>>

\* PermitGuardedExternalTransport.fetch reads the time and asks for a permit.
Begin(w, k, c) ==
    /\ pc[w] = "idle"
    /\ pc' = [pc EXCEPT ![w] = "reserve"]
    /\ want' = [want EXCEPT ![w] = <<RunOf[w], k>>]
    /\ stamp' = [stamp EXCEPT ![w] = clock]
    /\ price' = [price EXCEPT ![w] = c]
    /\ UNCHANGED <<clock, bound, granted, inflight, streak, latch, hist>>

\* The caller is back, with a response or an exception.
Back(w) ==
    /\ pc' = [pc EXCEPT ![w] = "idle"]
    /\ want' = [want EXCEPT ![w] = <<>>]
    /\ stamp' = [stamp EXCEPT ![w] = 0]
    /\ price' = [price EXCEPT ![w] = 0]

\* _record_stop, made by its callers only when no reason is set yet.
RecordStop(r, reason) ==
    /\ stop' = [stop EXCEPT ![r] = reason]
    /\ events' = [events EXCEPT ![r] = Append(@, reason)]
-----------------------------------------------------------------------------
(* _reserve_request_in_session, in the order of its conditions *)

\* Mutant: only the minute up to the worker's own time is counted.
RecentPast(t) == {p \in Granted : at[p] + Minute > t /\ at[p] <= t}

\* Permits the rate limit counts: newer than one minute before the time the
\* worker read, those granted with a later time included.
Recent(t) == {p \in Granted : at[p] + Minute > t}

Deferred(t) ==
    \/ SumFunction(inflight) >= Concurrency
    \/ Cardinality(Recent(t)) >= RequestsPerMinute

\* _monthly_estimated_cost
Spent(m) == SumFunctionOnSet(dcost, {d \in Day : MonthOf[d] = m})

\* Mutants: the request caps are off by one; the projected cost leaves out
\* the request itself.
CapReachedLate(r, t, c) ==
    IF count[r] > PerRunCap THEN "per_run_request_cap"
    ELSE IF dcount[DayOf[t]] > DailyCap THEN "daily_request_cap"
    ELSE "none"

CapReachedBefore(r, t, c) ==
    IF count[r] >= PerRunCap THEN "per_run_request_cap"
    ELSE IF dcost[DayOf[t]] > DailyCost THEN "daily_cost_cap"
    ELSE IF Spent(MonthOf[DayOf[t]]) > MonthlyCost THEN "monthly_cost_cap"
    ELSE "none"

CapReached(r, t, c) ==
    IF count[r] >= PerRunCap THEN "per_run_request_cap"
    ELSE IF dcount[DayOf[t]] >= DailyCap THEN "daily_request_cap"
    ELSE IF dcost[DayOf[t]] + c > DailyCost THEN "daily_cost_cap"
    ELSE IF Spent(MonthOf[DayOf[t]]) + c > MonthlyCost THEN "monthly_cost_cap"
    ELSE "none"

\* Mutant: a stopped run is not looked at.
AdmissibleStopped(w) ==
    /\ pc[w] = "reserve"
    /\ status[want[w]] = "none"

\* The request is new and its run not stopped.
Admissible(w) ==
    /\ pc[w] = "reserve"
    /\ status[want[w]] = "none"
    /\ stop[RunOf[w]] = "none"

Grant(w) ==
    LET r == RunOf[w]  d == DayOf[stamp[w]] IN
    /\ Admissible(w)
    /\ Active(stamp[w])
    /\ ~Deferred(stamp[w])
    /\ CapReached(r, stamp[w], price[w]) = "none"
    /\ status' = [status EXCEPT ![want[w]] = "authorized"]
    /\ at' = [at EXCEPT ![want[w]] = stamp[w]]
    /\ cost' = [cost EXCEPT ![want[w]] = price[w]]
    /\ count' = [count EXCEPT ![r] = @ + 1]
    /\ inflight' = [inflight EXCEPT ![r] = @ + 1]
    /\ dcount' = [dcount EXCEPT ![d] = @ + 1]
    /\ dcost' = [dcost EXCEPT ![d] = @ + price[w]]
    /\ pc' = [pc EXCEPT ![w] = "flying"]
    /\ UNCHANGED <<clock, bound, streak, latch, want, stamp, price, hist>>

\* The limit that ends a run is committed before the caller sees it.
Exhaust(w) ==
    LET r == RunOf[w]  reason == CapReached(r, stamp[w], price[w]) IN
    /\ Admissible(w)
    /\ \/ /\ ~Active(stamp[w])
          /\ RecordStop(r, "approval_inactive")
       \/ /\ Active(stamp[w])
          /\ ~Deferred(stamp[w])
          /\ reason # "none"
          /\ RecordStop(r, reason)
    /\ Back(w)
    /\ UNCHANGED <<clock, bound, granted, inflight, streak, hist>>

\* DuplicateRequestPermitError, AcquisitionStoppedError of a stopped run, or
\* AcquisitionDeferredError: nothing changes.
Refuse(w) ==
    /\ pc[w] = "reserve"
    /\ \/ ~Admissible(w)
       \/ Active(stamp[w]) /\ Deferred(stamp[w])
    /\ Back(w)
    /\ UNCHANGED <<clock, bound, granted, inflight, streak, latch, hist>>
-----------------------------------------------------------------------------
(* Settlement *)

\* _locked_permit_and_run, and what both settlements write.
Consume(w, verdict) ==
    /\ pc[w] = "flying"
    /\ status[want[w]] = "authorized"
    /\ inflight[RunOf[w]] >= 1
    /\ status' = [status EXCEPT ![want[w]] = verdict]
    /\ inflight' = [inflight EXCEPT ![RunOf[w]] = @ - 1]

\* Mutant: another response does not restart the count.
StreakKept(r, code) ==
    [b \in Breaker |-> IF b = code THEN streak[r][b] + 1 ELSE streak[r][b]]

\* The consecutive counters after a response: its own grows, others restart.
Streak(r, code) ==
    [b \in Breaker |-> IF b = code THEN streak[r][b] + 1 ELSE 0]

Tripped(r, code) == code \in Breaker /\ Streak(r, code)[code] >= 2

RepeatedReason(code) == IF code = "403" THEN "repeated_403" ELSE "repeated_429"

RecordResponse(w, code) ==
    LET r == RunOf[w] IN
    /\ Consume(w, "consumed")
    /\ streak' = [streak EXCEPT ![r] = Streak(r, code)]
    /\ hist' = [hist EXCEPT ![r] = Append(@, code)]
    /\ IF Tripped(r, code) /\ stop[r] = "none"
       THEN RecordStop(r, RepeatedReason(code))
       ELSE UNCHANGED latch
    /\ Back(w)
    /\ UNCHANGED <<clock, bound, at, cost, count, dcount, dcost>>

\* Neither the request nor its cost is refunded, the streaks stay.
RecordTransportFailure(w) ==
    /\ Consume(w, "transport_failed")
    /\ Back(w)
    /\ UNCHANGED <<clock, bound, at, cost, count, streak, latch, dcount,
                   dcost, hist>>

\* The settlement raises and is rolled back: fetch raises "permit settlement
\* failed" and does not try again.
SettlementFails(w) ==
    /\ SettlementMayFail
    /\ pc[w] = "flying"
    /\ Back(w)
    /\ UNCHANGED <<clock, bound, granted, inflight, streak, latch, hist>>

\* stop_manually and signal_schema_drift, from any process at any time.
Halt(r, reason) ==
    /\ r \in bound
    /\ stop[r] = "none"
    /\ RecordStop(r, reason)
    /\ UNCHANGED <<clock, bound, granted, inflight, streak, worker, hist>>

\* The process dies; its permit, if it has one, stays authorized.
Crash(w) ==
    /\ pc[w] \in {"reserve", "flying"}
    /\ pc' = [pc EXCEPT ![w] = "over"]
    /\ UNCHANGED <<clock, bound, granted, inflight, streak, latch, want,
                   stamp, price, hist>>

Fetch(w) ==
    \/ Initialize(w)
    \/ \E k \in Key, c \in Cost : Begin(w, k, c)
    \/ Grant(w) \/ Exhaust(w) \/ Refuse(w)
    \/ \E code \in StatusCode : RecordResponse(w, code)
    \/ RecordTransportFailure(w)
    \/ SettlementFails(w)
    \/ Crash(w)

Next ==
    \/ Tick
    \/ \E w \in Worker : Fetch(w)
    \/ \E r \in Run : Halt(r, "manual") \/ Halt(r, "schema_drift")

Spec == Init /\ [][Next]_vars
-----------------------------------------------------------------------------
(* Properties *)

\* No minute that begins with a grant holds more than RequestsPerMinute
\* grants, and so no minute does: also when workers commit in another order
\* than they read the time in (persistent_safety.py:205).
RateWindow ==
    \A p \in Granted :
        Cardinality({q \in Granted : at[p] <= at[q] /\ at[q] < at[p] + Minute})
            <= RequestsPerMinute

\* The in_flight_count of each run counts its authorized permits, and over
\* all runs of the approval there are at most Concurrency of them.
ConcurrencyBound ==
    /\ \A r \in Run :
          inflight[r] = Cardinality({p \in OfRun(r) : status[p] = "authorized"})
    /\ Cardinality({p \in Permit : status[p] = "authorized"}) <= Concurrency

\* Requests per run and per day, counted on the permits themselves, never
\* exceed the approved caps; failed requests are not refunded.
RequestCaps ==
    /\ \A r \in Run : Cardinality(OfRun(r)) <= PerRunCap
    /\ \A d \in Day : Cardinality(OfDay(d)) <= DailyCap

\* Nor does what the permits of a day or a month were estimated to cost,
\* also when a worker charges yesterday's budget.
CostCaps ==
    /\ \A d \in Day : SumFunctionOnSet(cost, OfDay(d)) <= DailyCost
    /\ \A m \in Month : SumFunctionOnSet(cost, OfMonth(m)) <= MonthlyCost

\* The limits that are sums over permits and runs, and so need the advisory
\* lock: what is in flight, also after settlements that failed or workers that
\* died, and what was spent (persistent_safety.py:205).
SharedLimits == ConcurrencyBound /\ CostCaps

\* A run stops once: its first reason stays, and no further permit is granted
\* in it, whatever its workers had read before.
StopIsFinal ==
    [][\A r \in Run : stop[r] # "none" =>
          /\ stop'[r] = stop[r]
          /\ \A p \in Permit : (p[1] = r /\ status[p] = "none")
                                  => status'[p] = "none"]_vars

\* The append-only log holds exactly one event per stopped run, with the
\* reason of its latch.
OneStopEvent ==
    \A r \in Run :
        events[r] = IF stop[r] = "none" THEN <<>> ELSE <<stop[r]>>

\* Two responses of code b in a row, in the order they were recorded.
Repeated(r, b) ==
    \E i \in 1 .. Len(hist[r]) - 1 : hist[r][i] = b /\ hist[r][i + 1] = b

\* "two consecutive HTTP 403 responses", or 429, trip the breaker, and
\* nothing else does: a response between two denials resets the count, a
\* transport failure does not.
BreakerIsExact ==
    \A r \in Run, b \in Breaker :
        /\ Repeated(r, b) => stop[r] # "none"
        /\ stop[r] = RepeatedReason(b) => Repeated(r, b)

-----------------------------------------------------------------------------
(* The inductive invariant behind the safety properties *)

\* A worker asks for, or holds, a permit of its own run.
WantsOwn ==
    \A w \in Worker :
        pc[w] \in {"reserve", "flying"} => want[w] \in {RunOf[w]} \X Key

\* The counters the caps are checked against are what the permits add up to,
\* and stay within the caps (persistent_safety.py:231).
CountersExact ==
    /\ \A r \in Run : count[r] = Cardinality(OfRun(r)) /\ count[r] <= PerRunCap
    /\ \A d \in Day : dcount[d] = Cardinality(OfDay(d)) /\ dcount[d] <= DailyCap

BudgetInv ==
    /\ TypeOK
    /\ WantsOwn
    /\ CountersExact
    /\ RateWindow
    /\ OneStopEvent

\* What the breaker trips on: a counter is above zero exactly when its code is
\* the last one recorded (persistent_safety.py:295).
StreakIsLast ==
    \A r \in Run, b \in Breaker :
        streak[r][b] >= 1 <=> hist[r] # <<>> /\ hist[r][Len(hist[r])] = b

BreakerInv == StreakIsLast /\ BreakerIsExact

Authorized == {p \in Permit : status[p] = "authorized"}

\* What the shared limits are checked against: the counters of the runs add up
\* to the permits in flight, those of the days to what their permits cost.
SpendInv ==
    /\ SumFunction(inflight) = Cardinality(Authorized)
    /\ \A d \in Day : dcost[d] = SumFunctionOnSet(cost, OfDay(d))
    /\ \A m \in Month : Spent(m) = SumFunctionOnSet(cost, OfMonth(m))
    /\ SharedLimits
=============================================================================
