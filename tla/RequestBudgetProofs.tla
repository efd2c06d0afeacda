------------------------ MODULE RequestBudgetProofs ------------------------
(* Proofs about RequestBudget, for any number of workers, runs and keys. *)
EXTENDS RequestBudget, FiniteSetTheorems, TLAPS

USE DEF Breaker, Codes

\* The permit table is finite, as runs and keys are.
LEMMA PermitsFinite == IsFiniteSet(Permit)
BY BudgetAssumption, FS_Product DEF BudgetAssumption, Permit

\* CapReached names a cap or none.
LEMMA CapIsReason ==
    ASSUME NEW r, NEW t, NEW c
    PROVE  CapReached(r, t, c) \in Cap \cup {"none"}
BY DEF CapReached, Cap

\* Raising one entry of a table of counters leaves a table of counters.
LEMMA Raised ==
    ASSUME NEW S, NEW f \in [S -> Nat], NEW x \in S, NEW n \in Nat
    PROVE  [f EXCEPT ![x] = @ + n] \in [S -> Nat]
OBVIOUS

\* Adding one element to a finite set of permits adds one to its size.
LEMMA OneMore ==
    ASSUME NEW S, NEW p, S \subseteq Permit, p \in Permit, p \notin S
    PROVE  /\ IsFiniteSet(S)
           /\ Cardinality(S \cup {p}) = Cardinality(S) + 1
           /\ Cardinality(S) \in Nat
BY PermitsFinite, FS_Subset, FS_AddElement, FS_CardinalityType

\* A step that grants no permit and moves no stamp leaves the sets of granted
\* permits alone.
LEMMA SameGrants ==
    ASSUME TypeOK, UNCHANGED at,
           status' \in [Permit -> {"none", "authorized", "consumed",
                                   "transport_failed"}],
           \A p \in Permit : status'[p] = "none" <=> status[p] = "none"
    PROVE  /\ Granted' = Granted
           /\ \A r : OfRun(r)' = OfRun(r)
           /\ \A d : OfDay(d)' = OfDay(d)
           /\ RateWindow => RateWindow'
<1>1. Granted' = Granted
  BY DEF Granted
<1> QED BY <1>1, Zenon DEF OfRun, OfDay, RateWindow

-----------------------------------------------------------------------------
\* The budget tables start empty and within every limit.
LEMMA BudgetInit == Init => BudgetInv
<1> SUFFICES ASSUME Init PROVE BudgetInv
  OBVIOUS
<1> USE BudgetAssumption DEF BudgetAssumption, Time
<1>1. TypeOK
  BY DEF Init, TypeOK
<1>2. Granted = {}
  BY DEF Init, Granted
<1>3. Cardinality({}) = 0
  BY FS_EmptySet
<1>4. /\ \A r : OfRun(r) = {}
      /\ \A d : OfDay(d) = {}
  BY <1>2 DEF OfRun, OfDay
<1>5. CountersExact
  <2>1. /\ \A r \in Run : Cardinality(OfRun(r)) = 0
        /\ \A d \in Day : Cardinality(OfDay(d)) = 0
    BY <1>3, <1>4, Zenon
  <2>2. PerRunCap >= 0 /\ DailyCap >= 0
    OBVIOUS
  <2>3. \A r \in Run : count[r] = 0
    BY DEF Init
  <2>4. \A d \in Day : dcount[d] = 0
    BY DEF Init
  <2> QED BY <2>1, <2>2, <2>3, <2>4 DEF CountersExact
<1>6. WantsOwn /\ RateWindow /\ OneStopEvent
  BY <1>2 DEF WantsOwn, RateWindow, OneStopEvent, Init
<1> QED BY <1>1, <1>5, <1>6 DEF BudgetInv

\* A worker that returns to its caller forgets its request.
LEMMA BackTypes ==
    ASSUME TypeOK, WantsOwn, NEW w \in Worker, Back(w)
    PROVE  /\ pc' \in [Worker -> {"new", "idle", "reserve", "flying", "over"}]
           /\ want' \in [Worker -> Permit \cup {<<>>}]
           /\ stamp' \in [Worker -> Time]
           /\ price' \in [Worker -> Nat]
           /\ WantsOwn'
<1>1. 0 \in Time
  BY BudgetAssumption DEF BudgetAssumption, Time
<1>2. \A v \in Worker : /\ pc'[v] = IF v = w THEN "idle" ELSE pc[v]
                        /\ want'[v] = IF v = w THEN <<>> ELSE want[v]
  BY DEF TypeOK, Back
<1> QED BY <1>1, <1>2 DEF TypeOK, WantsOwn, Back

\* Recording a stop on a run that has none keeps latch and log together.
LEMMA StopTypes ==
    ASSUME TypeOK, OneStopEvent, NEW r \in Run, NEW reason \in StopReason,
           stop[r] = "none", RecordStop(r, reason)
    PROVE  /\ stop' \in [Run -> StopReason \cup {"none"}]
           /\ events' \in [Run -> Seq(StopReason)]
           /\ OneStopEvent'
<1>1. reason # "none"
  BY DEF StopReason, Cap
<1>2. events[r] = <<>>
  BY DEF OneStopEvent
<1>3. Append(events[r], reason) = <<reason>>
  BY <1>2
<1>4. stop' \in [Run -> StopReason \cup {"none"}]
  BY DEF TypeOK, RecordStop
<1>5. events' = [events EXCEPT ![r] = <<reason>>]
  BY <1>3 DEF RecordStop, TypeOK
<1>6. events' \in [Run -> Seq(StopReason)]
  BY <1>5 DEF TypeOK
<1>7. OneStopEvent'
  BY <1>1, <1>5 DEF OneStopEvent, TypeOK, RecordStop
<1> QED BY <1>4, <1>6, <1>7

\* A grant keeps the rate window: whatever window the new permit falls into,
\* the permits already there are among those Recent counted.
LEMMA GrantKeepsRate ==
    ASSUME BudgetInv, NEW p \in Permit, NEW t \in Time,
           status[p] = "none",
           status' = [status EXCEPT ![p] = "authorized"],
           at' = [at EXCEPT ![p] = t],
           Cardinality(Recent(t)) < RequestsPerMinute
    PROVE  RateWindow'
<1> USE BudgetAssumption DEF BudgetAssumption, Time
<1> DEFINE Window(a) == {q \in Granted : a <= at[q] /\ at[q] < a + Minute}
           After(a) == {q \in Granted' : a <= at'[q] /\ at'[q] < a + Minute}
<1>1. /\ status \in [Permit -> {"none", "authorized", "consumed",
                                "transport_failed"}]
      /\ at \in [Permit -> Time]
      /\ RateWindow
  BY DEF BudgetInv, TypeOK
<1>2. /\ Granted' = Granted \cup {p}
      /\ p \notin Granted
      /\ Granted \subseteq Permit
      /\ at'[p] = t
      /\ \A q \in Granted : at'[q] = at[q]
  BY <1>1 DEF Granted
<1>3. \A a \in Nat : After(a) = IF a <= t /\ t < a + Minute
                                  THEN Window(a) \cup {p} ELSE Window(a)
  BY <1>1, <1>2
<1>4. ASSUME NEW a \in Nat, a <= t, t < a + Minute
      PROVE  Cardinality(Window(a) \cup {p}) <= RequestsPerMinute
  <2>1. Window(a) \subseteq Recent(t)
    BY <1>1, <1>2, <1>4 DEF Recent
  <2>2. Recent(t) \subseteq Permit
    BY <1>2 DEF Recent
  <2>3. /\ IsFiniteSet(Recent(t))
        /\ Cardinality(Window(a)) <= Cardinality(Recent(t))
        /\ Cardinality(Recent(t)) \in Nat
    BY <2>1, <2>2, PermitsFinite, FS_Subset, FS_CardinalityType
  <2>4. /\ Cardinality(Window(a) \cup {p}) = Cardinality(Window(a)) + 1
        /\ Cardinality(Window(a)) \in Nat
    <3>1. Window(a) \subseteq Permit /\ p \notin Window(a)
      BY <1>2
    <3> HIDE DEF Window
    <3> QED BY <3>1, OneMore
  <2> HIDE DEF Window
  <2> QED BY <2>3, <2>4
<1>5. \A g \in Granted : Cardinality(Window(at[g])) <= RequestsPerMinute
  BY <1>1 DEF RateWindow
<1>6. \A g \in Granted : at[g] \in Nat
  BY <1>1, <1>2
<1>7. ASSUME NEW g \in Granted'
      PROVE  Cardinality(After(at'[g])) <= RequestsPerMinute
  <2>1. CASE g = p
    <3>1. After(t) = Window(t) \cup {p}
      BY <1>3
    <3>2. Cardinality(Window(t) \cup {p}) <= RequestsPerMinute
      BY <1>4
    <3> HIDE DEF Window, After
    <3> QED BY <3>1, <3>2, <1>2, <2>1
  <2>2. CASE g # p
    <3>1. g \in Granted /\ at'[g] = at[g] /\ at[g] \in Nat
      BY <1>2, <1>6, <2>2
    <3> HIDE DEF Window, After
    <3>2. CASE at[g] <= t /\ t < at[g] + Minute
      BY <3>1, <3>2, <1>3, <1>4
    <3>3. CASE ~(at[g] <= t /\ t < at[g] + Minute)
      BY <3>1, <3>3, <1>3, <1>5
    <3> QED BY <3>2, <3>3
  <2> QED BY <2>1, <2>2
<1> QED BY <1>7 DEF RateWindow

\* A grant keeps the counters exact and within the caps.
LEMMA GrantKeepsCounters ==
    ASSUME BudgetInv, NEW w \in Worker, Grant(w)
    PROVE  CountersExact'
<1> USE BudgetAssumption DEF BudgetAssumption
<1> DEFINE p == want[w]
           r == RunOf[w]
           d == DayOf[stamp[w]]
<1>1. TypeOK /\ CountersExact
  BY DEF BudgetInv
<1>2. /\ p \in Permit /\ p[1] = r /\ r \in Run
      /\ stamp[w] \in Time /\ d \in Day
      /\ status[p] = "none"
  <2>1. pc[w] = "reserve" /\ status[p] = "none"
    BY DEF Grant, Admissible
  <2>2. p \in {RunOf[w]} \X Key
    BY <2>1 DEF BudgetInv, WantsOwn
  <2>3. stamp[w] \in Time
    BY <1>1 DEF TypeOK
  <2>4. RunOf[w] \in Run /\ DayOf[stamp[w]] \in Day
    BY <2>3
  <2> QED BY <2>1, <2>2, <2>3, <2>4 DEF Permit
<1>3. /\ status' = [status EXCEPT ![p] = "authorized"]
      /\ at' = [at EXCEPT ![p] = stamp[w]]
      /\ count' = [count EXCEPT ![r] = @ + 1]
      /\ dcount' = [dcount EXCEPT ![d] = @ + 1]
  BY DEF Grant
<1>4. count[r] < PerRunCap /\ dcount[d] < DailyCap
  <2>1. ~(count[r] >= PerRunCap) /\ ~(dcount[d] >= DailyCap)
    BY DEF Grant, CapReached
  <2>2. count[r] \in Nat /\ dcount[d] \in Nat
    BY <1>1, <1>2 DEF TypeOK
  <2>3. PerRunCap \in Nat /\ DailyCap \in Nat
    OBVIOUS
  <2> HIDE DEF r, d
  <2> QED BY <2>1, <2>2, <2>3
<1> HIDE DEF p, r, d
<1>5. /\ Granted' = Granted \cup {p}
      /\ p \notin Granted
      /\ Granted \subseteq Permit
      /\ at'[p] = stamp[w]
      /\ \A q \in Granted : at'[q] = at[q]
  BY <1>1, <1>2, <1>3 DEF Granted, TypeOK
<1>6. \A x : OfRun(x)' = IF x = r THEN OfRun(x) \cup {p} ELSE OfRun(x)
  BY <1>2, <1>5 DEF OfRun
<1>7. \A x : OfDay(x)' = IF x = d THEN OfDay(x) \cup {p} ELSE OfDay(x)
  BY <1>2, <1>5 DEF OfDay, d
<1>8. \A x : /\ OfRun(x) \subseteq Permit /\ p \notin OfRun(x)
             /\ OfDay(x) \subseteq Permit /\ p \notin OfDay(x)
  BY <1>5 DEF OfRun, OfDay
<1>9. \A x : /\ Cardinality(OfRun(x) \cup {p}) = Cardinality(OfRun(x)) + 1
             /\ Cardinality(OfDay(x) \cup {p}) = Cardinality(OfDay(x)) + 1
  BY <1>2, <1>8, OneMore
<1>10. ASSUME NEW x \in Run
       PROVE  count'[x] = Cardinality(OfRun(x)') /\ count'[x] <= PerRunCap
  <2>1. count[x] = Cardinality(OfRun(x)) /\ count[x] <= PerRunCap
    BY <1>1 DEF CountersExact
  <2>2. CASE x = r
    <3>1. count'[x] = count[x] + 1 /\ count[x] \in Nat /\ PerRunCap \in Nat
      BY <2>2, <1>1, <1>2, <1>3 DEF TypeOK
    <3>2. Cardinality(OfRun(x)') = Cardinality(OfRun(x)) + 1
      BY <2>2, <1>6, <1>9
    <3> QED BY <2>1, <2>2, <1>4, <3>1, <3>2
  <2>3. CASE x # r
    BY <2>1, <2>3, <1>1, <1>3, <1>6 DEF TypeOK
  <2> QED BY <2>2, <2>3
<1>11. ASSUME NEW x \in Day
       PROVE  dcount'[x] = Cardinality(OfDay(x)') /\ dcount'[x] <= DailyCap
  <2>1. dcount[x] = Cardinality(OfDay(x)) /\ dcount[x] <= DailyCap
    BY <1>1 DEF CountersExact
  <2>2. CASE x = d
    <3>1. dcount'[x] = dcount[x] + 1 /\ dcount[x] \in Nat /\ DailyCap \in Nat
      BY <2>2, <1>1, <1>2, <1>3 DEF TypeOK
    <3>2. Cardinality(OfDay(x)') = Cardinality(OfDay(x)) + 1
      BY <2>2, <1>7, <1>9
    <3> QED BY <2>1, <2>2, <1>4, <3>1, <3>2
  <2>3. CASE x # d
    BY <2>1, <2>3, <1>1, <1>3, <1>7 DEF TypeOK
  <2> QED BY <2>2, <2>3
<1> QED BY <1>10, <1>11 DEF CountersExact

\* A step that leaves the permits and counters alone, up to settlement.
Settles ==
    /\ UNCHANGED <<at, count, dcount>>
    /\ \A p \in Permit : status'[p] = "none" <=> status[p] = "none"

\* Such a step keeps the counters and the rate window.
LEMMA SettleKeeps ==
    ASSUME BudgetInv, Settles,
           status' \in [Permit -> {"none", "authorized", "consumed",
                                   "transport_failed"}]
    PROVE  CountersExact' /\ RateWindow'
<1>1. /\ \A r : OfRun(r)' = OfRun(r)
      /\ \A d : OfDay(d)' = OfDay(d)
      /\ RateWindow => RateWindow'
  BY SameGrants DEF BudgetInv, Settles
<1>2. CountersExact'
  <2>1. count' = count /\ dcount' = dcount /\ CountersExact
    BY DEF Settles, BudgetInv
  <2> QED BY <1>1, <2>1, Zenon DEF CountersExact
<1> QED BY <1>1, <1>2 DEF BudgetInv

\* A step that does not write the permit tables keeps them too.
LEMMA QuietKeeps ==
    ASSUME BudgetInv, UNCHANGED granted
    PROVE  CountersExact' /\ RateWindow'
BY SettleKeeps DEF BudgetInv, TypeOK, granted, Settles

\* Consuming a permit is a settlement and returns one unit of concurrency.
LEMMA ConsumeKeeps ==
    ASSUME BudgetInv, NEW w \in Worker, NEW verdict,
           verdict \in {"consumed", "transport_failed"}, Consume(w, verdict)
    PROVE  /\ status' \in [Permit -> {"none", "authorized", "consumed",
                                      "transport_failed"}]
           /\ \A p \in Permit : status'[p] = "none" <=> status[p] = "none"
           /\ inflight' \in [Run -> Nat]
<1>1. RunOf[w] \in Run
  BY BudgetAssumption DEF BudgetAssumption
<1>2. inflight' \in [Run -> Nat]
  BY <1>1 DEF BudgetInv, TypeOK, Consume
<1> QED BY <1>2 DEF BudgetInv, TypeOK, Consume
-----------------------------------------------------------------------------
\* Every action keeps the inductive invariant.
LEMMA BudgetStep == BudgetInv /\ [Next]_vars => BudgetInv'
<1> SUFFICES ASSUME BudgetInv, [Next]_vars PROVE BudgetInv'
  OBVIOUS
<1> USE BudgetAssumption DEF BudgetAssumption
<1>a. TypeOK /\ WantsOwn /\ CountersExact /\ RateWindow /\ OneStopEvent
  BY DEF BudgetInv
<1>b. \A w \in Worker : RunOf[w] \in Run
  OBVIOUS
<1>1. CASE Tick
  <2>1. clock' \in Time
    BY <1>1, <1>a DEF Tick, Time, TypeOK
  <2>2. TypeOK'
    BY <1>1, <1>a, <2>1 DEF Tick, TypeOK, granted, latch, worker
  <2>3. WantsOwn' /\ OneStopEvent'
    BY <1>1, <1>a DEF Tick, latch, worker, WantsOwn, OneStopEvent
  <2>4. CountersExact' /\ RateWindow'
    BY <1>1, QuietKeeps DEF Tick
  <2> QED BY <2>2, <2>3, <2>4 DEF BudgetInv
<1>2. ASSUME NEW w \in Worker, Initialize(w) PROVE BudgetInv'
  <2>1. TypeOK'
    BY <1>2, <1>a, <1>b DEF Initialize, TypeOK, granted, latch
  <2>2. WantsOwn'
    <3> SUFFICES ASSUME NEW v \in Worker, pc'[v] \in {"reserve", "flying"}
                 PROVE  want'[v] \in {RunOf[v]} \X Key
      BY DEF WantsOwn
    <3>1. pc' = [pc EXCEPT ![w] = "idle"] \/ pc' = [pc EXCEPT ![w] = "over"]
      BY <1>2 DEF Initialize
    <3>2. pc'[v] = pc[v]
      BY <1>a, <3>1 DEF TypeOK
    <3> QED BY <1>2, <1>a, <3>2 DEF Initialize, WantsOwn
  <2>3. OneStopEvent'
    BY <1>2, <1>a DEF Initialize, latch, OneStopEvent
  <2>4. CountersExact' /\ RateWindow'
    BY <1>2, QuietKeeps DEF Initialize
  <2> QED BY <2>1, <2>2, <2>3, <2>4 DEF BudgetInv
<1>3. ASSUME NEW w \in Worker, NEW k \in Key, NEW c \in Cost, Begin(w, k, c)
      PROVE  BudgetInv'
  <2>1. <<RunOf[w], k>> \in Permit /\ <<RunOf[w], k>> \in {RunOf[w]} \X Key
    BY <1>b DEF Permit
  <2>2. TypeOK'
    BY <1>3, <1>a, <2>1 DEF Begin, TypeOK, granted, latch
  <2>3. WantsOwn'
    BY <1>3, <1>a, <2>1 DEF Begin, WantsOwn, TypeOK
  <2>4. OneStopEvent'
    BY <1>3, <1>a DEF Begin, latch, OneStopEvent
  <2>5. CountersExact' /\ RateWindow'
    BY <1>3, QuietKeeps DEF Begin
  <2> QED BY <2>2, <2>3, <2>4, <2>5 DEF BudgetInv
<1>4. ASSUME NEW w \in Worker, Grant(w) PROVE BudgetInv'
  <2>1. /\ pc[w] = "reserve" /\ status[want[w]] = "none"
        /\ ~(Cardinality(Recent(stamp[w])) >= RequestsPerMinute)
        /\ want[w] \in {RunOf[w]} \X Key
    BY <1>4, <1>a DEF Grant, Admissible, Deferred, WantsOwn
  <2>2. want[w] \in Permit /\ stamp[w] \in Time /\ price[w] \in Nat
    BY <2>1, <1>a, <1>b DEF Permit, TypeOK
  <2>3. /\ status' = [status EXCEPT ![want[w]] = "authorized"]
        /\ at' = [at EXCEPT ![want[w]] = stamp[w]]
        /\ cost' = [cost EXCEPT ![want[w]] = price[w]]
    BY <1>4 DEF Grant
  <2>4. Cardinality(Recent(stamp[w])) < RequestsPerMinute
    <3>1. Recent(stamp[w]) \subseteq Permit
      BY DEF Recent, Granted
    <3>2. Cardinality(Recent(stamp[w])) \in Nat
      BY <3>1, PermitsFinite, FS_Subset, FS_CardinalityType
    <3>3. RequestsPerMinute \in Nat
      OBVIOUS
    <3> QED BY <2>1, <3>2, <3>3
  <2>5. RateWindow'
    BY <2>1, <2>2, <2>3, <2>4, GrantKeepsRate
  <2>6. CountersExact'
    BY <1>4, GrantKeepsCounters
  <2>7. DayOf[stamp[w]] \in Day
    BY <2>2
  <2>8. TypeOK'
    <3>1. /\ status' \in [Permit -> {"none", "authorized", "consumed",
                                     "transport_failed"}]
          /\ at' \in [Permit -> Time]
          /\ cost' \in [Permit -> Nat]
      BY <1>a, <2>2, <2>3 DEF TypeOK
    <3>2. /\ count' \in [Run -> Nat] /\ inflight' \in [Run -> Nat]
          /\ dcount' \in [Day -> Nat] /\ dcost' \in [Day -> Nat]
      <4>1. /\ count' = [count EXCEPT ![RunOf[w]] = @ + 1]
            /\ inflight' = [inflight EXCEPT ![RunOf[w]] = @ + 1]
        BY <1>4 DEF Grant
      <4>2. /\ dcount' = [dcount EXCEPT ![DayOf[stamp[w]]] = @ + 1]
            /\ dcost' = [dcost EXCEPT ![DayOf[stamp[w]]] = @ + price[w]]
        BY <1>4 DEF Grant
      <4>3. count' \in [Run -> Nat] /\ inflight' \in [Run -> Nat]
        <5>1. count \in [Run -> Nat] /\ inflight \in [Run -> Nat]
          BY <1>a DEF TypeOK
        <5> QED BY <4>1, <5>1, <1>b, Raised
      <4>4. dcount' \in [Day -> Nat] /\ dcost' \in [Day -> Nat]
        <5>1. dcount \in [Day -> Nat] /\ dcost \in [Day -> Nat]
          BY <1>a DEF TypeOK
        <5> QED BY <4>2, <5>1, <2>2, <2>7, Raised
      <4> QED BY <4>3, <4>4
    <3>3. pc' \in [Worker -> {"new", "idle", "reserve", "flying", "over"}]
      BY <1>4, <1>a DEF TypeOK, Grant
    <3> QED BY <1>4, <1>a, <3>1, <3>2, <3>3 DEF TypeOK, Grant, latch
  <2>9. WantsOwn' /\ OneStopEvent'
    BY <1>4, <1>a, <2>1 DEF Grant, WantsOwn, OneStopEvent, TypeOK, latch
  <2> QED BY <2>5, <2>6, <2>8, <2>9 DEF BudgetInv
<1>5. ASSUME NEW w \in Worker, Exhaust(w) PROVE BudgetInv'
  <2>1. PICK reason \in StopReason : RecordStop(RunOf[w], reason)
    BY <1>5, CapIsReason DEF Exhaust, StopReason
  <2>2. stop[RunOf[w]] = "none" /\ Back(w)
    BY <1>5 DEF Exhaust, Admissible
  <2>3. /\ stop' \in [Run -> StopReason \cup {"none"}]
        /\ events' \in [Run -> Seq(StopReason)]
        /\ OneStopEvent'
    BY <1>a, <1>b, <2>1, <2>2, StopTypes
  <2>4. /\ UNCHANGED <<clock, bound, granted, inflight, streak, hist>>
    BY <1>5 DEF Exhaust
  <2>5. TypeOK' /\ WantsOwn'
    BY <1>a, <2>2, <2>3, <2>4, BackTypes DEF TypeOK, granted
  <2>6. CountersExact' /\ RateWindow'
    BY <2>4, QuietKeeps
  <2> QED BY <2>3, <2>5, <2>6 DEF BudgetInv
<1>6. ASSUME NEW w \in Worker, Refuse(w) \/ SettlementFails(w) PROVE BudgetInv'
  <2>1. /\ Back(w)
        /\ UNCHANGED <<clock, bound, granted, inflight, streak, latch, hist>>
    BY <1>6 DEF Refuse, SettlementFails
  <2>2. TypeOK' /\ WantsOwn'
    BY <1>a, <2>1, BackTypes DEF TypeOK, granted, latch
  <2>3. OneStopEvent'
    BY <1>a, <2>1 DEF latch, OneStopEvent
  <2>4. CountersExact' /\ RateWindow'
    BY <2>1, QuietKeeps
  <2> QED BY <2>2, <2>3, <2>4 DEF BudgetInv
<1>7. ASSUME NEW w \in Worker, NEW code \in StatusCode, RecordResponse(w, code)
      PROVE  BudgetInv'
  <2>1. /\ Consume(w, "consumed") /\ Back(w)
        /\ UNCHANGED <<clock, bound, at, cost, count, dcount, dcost>>
    BY <1>7 DEF RecordResponse
  <2>2. /\ status' \in [Permit -> {"none", "authorized", "consumed",
                                   "transport_failed"}]
        /\ \A p \in Permit : status'[p] = "none" <=> status[p] = "none"
        /\ inflight' \in [Run -> Nat]
    BY <2>1, ConsumeKeeps
  <2>3. CountersExact' /\ RateWindow'
    BY <2>1, <2>2, SettleKeeps DEF Settles
  <2>4. /\ stop' \in [Run -> StopReason \cup {"none"}]
        /\ events' \in [Run -> Seq(StopReason)]
        /\ OneStopEvent'
    <3>1. CASE Tripped(RunOf[w], code) /\ stop[RunOf[w]] = "none"
      <4>1. RecordStop(RunOf[w], RepeatedReason(code))
        BY <1>7, <3>1 DEF RecordResponse
      <4>2. RepeatedReason(code) \in StopReason
        BY DEF RepeatedReason, StopReason
      <4> QED BY <1>a, <1>b, <3>1, <4>1, <4>2, StopTypes
    <3>2. CASE ~(Tripped(RunOf[w], code) /\ stop[RunOf[w]] = "none")
      BY <1>7, <1>a, <3>2 DEF RecordResponse, latch, TypeOK, OneStopEvent
    <3> QED BY <3>1, <3>2
  <2>5. streak' \in [Run -> [Breaker -> Nat]]
    <3>0. streak[RunOf[w]] \in [Breaker -> Nat]
      BY <1>a, <1>b DEF TypeOK
    <3>1. Streak(RunOf[w], code) \in [Breaker -> Nat]
      BY <3>0 DEF Streak
    <3> QED BY <1>7, <1>a, <3>1 DEF RecordResponse, TypeOK
  <2>6. hist' \in [Run -> Seq(Codes)]
    <3>1. code \in Codes /\ hist[RunOf[w]] \in Seq(Codes)
      BY <1>a, <1>b DEF TypeOK
    <3>2. Append(hist[RunOf[w]], code) \in Seq(Codes)
      BY <3>1
    <3> QED BY <1>7, <1>a, <3>2 DEF RecordResponse, TypeOK
  <2>7. TypeOK' /\ WantsOwn'
    BY <1>a, <2>1, <2>2, <2>4, <2>5, <2>6, BackTypes DEF TypeOK
  <2> QED BY <2>3, <2>4, <2>7 DEF BudgetInv
<1>8. ASSUME NEW w \in Worker, RecordTransportFailure(w) PROVE BudgetInv'
  <2>1. /\ Consume(w, "transport_failed") /\ Back(w)
        /\ UNCHANGED <<clock, bound, at, cost, count, streak, latch, dcount,
                       dcost, hist>>
    BY <1>8 DEF RecordTransportFailure
  <2>2. /\ status' \in [Permit -> {"none", "authorized", "consumed",
                                   "transport_failed"}]
        /\ \A p \in Permit : status'[p] = "none" <=> status[p] = "none"
        /\ inflight' \in [Run -> Nat]
    BY <2>1, ConsumeKeeps
  <2>3. CountersExact' /\ RateWindow'
    BY <2>1, <2>2, SettleKeeps DEF Settles
  <2>4. TypeOK' /\ WantsOwn' /\ OneStopEvent'
    BY <1>a, <2>1, <2>2, BackTypes DEF TypeOK, latch, OneStopEvent
  <2> QED BY <2>3, <2>4 DEF BudgetInv
<1>9. ASSUME NEW r \in Run, NEW reason \in {"manual", "schema_drift"},
             Halt(r, reason)
      PROVE  BudgetInv'
  <2>1. /\ stop' \in [Run -> StopReason \cup {"none"}]
        /\ events' \in [Run -> Seq(StopReason)]
        /\ OneStopEvent'
    <3>1. reason \in StopReason
      BY DEF StopReason
    <3> QED BY <1>9, <1>a, <3>1, StopTypes DEF Halt
  <2>2. TypeOK' /\ WantsOwn'
    BY <1>9, <1>a, <2>1 DEF Halt, TypeOK, WantsOwn, granted, worker
  <2>3. CountersExact' /\ RateWindow'
    BY <1>9, QuietKeeps DEF Halt
  <2> QED BY <2>1, <2>2, <2>3 DEF BudgetInv
<1>10. ASSUME NEW w \in Worker, Crash(w) PROVE BudgetInv'
  <2>1. TypeOK' /\ WantsOwn'
    BY <1>10, <1>a DEF Crash, TypeOK, WantsOwn, granted, latch
  <2>2. OneStopEvent'
    BY <1>10, <1>a DEF Crash, latch, OneStopEvent
  <2>3. CountersExact' /\ RateWindow'
    BY <1>10, QuietKeeps DEF Crash
  <2> QED BY <2>1, <2>2, <2>3 DEF BudgetInv
<1>11. CASE UNCHANGED vars
  <2>1. TypeOK' /\ WantsOwn' /\ OneStopEvent'
    BY <1>11, <1>a DEF vars, TypeOK, WantsOwn, OneStopEvent
  <2>2. CountersExact' /\ RateWindow'
    BY <1>11, QuietKeeps DEF vars, granted
  <2> QED BY <2>1, <2>2 DEF BudgetInv
<1> QED BY <1>1, <1>2, <1>3, <1>4, <1>5, <1>6, <1>7, <1>8, <1>9, <1>10, <1>11
        DEF Next, Fetch

\* The inductive invariant holds in every reachable state.
LEMMA BudgetHolds == Spec => []BudgetInv
BY BudgetInit, BudgetStep, PTL DEF Spec
-----------------------------------------------------------------------------
\* Each column of the budget tables keeps its type, in particular in_flight
\* never goes below zero (the tables' CHECK constraints).
THEOREM BudgetTypes == Spec => []TypeOK
<1>1. BudgetInv => TypeOK
  BY DEF BudgetInv
<1> QED BY <1>1, BudgetHolds, PTL

\* For any number of workers and whatever the order they commit in, no minute
\* holds more grants than the approved rate.
THEOREM RateIsBounded == Spec => []RateWindow
<1>1. BudgetInv => RateWindow
  BY DEF BudgetInv
<1> QED BY <1>1, BudgetHolds, PTL

\* The per-run and daily request caps bound the permits themselves.
THEOREM CapsAreKept == Spec => []RequestCaps
<1>1. BudgetInv => RequestCaps
  BY DEF BudgetInv, CountersExact, RequestCaps
<1> QED BY <1>1, BudgetHolds, PTL

\* A stopped run has exactly one stop event, with the reason of its latch.
THEOREM StopIsLoggedOnce == Spec => []OneStopEvent
<1>1. BudgetInv => OneStopEvent
  BY DEF BudgetInv
<1> QED BY <1>1, BudgetHolds, PTL

\* A run stops once and grants nothing afterwards.
THEOREM StopIsLatched == Spec => StopIsFinal
<1> USE BudgetAssumption DEF BudgetAssumption
<1> DEFINE Latched == \A r \in Run : stop[r] # "none" =>
              /\ stop'[r] = stop[r]
              /\ \A p \in Permit : (p[1] = r /\ status[p] = "none")
                                      => status'[p] = "none"
<1>1. BudgetInv /\ [Next]_vars => [Latched]_vars
  <2> SUFFICES ASSUME BudgetInv, Next PROVE Latched
    OBVIOUS
  <2>a. TypeOK /\ WantsOwn
    BY DEF BudgetInv
  <2>b. \A w \in Worker : RunOf[w] \in Run
    OBVIOUS
  <2>1. ASSUME UNCHANGED <<stop, status>> PROVE Latched
    BY <2>1
  <2>2. ASSUME NEW w \in Worker, Grant(w) PROVE Latched
    <3>1. /\ pc[w] = "reserve" /\ stop[RunOf[w]] = "none"
          /\ status' = [status EXCEPT ![want[w]] = "authorized"]
          /\ stop' = stop
      BY <2>2 DEF Grant, Admissible, latch
    <3>2. want[w] \in Permit /\ want[w][1] = RunOf[w]
      BY <3>1, <2>a, <2>b DEF WantsOwn, Permit
    <3> QED BY <3>1, <3>2, <2>a DEF TypeOK
  <2>3. ASSUME NEW r \in Run, NEW reason, stop[r] = "none",
               RecordStop(r, reason), UNCHANGED status
        PROVE  Latched
    BY <2>3, <2>a DEF RecordStop, TypeOK
  <2>4. ASSUME NEW w \in Worker, Exhaust(w) PROVE Latched
    <3>1. PICK reason : RecordStop(RunOf[w], reason)
      BY <2>4 DEF Exhaust
    <3>2. stop[RunOf[w]] = "none" /\ UNCHANGED status
      BY <2>4 DEF Exhaust, Admissible, granted
    <3> QED BY <3>1, <3>2, <2>3, <2>b
  <2>5. ASSUME NEW w \in Worker, NEW code \in StatusCode,
               RecordResponse(w, code)
        PROVE  Latched
    <3>1. \A p \in Permit : status'[p] = "none" <=> status[p] = "none"
      BY <2>5, ConsumeKeeps DEF RecordResponse
    <3>2. \A r \in Run : stop[r] # "none" => stop'[r] = stop[r]
      BY <2>5, <2>a DEF RecordResponse, RecordStop, latch, TypeOK
    <3> QED BY <3>1, <3>2
  <2>6. ASSUME NEW w \in Worker, RecordTransportFailure(w) PROVE Latched
    <3>1. \A p \in Permit : status'[p] = "none" <=> status[p] = "none"
      BY <2>6, ConsumeKeeps DEF RecordTransportFailure
    <3> QED BY <3>1, <2>6 DEF RecordTransportFailure, latch
  <2>7. ASSUME NEW r \in Run, NEW reason, Halt(r, reason) PROVE Latched
    BY <2>7, <2>3 DEF Halt, granted
  <2> HIDE DEF Latched
  <2>8. CASE Tick
    BY <2>8, <2>1 DEF Tick, granted, latch
  <2>9. ASSUME NEW w \in Worker,
               \/ Initialize(w) \/ Refuse(w) \/ SettlementFails(w) \/ Crash(w)
               \/ \E k \in Key, c \in Cost : Begin(w, k, c)
        PROVE  Latched
    BY <2>9, <2>1 DEF Initialize, Refuse, SettlementFails, Crash, Begin,
       granted, latch
  <2> QED BY <2>2, <2>4, <2>5, <2>6, <2>7, <2>8, <2>9 DEF Next, Fetch
<1>2. Spec => []BudgetInv /\ [][Next]_vars
  BY BudgetHolds, PTL DEF Spec
<1> QED BY <1>1, <1>2, PTL DEF StopIsFinal
-----------------------------------------------------------------------------
(* The breaker *)

\* A response appended to a history makes a repetition of b exactly when it is
\* b and follows b; the repetitions there were stay.
LEMMA RepeatedAppend ==
    ASSUME NEW h \in Seq(Codes), NEW code \in Codes, NEW b \in Codes
    PROVE  LET g == Append(h, code)
               Twice(s) == \E i \in 1 .. Len(s) - 1 : s[i] = b /\ s[i + 1] = b
           IN  /\ g # <<>> /\ g[Len(g)] = code
               /\ Twice(g) <=> \/ Twice(h)
                               \/ code = b /\ h # <<>> /\ h[Len(h)] = b
<1> DEFINE g == Append(h, code)
           Twice(s) == \E i \in 1 .. Len(s) - 1 : s[i] = b /\ s[i + 1] = b
<1>1. /\ Len(h) \in Nat /\ Len(g) = Len(h) + 1
      /\ g[Len(g)] = code
      /\ \A i \in 1 .. Len(h) : g[i] = h[i]
      /\ h # <<>> <=> Len(h) >= 1
  OBVIOUS
<1>2. Twice(h) => Twice(g)
  <2> SUFFICES ASSUME NEW i \in 1 .. Len(h) - 1, h[i] = b /\ h[i + 1] = b
               PROVE  i \in 1 .. Len(g) - 1 /\ g[i] = b /\ g[i + 1] = b
    OBVIOUS
  <2> QED BY <1>1
<1>3. code = b /\ h # <<>> /\ h[Len(h)] = b => Twice(g)
  <2> SUFFICES ASSUME code = b, h # <<>>, h[Len(h)] = b
               PROVE  /\ Len(h) \in 1 .. Len(g) - 1
                      /\ g[Len(h)] = b /\ g[Len(h) + 1] = b
    OBVIOUS
  <2> QED BY <1>1
<1>4. Twice(g) => Twice(h) \/ (code = b /\ h # <<>> /\ h[Len(h)] = b)
  <2> SUFFICES ASSUME NEW i \in 1 .. Len(g) - 1, g[i] = b /\ g[i + 1] = b
               PROVE  Twice(h) \/ (code = b /\ h # <<>> /\ h[Len(h)] = b)
    OBVIOUS
  <2>1. CASE i = Len(h)
    BY <1>1, <2>1
  <2>2. CASE i # Len(h)
    <3>1. i \in 1 .. Len(h) - 1 /\ h[i] = b /\ h[i + 1] = b
      BY <1>1, <2>2
    <3> QED BY <3>1
  <2> QED BY <2>1, <2>2
<1>5. g # <<>>
  BY <1>1
<1> HIDE DEF Twice, g
<1>6. /\ g # <<>> /\ g[Len(g)] = code
      /\ Twice(g) <=> \/ Twice(h)
                      \/ code = b /\ h # <<>> /\ h[Len(h)] = b
  BY <1>1, <1>2, <1>3, <1>4, <1>5
<1> QED BY <1>6 DEF Twice, g

\* A stop for another reason than repeated denials, on a run that has none,
\* does not concern the breaker.
LEMMA OtherStops ==
    ASSUME TypeOK, BreakerInv, NEW r \in Run,
           NEW reason \in StopReason \ {"repeated_403", "repeated_429"},
           RecordStop(r, reason), UNCHANGED <<streak, hist>>
    PROVE  BreakerInv'
<1>1. reason # "none"
  BY DEF StopReason, Cap
<1>2. \A q \in Run : stop'[q] = IF q = r THEN reason ELSE stop[q]
  BY DEF RecordStop, TypeOK
<1>3. \A q \in Run, b \in Breaker : Repeated(q, b)' <=> Repeated(q, b)
  BY DEF Repeated
<1>4. BreakerIsExact'
  BY <1>1, <1>2, <1>3 DEF BreakerInv, BreakerIsExact, RepeatedReason
<1>5. StreakIsLast'
  BY DEF BreakerInv, StreakIsLast
<1> QED BY <1>4, <1>5 DEF BreakerInv

\* A recorded response trips the breaker exactly when it repeats a denial.
LEMMA ResponseKeepsBreaker ==
    ASSUME BudgetInv, BreakerInv, NEW w \in Worker, NEW code \in StatusCode,
           RecordResponse(w, code)
    PROVE  BreakerInv'
<1> USE BudgetAssumption DEF BudgetAssumption
<1> DEFINE r == RunOf[w]
<1>1. TypeOK /\ r \in Run /\ code \in Codes /\ hist[r] \in Seq(Codes)
  BY DEF BudgetInv, TypeOK
<1>2. /\ streak' = [streak EXCEPT ![r] = Streak(r, code)]
      /\ hist' = [hist EXCEPT ![r] = Append(@, code)]
      /\ IF Tripped(r, code) /\ stop[r] = "none"
         THEN RecordStop(r, RepeatedReason(code)) ELSE UNCHANGED latch
  BY DEF RecordResponse
<1>3. /\ hist'[r] = Append(hist[r], code) /\ streak'[r] = Streak(r, code)
      /\ \A q \in Run \ {r} : hist'[q] = hist[q] /\ streak'[q] = streak[q]
  BY <1>1, <1>2 DEF TypeOK
<1>4. \A q \in Run \ {r} : stop'[q] = stop[q]
  BY <1>1, <1>2 DEF TypeOK, RecordStop, latch
<1>5. \A b \in Breaker : streak[r][b] \in Nat
  BY <1>1 DEF TypeOK
<1> HIDE DEF r
<1>6. \A b \in Breaker :
         /\ hist'[r] # <<>> /\ hist'[r][Len(hist'[r])] = code
         /\ Repeated(r, b)' <=> \/ Repeated(r, b)
                                \/ /\ code = b /\ hist[r] # <<>>
                                   /\ hist[r][Len(hist[r])] = b
  <2> SUFFICES ASSUME NEW b \in Breaker
               PROVE  /\ hist'[r] # <<>> /\ hist'[r][Len(hist'[r])] = code
                      /\ Repeated(r, b)' <=> \/ Repeated(r, b)
                                             \/ /\ code = b /\ hist[r] # <<>>
                                                /\ hist[r][Len(hist[r])] = b
    OBVIOUS
  <2> DEFINE h == hist[r]
  <2>1. h \in Seq(Codes) /\ hist'[r] = Append(h, code)
    BY <1>1, <1>3
  <2>2. Repeated(r, b) <=> \E i \in 1 .. Len(h) - 1 : h[i] = b /\ h[i + 1] = b
    BY DEF Repeated
  <2>3. Repeated(r, b)' <=> \E i \in 1 .. Len(Append(h, code)) - 1 :
                               /\ Append(h, code)[i] = b
                               /\ Append(h, code)[i + 1] = b
    BY <2>1 DEF Repeated
  <2> HIDE DEF h
  <2>4. /\ Append(h, code) # <<>>
        /\ Append(h, code)[Len(Append(h, code))] = code
        /\ (\E i \in 1 .. Len(Append(h, code)) - 1 :
                /\ Append(h, code)[i] = b
                /\ Append(h, code)[i + 1] = b)
             <=> \/ \E i \in 1 .. Len(h) - 1 : h[i] = b /\ h[i + 1] = b
                 \/ code = b /\ h # <<>> /\ h[Len(h)] = b
    <3>1. h \in Seq(Codes) /\ code \in Codes /\ b \in Codes
      BY <1>1, <2>1
    <3> QED BY ONLY <3>1, RepeatedAppend
  <2> QED BY <2>1, <2>2, <2>3, <2>4 DEF h
<1>7. \A b \in Breaker : streak'[r][b] >= 1 <=> code = b
  BY <1>3, <1>5 DEF Streak
<1>8. StreakIsLast'
  <2> SUFFICES ASSUME NEW q \in Run, NEW b \in Breaker
               PROVE  (streak[q][b] >= 1
                        <=> hist[q] # <<>> /\ hist[q][Len(hist[q])] = b)'
    BY DEF StreakIsLast
  <2>1. CASE q = r
    BY <1>6, <1>7, <2>1
  <2>2. CASE q # r
    BY <1>3, <2>2 DEF BreakerInv, StreakIsLast
  <2> QED BY <2>1, <2>2
<1>9. \A b \in Breaker : Repeated(r, b)' <=> \/ Repeated(r, b)
                                             \/ code = b /\ Tripped(r, b)
  <2> SUFFICES ASSUME NEW b \in Breaker
               PROVE  Tripped(r, b) <=> hist[r] # <<>> /\ hist[r][Len(hist[r])] = b
    BY <1>6
  <2>1. Tripped(r, b) <=> streak[r][b] >= 1
    BY <1>5 DEF Tripped, Streak
  <2> QED BY <1>1, <2>1 DEF BreakerInv, StreakIsLast
<1>10. ASSUME NEW b \in Breaker
       PROVE  /\ Repeated(r, b)' => stop'[r] # "none"
              /\ stop'[r] = RepeatedReason(b) => Repeated(r, b)'
  <2>0. /\ Repeated(r, b) => stop[r] # "none"
        /\ stop[r] = RepeatedReason(b) => Repeated(r, b)
    BY <1>1 DEF BreakerInv, BreakerIsExact
  <2>1. CASE Tripped(r, code) /\ stop[r] = "none"
    <3>1. stop'[r] = RepeatedReason(code) /\ code \in Breaker
      BY <1>1, <1>2, <2>1 DEF RecordStop, TypeOK, Tripped
    <3>2. RepeatedReason(code) # "none"
      BY DEF RepeatedReason
    <3>3. RepeatedReason(code) = RepeatedReason(b) => code = b
      BY <3>1 DEF RepeatedReason
    <3> QED BY <1>9, <2>1, <3>1, <3>2, <3>3
  <2>2. CASE ~(Tripped(r, code) /\ stop[r] = "none")
    <3>1. stop'[r] = stop[r]
      BY <1>2, <2>2 DEF latch
    <3> QED BY <1>9, <2>0, <2>2, <3>1
  <2> QED BY <2>1, <2>2
<1>11. BreakerIsExact'
  <2>1. \A q \in Run \ {r}, b \in Breaker : Repeated(q, b)' <=> Repeated(q, b)
    BY <1>3 DEF Repeated
  <2> QED BY <1>4, <1>10, <2>1 DEF BreakerInv, BreakerIsExact
<1> QED BY <1>8, <1>11 DEF BreakerInv

\* Only responses and stops reach the breaker, its history and the latch.
LEMMA BreakerStep == BudgetInv /\ BreakerInv /\ [Next]_vars => BreakerInv'
<1> SUFFICES ASSUME BudgetInv, BreakerInv, [Next]_vars PROVE BreakerInv'
  OBVIOUS
<1> USE BudgetAssumption DEF BudgetAssumption
<1>a. TypeOK
  BY DEF BudgetInv
<1>1. ASSUME UNCHANGED <<streak, hist, stop>> PROVE BreakerInv'
  <2>1. StreakIsLast'
    BY <1>1 DEF BreakerInv, StreakIsLast
  <2>2. \A q \in Run, b \in Breaker : Repeated(q, b)' <=> Repeated(q, b)
    BY <1>1 DEF Repeated
  <2>3. BreakerIsExact'
    BY <1>1, <2>2 DEF BreakerInv, BreakerIsExact
  <2> QED BY <2>1, <2>3 DEF BreakerInv
<1>2. ASSUME NEW w \in Worker, Exhaust(w) PROVE BreakerInv'
  <2>1. PICK reason \in Cap \cup {"approval_inactive"} :
            RecordStop(RunOf[w], reason)
    BY <1>2, CapIsReason DEF Exhaust
  <2>2. reason \in StopReason \ {"repeated_403", "repeated_429"}
    BY DEF StopReason, Cap
  <2> QED BY <1>2, <1>a, <2>1, <2>2, OtherStops DEF Exhaust
<1>3. ASSUME NEW r \in Run, NEW reason \in {"manual", "schema_drift"},
             Halt(r, reason)
      PROVE  BreakerInv'
  <2>1. reason \in StopReason \ {"repeated_403", "repeated_429"}
    BY DEF StopReason
  <2> QED BY <1>3, <1>a, <2>1, OtherStops DEF Halt
<1>4. ASSUME NEW w \in Worker, RecordTransportFailure(w) PROVE BreakerInv'
  BY <1>4, <1>1 DEF RecordTransportFailure, latch
<1>5. CASE Tick
  BY <1>5, <1>1 DEF Tick, latch
<1>6. ASSUME NEW w \in Worker,
             \/ Initialize(w) \/ Grant(w) \/ Refuse(w)
             \/ SettlementFails(w) \/ Crash(w)
             \/ \E k \in Key, c \in Cost : Begin(w, k, c)
      PROVE  BreakerInv'
  BY <1>6, <1>1 DEF Initialize, Grant, Refuse, SettlementFails, Crash, Begin,
     latch
<1>7. CASE UNCHANGED vars
  BY <1>7, <1>1 DEF vars
<1> QED BY <1>2, <1>3, <1>4, <1>5, <1>6, <1>7, ResponseKeepsBreaker
        DEF Next, Fetch

\* The breaker trips on two consecutive denials of one kind and on nothing
\* else, for any number of runs and workers and in whatever order their
\* responses are recorded.
THEOREM BreakerTripsExactly == Spec => []BreakerIsExact
<1>1. Init => BreakerInv
  BY DEF Init, BreakerInv, StreakIsLast, BreakerIsExact, Repeated,
     RepeatedReason
<1>2. BreakerInv => BreakerIsExact
  BY DEF BreakerInv
<1> QED BY <1>1, <1>2, BudgetHolds, BreakerStep, PTL DEF Spec
-----------------------------------------------------------------------------
(* Sums over finite sets, by counting units *)

\* Among sets of finite sets there is a smallest one: induction over finite
\* sets, by a counterexample that has no smaller one.
LEMMA LeastSet ==
    ASSUME NEW S, IsFiniteSet(S), NEW B, B \subseteq SUBSET S, B # {}
    PROVE  \E T \in B : \A U \in B : U \subseteq T => U = T
<1>1. FiniteSubsetsOf(S) = SUBSET S
  BY FS_FiniteSubsetsOfFinite
<1>2. IsWellFoundedOn(StrictSubsetOrdering(S), SUBSET S)
  BY <1>1, FS_StrictSubsetOrderingWellFounded
<1>3. PICK T \in B : \A U \in B : <<U, T>> \notin StrictSubsetOrdering(S)
  BY <1>2, WFMin
<1> QED BY <1>3 DEF StrictSubsetOrdering

\* What a sum counts: f[x] units for each x.
Units(f, S) == {u \in S \X Nat : u[2] < f[u[1]]}

LEMMA UnitsOfOne ==
    ASSUME NEW f, NEW S, NEW x, x \notin S, f[x] \in Nat
    PROVE  /\ Units(f, S \cup {x}) = Units(f, S) \cup ({x} \X (0 .. f[x] - 1))
           /\ Units(f, S) \cap ({x} \X (0 .. f[x] - 1)) = {}
           /\ IsFiniteSet({x} \X (0 .. f[x] - 1))
           /\ Cardinality({x} \X (0 .. f[x] - 1)) = f[x]
<1> DEFINE n == f[x]  N == 0 .. n - 1
<1>1. IsFiniteSet(N) /\ Cardinality(N) = n
  <2>1. n \in Nat /\ 0 \in Int /\ n - 1 \in Int
    OBVIOUS
  <2> HIDE DEF n
  <2>2. IsFiniteSet(N) /\ Cardinality(N) = IF 0 > n - 1 THEN 0 ELSE (n - 1) - 0 + 1
    BY <2>1, FS_Interval
  <2> QED BY <2>1, <2>2
<1>2. IsFiniteSet({x}) /\ Cardinality({x}) = 1
  BY FS_Singleton
<1>3. /\ IsFiniteSet({x} \X N)
      /\ Cardinality({x} \X N) = Cardinality({x}) * Cardinality(N)
  <2> HIDE DEF N
  <2> QED BY <1>1, <1>2, FS_Product
<1>4. Cardinality({x} \X N) = n
  BY <1>1, <1>2, <1>3
<1>5. N = {i \in Nat : i < n}
  OBVIOUS
<1>6. Units(f, S \cup {x}) = Units(f, S) \cup ({x} \X N)
  <2> HIDE DEF N
  <2> QED BY <1>5 DEF Units
<1>7. Units(f, S) \cap ({x} \X N) = {}
  BY DEF Units
<1> QED BY <1>3, <1>4, <1>6, <1>7

\* A finite sum of naturals counts finitely many units.
LEMMA UnitsFinite ==
    ASSUME NEW S, IsFiniteSet(S), NEW f, \A x \in S : f[x] \in Nat
    PROVE  IsFiniteSet(Units(f, S))
<1> DEFINE B == {T \in SUBSET S : ~IsFiniteSet(Units(f, T))}
<1> SUFFICES ASSUME B # {} PROVE FALSE
  OBVIOUS
<1>0. B \subseteq SUBSET S
  OBVIOUS
<1>1. PICK T \in B : \A U \in B : U \subseteq T => U = T
  <2> HIDE DEF B
  <2> QED BY <1>0, LeastSet
<1>2. CASE T = {}
  <2>1. Units(f, T) = {}
    BY <1>2 DEF Units
  <2> QED BY <1>1, <2>1, FS_EmptySet
<1>3. CASE T # {}
  <2>1. PICK x \in T : TRUE
    BY <1>3
  <2> DEFINE U == T \ {x}
  <2>2. U \in SUBSET S /\ T = U \cup {x} /\ x \notin U /\ f[x] \in Nat
    BY <1>1, <2>1
  <2>3. IsFiniteSet(Units(f, U))
    BY <1>1, <2>2
  <2> HIDE DEF U
  <2>4. IsFiniteSet(Units(f, U) \cup ({x} \X (0 .. f[x] - 1)))
    BY <2>2, <2>3, UnitsOfOne, FS_Union
  <2>5. Units(f, T) = Units(f, U) \cup ({x} \X (0 .. f[x] - 1))
    BY <2>2, UnitsOfOne
  <2> QED BY <1>1, <2>4, <2>5
<1> QED BY <1>2, <1>3

LEMMA UnitsAdd ==
    ASSUME NEW S, IsFiniteSet(S), NEW f, NEW x, x \notin S,
           \A y \in S \cup {x} : f[y] \in Nat
    PROVE  /\ Cardinality(Units(f, S)) \in Nat
           /\ Cardinality(Units(f, S \cup {x})) = Cardinality(Units(f, S)) + f[x]
<1> DEFINE V == {x} \X (0 .. f[x] - 1)
<1>1. /\ Units(f, S \cup {x}) = Units(f, S) \cup V
      /\ Units(f, S) \cap V = {}
      /\ IsFiniteSet(V) /\ Cardinality(V) = f[x]
  BY UnitsOfOne
<1>2. IsFiniteSet(Units(f, S))
  BY UnitsFinite
<1> HIDE DEF V
<1>3. Cardinality(Units(f, S) \cup V)
         = Cardinality(Units(f, S)) + Cardinality(V) - Cardinality(Units(f, S) \cap V)
  BY <1>1, <1>2, FS_Union
<1>4. Cardinality(Units(f, S) \cap V) = 0
  BY <1>1, FS_EmptySet
<1>5. Cardinality(Units(f, S)) \in Nat /\ f[x] \in Nat
  BY <1>2, FS_CardinalityType
<1> DEFINE n == Cardinality(Units(f, S))  m == f[x]
<1>6. n \in Nat /\ m \in Nat /\ Cardinality(Units(f, S) \cup V) = n + m - 0
  BY <1>1, <1>3, <1>4, <1>5
<1> HIDE DEF n, m
<1>7. Cardinality(Units(f, S) \cup V) = n + m
  BY <1>6
<1> QED BY <1>1, <1>6, <1>7 DEF n, m

\* The recursion of the community modules' sum has a solution, the number of
\* units, and no other.
LEMMA SumIsUnits ==
    ASSUME NEW S, IsFiniteSet(S), NEW f, \A x \in S : f[x] \in Nat
    PROVE  SumFunctionOnSet(f, S) = Cardinality(Units(f, S))
<1> DEFINE c(s) == CHOOSE x \in s : TRUE
           Sums(g) == g = [s \in SUBSET S |->
                             IF s = {} THEN 0 ELSE f[c(s)] + g[s \ {c(s)}]]
           units == [s \in SUBSET S |-> Cardinality(Units(f, s))]
<1>1. SumFunctionOnSet(f, S) = (CHOOSE g : Sums(g))[S]
  BY DEF SumFunctionOnSet, FoldFunctionOnSet, MapThenFoldSet
<1>2. ASSUME NEW s \in SUBSET S, s # {}
      PROVE  /\ c(s) \in s /\ s \ {c(s)} \in SUBSET S
             /\ Cardinality(Units(f, s))
                   = f[c(s)] + Cardinality(Units(f, s \ {c(s)}))
  <2>1. c(s) \in s
    BY <1>2
  <2> DEFINE x == c(s)  t == s \ {x}
  <2>2. IsFiniteSet(t) /\ x \notin t /\ s = t \cup {x}
        /\ \A y \in t \cup {x} : f[y] \in Nat
    BY <1>2, <2>1, FS_Subset
  <2> HIDE DEF x, t
  <2>3. /\ Cardinality(Units(f, t)) \in Nat /\ f[x] \in Nat
        /\ Cardinality(Units(f, s)) = Cardinality(Units(f, t)) + f[x]
    BY <2>2, UnitsAdd
  <2>4. Cardinality(Units(f, s)) = f[x] + Cardinality(Units(f, t))
    BY <2>3
  <2> QED BY <1>2, <2>1, <2>4 DEF x, t
<1>3. Units(f, {}) = {} /\ Cardinality(Units(f, {})) = 0
  BY FS_EmptySet DEF Units
<1>4. Sums(units)
  BY <1>2, <1>3
<1> DEFINE g == CHOOSE h : Sums(h)
<1>5. Sums(g)
  BY <1>4
<1> HIDE DEF g
<1>6. ASSUME NEW s \in SUBSET S
      PROVE  g[s] = IF s = {} THEN 0 ELSE f[c(s)] + g[s \ {c(s)}]
  BY <1>5
<1> DEFINE B == {T \in SUBSET S : g[T] # Cardinality(Units(f, T))}
<1>7. B = {}
  <2> SUFFICES ASSUME B # {} PROVE FALSE
    OBVIOUS
  <2>0. B \subseteq SUBSET S
    OBVIOUS
  <2>1. PICK T \in B : \A U \in B : U \subseteq T => U = T
    <3> HIDE DEF B
    <3> QED BY <2>0, LeastSet
  <2>2. CASE T = {}
    BY <1>3, <1>6, <2>1, <2>2
  <2>3. CASE T # {}
    <3>1. c(T) \in T /\ T \ {c(T)} \in SUBSET S
          /\ Cardinality(Units(f, T)) = f[c(T)] + Cardinality(Units(f, T \ {c(T)}))
      BY <1>2, <2>1, <2>3
    <3>2. g[T] = f[c(T)] + g[T \ {c(T)}]
      BY <1>6, <2>1, <2>3
    <3>3. T \ {c(T)} \notin B
      BY <2>1, <3>1
    <3>4. g[T \ {c(T)}] = Cardinality(Units(f, T \ {c(T)}))
      BY <3>1, <3>3
    <3> QED BY <2>1, <3>1, <3>2, <3>4
  <2> QED BY <2>2, <2>3
<1> QED BY <1>1, <1>7 DEF g

\* Adding an element adds its value; what a function is elsewhere does not count.
LEMMA SumAdd ==
    ASSUME NEW S, IsFiniteSet(S), NEW x, x \notin S, NEW f,
           \A y \in S \cup {x} : f[y] \in Nat
    PROVE  /\ SumFunctionOnSet(f, S) \in Nat
           /\ SumFunctionOnSet(f, S \cup {x}) = SumFunctionOnSet(f, S) + f[x]
<1>1. IsFiniteSet(S \cup {x})
  BY FS_AddElement
<1>2. /\ SumFunctionOnSet(f, S) = Cardinality(Units(f, S))
      /\ SumFunctionOnSet(f, S \cup {x}) = Cardinality(Units(f, S \cup {x}))
  BY <1>1, SumIsUnits
<1> QED BY <1>2, UnitsAdd

LEMMA SumSame ==
    ASSUME NEW S, IsFiniteSet(S), NEW f, NEW g,
           \A y \in S : g[y] \in Nat /\ f[y] = g[y]
    PROVE  SumFunctionOnSet(f, S) = SumFunctionOnSet(g, S)
<1>1. Units(f, S) = Units(g, S)
  BY DEF Units
<1> QED BY <1>1, SumIsUnits

\* Raising one value raises the sum by as much.
LEMMA SumRaise ==
    ASSUME NEW S, IsFiniteSet(S), NEW x \in S, NEW n \in Nat, NEW f, NEW g,
           \A y \in S : f[y] \in Nat,
           g[x] = f[x] + n, \A y \in S \ {x} : g[y] = f[y]
    PROVE  /\ SumFunctionOnSet(f, S) \in Nat
           /\ SumFunctionOnSet(g, S) = SumFunctionOnSet(f, S) + n
<1> DEFINE T == S \ {x}
<1>1. IsFiniteSet(T) /\ x \notin T /\ S = T \cup {x}
  BY FS_Subset
<1>2. f[x] \in Nat /\ g[x] \in Nat /\ \A y \in T : f[y] = g[y] /\ g[y] \in Nat
  OBVIOUS
<1> HIDE DEF T
<1>3. /\ SumFunctionOnSet(f, T) \in Nat
      /\ SumFunctionOnSet(f, T \cup {x}) = SumFunctionOnSet(f, T) + f[x]
  BY <1>1, <1>2, SumAdd
<1>4. /\ SumFunctionOnSet(g, T) \in Nat
      /\ SumFunctionOnSet(g, T \cup {x}) = SumFunctionOnSet(g, T) + g[x]
  BY <1>1, <1>2, SumAdd
<1>5. SumFunctionOnSet(f, T) = SumFunctionOnSet(g, T)
  BY <1>1, <1>2, SumSame
<1> QED BY <1>1, <1>2, <1>3, <1>4, <1>5
-----------------------------------------------------------------------------
(* The limits that are sums over permits *)

LEMMA SumOfNone == ASSUME NEW f PROVE SumFunctionOnSet(f, {}) = 0
<1>1. Units(f, {}) = {} /\ IsFiniteSet({})
  BY FS_EmptySet DEF Units
<1> QED BY <1>1, SumIsUnits, FS_EmptySet

\* A sum of zeroes is zero.
LEMMA SumOfZeroes ==
    ASSUME NEW S, IsFiniteSet(S), NEW f, \A x \in S : f[x] = 0
    PROVE  SumFunctionOnSet(f, S) = 0
<1>1. Units(f, S) = {}
  BY DEF Units
<1> QED BY <1>1, SumIsUnits, FS_EmptySet

\* The sets the sums run over are finite.
LEMMA SharedFinite ==
    /\ \A d : OfDay(d) \subseteq Permit /\ IsFiniteSet(OfDay(d))
    /\ \A m : OfMonth(m) \subseteq Permit /\ IsFiniteSet(OfMonth(m))
    /\ \A m : IsFiniteSet({d \in Day : MonthOf[d] = m})
    /\ IsFiniteSet(Run)
    /\ Authorized \subseteq Permit /\ IsFiniteSet(Authorized)
<1>1. \A T : T \subseteq Permit => IsFiniteSet(T)
  BY PermitsFinite, FS_Subset
<1>2. \A d : OfDay(d) \subseteq Permit /\ OfMonth(d) \subseteq Permit
  BY DEF OfDay, OfMonth, Granted
<1>3. IsFiniteSet(Run) /\ IsFiniteSet(Day)
  BY BudgetAssumption DEF BudgetAssumption
<1>4. \A m : IsFiniteSet({d \in Day : MonthOf[d] = m})
  BY <1>3, FS_Subset
<1>5. Authorized \subseteq Permit
  BY DEF Authorized
<1> QED BY <1>1, <1>2, <1>3, <1>4, <1>5

LEMMA SpendInit == Init => SpendInv
<1> SUFFICES ASSUME Init PROVE SpendInv
  OBVIOUS
<1> USE BudgetAssumption DEF BudgetAssumption
<1>1. Granted = {} /\ Authorized = {}
  BY DEF Init, Granted, Authorized
<1>2. \A x : OfRun(x) = {} /\ OfDay(x) = {} /\ OfMonth(x) = {}
  BY <1>1 DEF OfRun, OfDay, OfMonth
<1>3. Cardinality(Authorized) = 0 /\ Cardinality({}) = 0
  BY <1>1, FS_EmptySet
<1>4. SumFunction(inflight) = 0
  <2>1. DOMAIN inflight = Run /\ \A r \in Run : inflight[r] = 0
    BY DEF Init
  <2> QED BY <2>1, SumOfZeroes DEF SumFunction
<1>5. \A d \in Day : dcost[d] = 0
  BY DEF Init
<1>6. \A m : Spent(m) = 0
  BY <1>5, SharedFinite, SumOfZeroes DEF Spent
<1>7. \A x : SumFunctionOnSet(cost, OfDay(x)) = 0
             /\ SumFunctionOnSet(cost, OfMonth(x)) = 0
  BY <1>2, SumOfNone
<1>8. ConcurrencyBound
  <2>1. \A r \in Run : {p \in OfRun(r) : status[p] = "authorized"} = {}
    BY <1>2
  <2>2. \A r \in Run : inflight[r] = 0
    BY DEF Init
  <2>3. Concurrency >= 0
    OBVIOUS
  <2> QED BY <1>3, <2>1, <2>2, <2>3 DEF ConcurrencyBound, Authorized
<1>9. CostCaps
  <2>1. DailyCost >= 0 /\ MonthlyCost >= 0
    OBVIOUS
  <2> QED BY <1>7, <2>1 DEF CostCaps
<1> QED BY <1>3, <1>4, <1>5, <1>6, <1>7, <1>8, <1>9 DEF SpendInv, SharedLimits

\* What a grant does to the permits: one more, in its run, on its day and in
\* its month.
LEMMA GrantAdds ==
    ASSUME BudgetInv, NEW w \in Worker, Grant(w),
           NEW p, p = want[w], NEW d, d = DayOf[stamp[w]]
    PROVE  /\ p \in Permit /\ RunOf[w] \in Run /\ d \in Day /\ MonthOf[d] \in Month
           /\ p \notin Granted /\ p \notin Authorized
           /\ status' = [status EXCEPT ![p] = "authorized"]
           /\ cost'[p] = price[w] /\ price[w] \in Nat
           /\ \A q \in Permit : q # p => cost'[q] = cost[q]
           /\ \A x : OfRun(x)' = IF x = RunOf[w] THEN OfRun(x) \cup {p}
                                 ELSE OfRun(x)
           /\ \A x : OfDay(x)' = IF x = d THEN OfDay(x) \cup {p} ELSE OfDay(x)
           /\ \A x : OfMonth(x)' = IF x = MonthOf[d] THEN OfMonth(x) \cup {p}
                                   ELSE OfMonth(x)
           /\ Authorized' = Authorized \cup {p}
<1> USE BudgetAssumption DEF BudgetAssumption
<1>1. TypeOK /\ WantsOwn
  BY DEF BudgetInv
<1>2. pc[w] = "reserve" /\ status[p] = "none"
  BY DEF Grant, Admissible
<1>3. p \in {RunOf[w]} \X Key
  BY <1>1, <1>2 DEF WantsOwn
<1>4. p \in Permit /\ p[1] = RunOf[w] /\ RunOf[w] \in Run
  BY <1>3 DEF Permit
<1>5. stamp[w] \in Time /\ d \in Day /\ MonthOf[d] \in Month /\ price[w] \in Nat
  BY <1>1 DEF TypeOK
<1>6. /\ status' = [status EXCEPT ![p] = "authorized"]
      /\ at' = [at EXCEPT ![p] = stamp[w]]
      /\ cost' = [cost EXCEPT ![p] = price[w]]
  BY DEF Grant
<1>a. /\ status'[p] = "authorized" /\ at'[p] = stamp[w] /\ cost'[p] = price[w]
      /\ \A q \in Permit : q # p => /\ status'[q] = status[q]
                                    /\ at'[q] = at[q] /\ cost'[q] = cost[q]
  <2>1. /\ status \in [Permit -> {"none", "authorized", "consumed",
                                  "transport_failed"}]
        /\ at \in [Permit -> Time] /\ cost \in [Permit -> Nat]
    BY <1>1 DEF TypeOK
  <2> QED BY <1>4, <1>6, <2>1
<1>7. /\ Granted' = Granted \cup {p}
      /\ p \notin Granted /\ Granted \subseteq Permit
      /\ at'[p] = stamp[w]
      /\ \A q \in Granted : at'[q] = at[q]
  BY <1>2, <1>4, <1>a DEF Granted
<1>8. cost'[p] = price[w] /\ \A q \in Permit : q # p => cost'[q] = cost[q]
  BY <1>a
<1>9. Authorized' = Authorized \cup {p} /\ p \notin Authorized
  BY <1>2, <1>4, <1>a DEF Authorized
<1>10. \A x : OfRun(x)' = IF x = RunOf[w] THEN OfRun(x) \cup {p} ELSE OfRun(x)
  BY <1>4, <1>7 DEF OfRun
<1>11. \A x : OfDay(x)' = IF x = d THEN OfDay(x) \cup {p} ELSE OfDay(x)
  BY <1>4, <1>7 DEF OfDay
<1>12. \A x : OfMonth(x)' = IF x = MonthOf[d] THEN OfMonth(x) \cup {p}
                            ELSE OfMonth(x)
  BY <1>4, <1>7 DEF OfMonth
<1> QED BY <1>4, <1>5, <1>6, <1>7, <1>8, <1>9, <1>10, <1>11, <1>12

\* The permits in flight of a run are those of it that are authorized.
InFlight(r) == {q \in OfRun(r) : status[q] = "authorized"}

\* A permit granted to a run is one more in flight in it.
LEMMA GrantInFlight ==
    ASSUME BudgetInv, SpendInv, NEW w \in Worker, Grant(w)
    PROVE  ConcurrencyBound' /\ SumFunction(inflight)' = Cardinality(Authorized)'
<1> USE BudgetAssumption DEF BudgetAssumption
<1> DEFINE r == RunOf[w]
<1>0. PICK p : p = want[w]
  OBVIOUS
<1>1. /\ p \in Permit /\ r \in Run /\ p \notin Granted /\ p \notin Authorized
      /\ status' = [status EXCEPT ![p] = "authorized"]
      /\ \A x : OfRun(x)' = IF x = r THEN OfRun(x) \cup {p} ELSE OfRun(x)
      /\ Authorized' = Authorized \cup {p}
  BY <1>0, GrantAdds
<1>2. /\ inflight \in [Run -> Nat]
      /\ inflight' = [inflight EXCEPT ![r] = @ + 1]
      /\ status \in [Permit -> {"none", "authorized", "consumed",
                                "transport_failed"}]
  BY DEF BudgetInv, TypeOK, Grant
<1>3. /\ inflight' \in [Run -> Nat] /\ inflight'[r] = inflight[r] + 1
      /\ \A x \in Run \ {r} : inflight'[x] = inflight[x]
  BY <1>1, <1>2
<1> HIDE DEF r
<1>4. SumFunction(inflight)' = SumFunction(inflight) + 1
  <2>1. DOMAIN inflight = Run /\ DOMAIN inflight' = Run
    BY <1>2, <1>3
  <2>2. \A x \in Run : inflight[x] \in Nat
    BY <1>2
  <2>3. /\ IsFiniteSet(Run) /\ r \in Run /\ 1 \in Nat
        /\ inflight'[r] = inflight[r] + 1
        /\ \A x \in Run \ {r} : inflight'[x] = inflight[x]
    BY <1>1, <1>3, SharedFinite
  <2>4. SumFunctionOnSet(inflight', Run) = SumFunctionOnSet(inflight, Run) + 1
    BY ONLY <2>2, <2>3, SumRaise
  <2> QED BY <2>1, <2>4 DEF SumFunction
<1>5. /\ Cardinality(Authorized) \in Nat
      /\ Cardinality(Authorized)' = Cardinality(Authorized) + 1
  BY <1>1, SharedFinite, OneMore
<1>6. SumFunction(inflight) = Cardinality(Authorized)
  BY DEF SpendInv
<1>7. Cardinality(Authorized)' <= Concurrency
  <2>1. ~(SumFunction(inflight) >= Concurrency) /\ Concurrency \in Nat
    BY DEF Grant, Deferred
  <2> QED BY <1>5, <1>6, <2>1
<1>8. ASSUME NEW x \in Run
      PROVE  inflight'[x] = Cardinality(InFlight(x)')
  <2>0. inflight[x] = Cardinality(InFlight(x))
    BY DEF SpendInv, SharedLimits, ConcurrencyBound, InFlight
  <2>1. OfRun(x) \subseteq Permit /\ p \notin OfRun(x) /\ p \notin InFlight(x)
    BY <1>1 DEF OfRun, InFlight, Granted
  <2>2. CASE x = r
    <3>1. InFlight(x)' = InFlight(x) \cup {p}
      BY <1>1, <1>2, <2>1, <2>2 DEF InFlight
    <3>2. InFlight(x) \subseteq Permit
      BY <2>1 DEF InFlight
    <3>3. Cardinality(InFlight(x) \cup {p}) = Cardinality(InFlight(x)) + 1
      BY <1>1, <2>1, <3>2, OneMore
    <3> QED BY <1>3, <2>0, <2>2, <3>1, <3>3
  <2>3. CASE x # r
    <3>1. InFlight(x)' = InFlight(x)
      BY <1>1, <1>2, <2>1, <2>3 DEF InFlight
    <3> QED BY <1>3, <2>0, <2>3, <3>1
  <2> QED BY <2>2, <2>3
<1> QED BY <1>4, <1>5, <1>6, <1>7, <1>8
        DEF ConcurrencyBound, InFlight, Authorized

\* What it costs is added to its day and its month, which had room for it.
LEMMA GrantCosts ==
    ASSUME BudgetInv, SpendInv, NEW w \in Worker, Grant(w)
    PROVE  /\ CostCaps'
           /\ \A x \in Day : dcost'[x] = SumFunctionOnSet(cost, OfDay(x))'
           /\ \A x \in Month : Spent(x)' = SumFunctionOnSet(cost, OfMonth(x))'
<1> USE BudgetAssumption DEF BudgetAssumption
<1>0. PICK p, d : p = want[w] /\ d = DayOf[stamp[w]]
  OBVIOUS
<1> DEFINE m == MonthOf[d]  c == price[w]
           DaysOf(x) == {y \in Day : MonthOf[y] = x}
<1>1. /\ p \in Permit /\ d \in Day /\ m \in Month /\ p \notin Granted
      /\ cost'[p] = c /\ c \in Nat
      /\ \A q \in Permit : q # p => cost'[q] = cost[q]
      /\ \A x : OfDay(x)' = IF x = d THEN OfDay(x) \cup {p} ELSE OfDay(x)
      /\ \A x : OfMonth(x)' = IF x = m THEN OfMonth(x) \cup {p} ELSE OfMonth(x)
  BY <1>0, GrantAdds
<1>2. dcost \in [Day -> Nat] /\ cost \in [Permit -> Nat]
  BY DEF BudgetInv, TypeOK
<1>3. /\ dcost'[d] = dcost[d] + c
      /\ \A x \in Day \ {d} : dcost'[x] = dcost[x]
      /\ \A x \in Day : dcost[x] \in Nat
      /\ \A q \in Permit : cost[q] \in Nat /\ cost'[q] \in Nat
  BY <1>0, <1>1, <1>2 DEF Grant
<1>4. dcost[d] + c <= DailyCost /\ Spent(m) + c <= MonthlyCost
  <2>1. ~(dcost[d] + c > DailyCost) /\ ~(Spent(m) + c > MonthlyCost)
    BY <1>0 DEF Grant, CapReached
  <2>2. dcost[d] \in Nat /\ DailyCost \in Nat /\ MonthlyCost \in Nat
    BY <1>1, <1>3
  <2>3. Spent(m) \in Nat
    <3>1. IsFiniteSet(DaysOf(m)) /\ \A x \in DaysOf(m) : dcost[x] \in Nat
      BY <1>3, SharedFinite
    <3> HIDE DEF DaysOf
    <3>2. SumFunctionOnSet(dcost, DaysOf(m)) \in Nat
      BY <3>1, SumIsUnits, UnitsFinite, FS_CardinalityType
    <3> QED BY <3>2 DEF Spent, DaysOf
  <2> HIDE DEF m, c
  <2> QED BY <1>1, <2>1, <2>2, <2>3
<1> HIDE DEF m, c
\* A set of permits that gains p gains its cost; any other keeps its sum.
<1>5. ASSUME NEW S, S \subseteq Permit, p \notin S
      PROVE  /\ SumFunctionOnSet(cost', S) = SumFunctionOnSet(cost, S)
             /\ SumFunctionOnSet(cost', S \cup {p}) = SumFunctionOnSet(cost, S) + c
  <2>1. IsFiniteSet(S)
    BY <1>5, PermitsFinite, FS_Subset
  <2>2. \A q \in S : cost'[q] \in Nat /\ cost[q] \in Nat /\ cost[q] = cost'[q]
    BY <1>1, <1>3, <1>5
  <2>3. \A q \in S \cup {p} : cost'[q] \in Nat
    BY <1>1, <2>2
  <2>4. SumFunctionOnSet(cost', S) = SumFunctionOnSet(cost, S)
    BY <2>1, <2>2, SumSame
  <2>5. SumFunctionOnSet(cost', S \cup {p}) = SumFunctionOnSet(cost', S) + cost'[p]
    BY <1>5, <2>1, <2>3, SumAdd
  <2> QED BY <1>1, <2>4, <2>5
<1>6. \A x : /\ OfDay(x) \subseteq Permit /\ p \notin OfDay(x)
             /\ OfMonth(x) \subseteq Permit /\ p \notin OfMonth(x)
  BY <1>1, SharedFinite DEF OfDay, OfMonth
<1>7. ASSUME NEW x \in Day
      PROVE  /\ dcost'[x] = SumFunctionOnSet(cost', OfDay(x)')
             /\ SumFunctionOnSet(cost', OfDay(x)') <= DailyCost
  <2>0. dcost[x] = SumFunctionOnSet(cost, OfDay(x))
        /\ SumFunctionOnSet(cost, OfDay(x)) <= DailyCost
    BY DEF SpendInv, SharedLimits, CostCaps
  <2>1. CASE x = d
    BY <1>1, <1>3, <1>4, <1>5, <1>6, <2>0, <2>1
  <2>2. CASE x # d
    BY <1>1, <1>3, <1>5, <1>6, <2>0, <2>2
  <2> QED BY <2>1, <2>2
<1>8. ASSUME NEW x \in Month
      PROVE  /\ Spent(x)' = SumFunctionOnSet(cost', OfMonth(x)')
             /\ SumFunctionOnSet(cost', OfMonth(x)') <= MonthlyCost
  <2>0. /\ Spent(x) = SumFunctionOnSet(cost, OfMonth(x))
        /\ SumFunctionOnSet(cost, OfMonth(x)) <= MonthlyCost
        /\ Spent(x) = SumFunctionOnSet(dcost, DaysOf(x))
        /\ Spent(x)' = SumFunctionOnSet(dcost', DaysOf(x))
    BY DEF SpendInv, SharedLimits, CostCaps, Spent
  <2>1. IsFiniteSet(DaysOf(x)) /\ \A y \in DaysOf(x) : y \in Day
    BY SharedFinite
  <2>2. CASE x = m
    <3>1. d \in DaysOf(x)
      BY <1>1, <2>2 DEF m
    <3> HIDE DEF DaysOf
    <3>2. SumFunctionOnSet(dcost', DaysOf(x)) = SumFunctionOnSet(dcost, DaysOf(x)) + c
      BY <1>1, <1>3, <2>1, <3>1, SumRaise
    <3>3. SumFunctionOnSet(cost', OfMonth(x)') = SumFunctionOnSet(cost, OfMonth(x)) + c
      BY <1>1, <1>5, <1>6, <2>2
    <3> QED BY <1>4, <2>0, <2>2, <3>2, <3>3
  <2>3. CASE x # m
    <3>1. d \notin DaysOf(x)
      BY <2>3 DEF m
    <3> HIDE DEF DaysOf
    <3>2. SumFunctionOnSet(dcost', DaysOf(x)) = SumFunctionOnSet(dcost, DaysOf(x))
      <4>1. \A y \in DaysOf(x) : dcost[y] \in Nat /\ dcost'[y] = dcost[y]
        BY <1>3, <2>1, <3>1
      <4> QED BY <2>1, <4>1, SumSame
    <3>3. SumFunctionOnSet(cost', OfMonth(x)') = SumFunctionOnSet(cost, OfMonth(x))
      BY <1>1, <1>5, <1>6, <2>3
    <3> QED BY <2>0, <3>2, <3>3
  <2> QED BY <2>2, <2>3
<1> QED BY <1>7, <1>8 DEF CostCaps

LEMMA GrantSpends ==
    ASSUME BudgetInv, SpendInv, NEW w \in Worker, Grant(w)
    PROVE  SpendInv'
BY GrantInFlight, GrantCosts DEF SpendInv, SharedLimits

\* A settled permit is in flight no more, neither in its run nor in the sum;
\* what it cost stays spent.
LEMMA ConsumeSpends ==
    ASSUME BudgetInv, SpendInv, NEW w \in Worker, NEW verdict,
           verdict \in {"consumed", "transport_failed"}, Consume(w, verdict),
           UNCHANGED <<at, cost, dcost>>
    PROVE  SpendInv'
<1> USE BudgetAssumption DEF BudgetAssumption
<1> DEFINE r == RunOf[w]  p == want[w]
<1>1. /\ status \in [Permit -> {"none", "authorized", "consumed",
                                "transport_failed"}]
      /\ inflight \in [Run -> Nat] /\ r \in Run
      /\ pc[w] = "flying" /\ status[p] = "authorized" /\ inflight[r] >= 1
      /\ status' = [status EXCEPT ![p] = verdict]
      /\ inflight' = [inflight EXCEPT ![r] = @ - 1]
  BY DEF BudgetInv, TypeOK, Consume
<1>2. p \in Permit /\ p[1] = r
  <2>1. p \in {RunOf[w]} \X Key
    BY <1>1 DEF BudgetInv, WantsOwn
  <2> QED BY <1>1, <2>1 DEF Permit
<1>3. /\ status' \in [Permit -> {"none", "authorized", "consumed",
                                 "transport_failed"}]
      /\ \A q \in Permit : status'[q] = "none" <=> status[q] = "none"
  BY ConsumeKeeps
<1>4. /\ Granted' = Granted
      /\ \A x : OfRun(x)' = OfRun(x)
      /\ \A x : OfDay(x)' = OfDay(x)
  BY <1>3, SameGrants DEF BudgetInv
<1>5. \A x : OfMonth(x)' = OfMonth(x)
  BY <1>4 DEF OfMonth
<1>6. /\ inflight' \in [Run -> Nat] /\ inflight[r] = inflight'[r] + 1
      /\ \A x \in Run \ {r} : inflight[x] = inflight'[x]
  BY <1>1
<1>7. p \in Authorized /\ Authorized' = Authorized \ {p}
  BY <1>1, <1>2 DEF Authorized
<1> HIDE DEF r, p
<1>8. /\ Cardinality(Authorized)' \in Nat
      /\ Cardinality(Authorized) = Cardinality(Authorized)' + 1
  <2>1. Authorized' \subseteq Permit /\ p \notin Authorized'
        /\ Authorized = Authorized' \cup {p}
    BY <1>7, SharedFinite
  <2> QED BY <1>2, <2>1, OneMore
<1>9. SumFunction(inflight)' \in Nat
      /\ SumFunction(inflight) = SumFunction(inflight)' + 1
  <2>1. IsFiniteSet(Run) /\ r \in Run /\ 1 \in Nat
        /\ (\A x \in Run : inflight'[x] \in Nat)
        /\ inflight[r] = inflight'[r] + 1
        /\ \A x \in Run \ {r} : inflight[x] = inflight'[x]
    BY <1>1, <1>6, SharedFinite
  <2>2. /\ SumFunctionOnSet(inflight', Run) \in Nat
        /\ SumFunctionOnSet(inflight, Run) = SumFunctionOnSet(inflight', Run) + 1
    BY ONLY <2>1, SumRaise
  <2>3. DOMAIN inflight = Run /\ DOMAIN inflight' = Run
    BY <1>1, <1>6
  <2> QED BY <2>2, <2>3 DEF SumFunction
<1>10. /\ SumFunction(inflight)' = Cardinality(Authorized)'
       /\ Cardinality(Authorized)' <= Concurrency
  <2>1. SumFunction(inflight) = Cardinality(Authorized)
        /\ Cardinality(Authorized) <= Concurrency
    BY DEF SpendInv, SharedLimits, ConcurrencyBound, Authorized
  <2>2. Concurrency \in Nat
    OBVIOUS
  <2> QED BY <1>8, <1>9, <2>1, <2>2
<1>11. ASSUME NEW x \in Run
       PROVE  inflight'[x] = Cardinality(InFlight(x)')
  <2>0. inflight[x] = Cardinality(InFlight(x))
    BY DEF SpendInv, SharedLimits, ConcurrencyBound, InFlight
  <2>1. OfRun(x) \subseteq Permit
    BY DEF OfRun, Granted
  <2>2. CASE x = r
    <3>1. /\ p \in InFlight(x)
          /\ InFlight(x)' = InFlight(x) \ {p}
      BY <1>1, <1>2, <1>4, <2>1, <2>2 DEF InFlight, OfRun, Granted, p
    <3>2. /\ InFlight(x)' \subseteq Permit /\ p \notin InFlight(x)'
          /\ InFlight(x) = InFlight(x)' \cup {p}
      BY <2>1, <3>1 DEF InFlight
    <3>3. /\ Cardinality(InFlight(x)') \in Nat
          /\ Cardinality(InFlight(x)) = Cardinality(InFlight(x)') + 1
      BY <1>2, <3>2, OneMore
    <3>4. inflight'[x] \in Nat /\ inflight[x] = inflight'[x] + 1
      BY <1>6, <2>2
    <3> QED BY <2>0, <3>3, <3>4
  <2>3. CASE x # r
    <3>1. p \notin OfRun(x)
      BY <1>2, <2>3 DEF OfRun
    <3>2. InFlight(x)' = InFlight(x)
      BY <1>1, <1>4, <2>1, <3>1 DEF InFlight, p
    <3> QED BY <1>6, <2>0, <2>3, <3>2
  <2> QED BY <2>2, <2>3
<1>12. ConcurrencyBound'
  BY <1>10, <1>11 DEF ConcurrencyBound, InFlight, Authorized
<1>13. /\ \A x : SumFunctionOnSet(cost, OfDay(x))' = SumFunctionOnSet(cost, OfDay(x))
       /\ \A x : SumFunctionOnSet(cost, OfMonth(x))'
                     = SumFunctionOnSet(cost, OfMonth(x))
       /\ \A x : Spent(x)' = Spent(x)
  BY <1>4, <1>5, Zenon DEF Spent
<1> QED BY <1>10, <1>12, <1>13 DEF SpendInv, SharedLimits, CostCaps

\* Whatever writes none of the tables leaves the sums alone.
LEMMA QuietSpends ==
    ASSUME SpendInv, UNCHANGED <<status, at, cost, inflight, dcost>>
    PROVE  SpendInv'
<1>1. Granted' = Granted /\ Authorized' = Authorized
  BY DEF Granted, Authorized
<1>2. /\ \A x : OfRun(x)' = OfRun(x)
      /\ \A x : OfDay(x)' = OfDay(x)
      /\ \A x : OfMonth(x)' = OfMonth(x)
  BY <1>1 DEF OfRun, OfDay, OfMonth
<1>3. /\ \A x : SumFunctionOnSet(cost, OfDay(x))' = SumFunctionOnSet(cost, OfDay(x))
      /\ \A x : SumFunctionOnSet(cost, OfMonth(x))'
                    = SumFunctionOnSet(cost, OfMonth(x))
      /\ \A x : Spent(x)' = Spent(x)
      /\ SumFunction(inflight)' = SumFunction(inflight)
  BY <1>2, Zenon DEF Spent
<1>4. ConcurrencyBound'
  <2>1. ConcurrencyBound
    BY DEF SpendInv, SharedLimits
  <2> QED BY <1>2, <2>1 DEF ConcurrencyBound
<1> QED BY <1>1, <1>3, <1>4 DEF SpendInv, SharedLimits, CostCaps

LEMMA SpendStep == BudgetInv /\ SpendInv /\ [Next]_vars => SpendInv'
<1> SUFFICES ASSUME BudgetInv, SpendInv, [Next]_vars PROVE SpendInv'
  OBVIOUS
<1>1. ASSUME NEW w \in Worker, NEW code, RecordResponse(w, code) PROVE SpendInv'
  BY <1>1, ConsumeSpends DEF RecordResponse
<1>2. ASSUME NEW w \in Worker, RecordTransportFailure(w) PROVE SpendInv'
  BY <1>2, ConsumeSpends DEF RecordTransportFailure
<1>3. ASSUME NEW w \in Worker,
             \/ Initialize(w) \/ Exhaust(w) \/ Refuse(w)
             \/ SettlementFails(w) \/ Crash(w)
             \/ \E k \in Key, c \in Cost : Begin(w, k, c)
      PROVE  SpendInv'
  BY <1>3, QuietSpends
     DEF Initialize, Exhaust, Refuse, SettlementFails, Crash, Begin, granted
<1>4. CASE Tick \/ UNCHANGED vars
             \/ \E r \in Run : Halt(r, "manual") \/ Halt(r, "schema_drift")
  BY <1>4, QuietSpends DEF Tick, Halt, vars, granted
<1> QED BY <1>1, <1>2, <1>3, <1>4, GrantSpends DEF Next, Fetch

\* Whatever the runs of an approval interleave, and also when settlements fail
\* or workers die, no more permits are in flight than it allows, and no day and
\* no month costs more than it allows.
THEOREM SharedLimitsHold == Spec => []SharedLimits
<1>1. SpendInv => SharedLimits
  BY DEF SpendInv
<1> QED BY <1>1, BudgetHolds, SpendInit, SpendStep, PTL DEF Spec
=============================================================================
