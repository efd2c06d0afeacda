------------------------ MODULE DiscoveryQueueProofs ------------------------
(***************************************************************************)
(* Proofs about DiscoveryQueue: DiscoveryInv is inductive, so its          *)
(* conjuncts hold for any number of novels, collectors, calls and deaths.  *)
(***************************************************************************)
EXTENDS DiscoveryQueue, TLAPS

\* The initial queue is empty and nobody holds a novel.
LEMMA InitInv == Init => DiscoveryInv
  <1> SUFFICES ASSUME Init PROVE DiscoveryInv
    OBVIOUS
  <1>1. TypeOK
    BY DiscoveryAssumption DEF Init, TypeOK, Status, CohortPriority
  <1>2. HoldsNovel /\ CompletedMeansReady /\ RunningIsOwned
    BY DEF Init, HoldsNovel, CompletedMeansReady, RunningIsOwned
  <1> QED
    BY <1>1, <1>2 DEF DiscoveryInv

\* The clock only moves waits and ages, within their bounds.
LEMMA TickKeeps == DiscoveryInv /\ Tick => DiscoveryInv'
  <1> SUFFICES ASSUME DiscoveryInv, Tick PROVE DiscoveryInv'
    OBVIOUS
  <1>1. wait' \in [Novel -> (-MaxAge) .. DayLength]
    <2>1. \A n \in Novel : wait[n] \in (-MaxAge) .. DayLength
      BY DEF DiscoveryInv, TypeOK
    <2>2. \A n \in Novel :
            (IF wait[n] = -MaxAge THEN wait[n] ELSE wait[n] - 1)
               \in (-MaxAge) .. DayLength
      BY <2>1, DiscoveryAssumption
    <2> QED
      BY <2>2 DEF Tick
  <1>2. age' \in [Collector -> 0 .. MaxAge]
    <2>1. \A p \in Collector : age[p] \in 0 .. MaxAge
      BY DEF DiscoveryInv, TypeOK
    <2>2. \A p \in Collector :
            (IF Active(p) THEN age[p] + 1 ELSE 0) \in 0 .. MaxAge
      BY <2>1, DiscoveryAssumption DEF Tick
    <2> QED
      BY <2>2 DEF Tick
  <1>3. cron' \in [Collector -> 0 .. DayLength]
    <2>1. \A p \in Collector : AtMost(DayLength, cron[p]) \in 0 .. DayLength
      BY DiscoveryAssumption DEF DiscoveryInv, TypeOK, AtMost
    <2> QED
      BY <2>1 DEF Tick
  <1>4. TypeOK'
    BY <1>1, <1>2, <1>3 DEF Tick, DiscoveryInv, TypeOK, caller
  <1>5. HoldsNovel' /\ CompletedMeansReady' /\ RunningIsOwned'
    BY DEF Tick, DiscoveryInv, HoldsNovel, CompletedMeansReady, RunningIsOwned,
           caller
  <1> QED
    BY <1>4, <1>5 DEF DiscoveryInv

\* The catalog only adds pending records and raises priorities.
LEMMA DiscoverKeeps ==
  ASSUME DiscoveryInv, NEW p \in Collector, Discover(p) PROVE DiscoveryInv'
  <1>1. TypeOK'
    BY DiscoveryAssumption
    DEF DiscoveryInv, TypeOK, HoldsNovel, Status, Discover, Listed, Goto, caller, CohortPriority
  <1>2. HoldsNovel'
    BY DEF DiscoveryInv, TypeOK, HoldsNovel, Discover, Listed, Goto, caller, CohortPriority
  <1>3. CompletedMeansReady'
    BY DEF DiscoveryInv, TypeOK, HoldsNovel, CompletedMeansReady, Discover, Listed, Goto, caller, CohortPriority
  <1>4. RunningIsOwned'
    BY DEF DiscoveryInv, TypeOK, HoldsNovel, RunningIsOwned, Discover, Listed, Goto, caller, CohortPriority
  <1> QED
    BY <1>1, <1>2, <1>3, <1>4 DEF DiscoveryInv

\* A targeted run starts without a record.
LEMMA StartTargetedKeeps ==
  ASSUME DiscoveryInv, NEW p \in Collector, StartTargeted(p) PROVE DiscoveryInv'
  <1>1. TypeOK'
    BY DiscoveryAssumption
    DEF DiscoveryInv, TypeOK, HoldsNovel, Status, StartTargeted, Goto, records, caller
  <1>2. HoldsNovel'
    BY DEF DiscoveryInv, TypeOK, HoldsNovel, StartTargeted, Goto, records, caller
  <1>3. CompletedMeansReady'
    BY DEF DiscoveryInv, TypeOK, HoldsNovel, CompletedMeansReady, StartTargeted, Goto, records, caller
  <1>4. RunningIsOwned'
    BY DEF DiscoveryInv, TypeOK, HoldsNovel, RunningIsOwned, StartTargeted, Goto, records, caller
  <1> QED
    BY <1>1, <1>2, <1>3, <1>4 DEF DiscoveryInv

\* Selecting writes no record.
LEMMA SelectKeeps ==
  ASSUME DiscoveryInv, NEW p \in Collector, Select(p) PROVE DiscoveryInv'
  <1>1. TypeOK'
    BY DiscoveryAssumption
    DEF DiscoveryInv, TypeOK, HoldsNovel, Status, Select, Goto, records, caller
  <1>2. HoldsNovel'
    BY DEF DiscoveryInv, TypeOK, HoldsNovel, Select, Goto, records, caller
  <1>3. CompletedMeansReady'
    BY DEF DiscoveryInv, TypeOK, HoldsNovel, CompletedMeansReady, Select, Goto, records, caller
  <1>4. RunningIsOwned'
    BY DEF DiscoveryInv, TypeOK, HoldsNovel, RunningIsOwned, Select, Goto, records, caller
  <1> QED
    BY <1>1, <1>2, <1>3, <1>4 DEF DiscoveryInv

\* The record that is marked is the one its collector holds.
LEMMA MarkKeeps ==
  ASSUME DiscoveryInv, NEW p \in Collector, NEW n \in Novel, Mark(p, n) PROVE DiscoveryInv'
  <1>1. TypeOK'
    BY DiscoveryAssumption
    DEF DiscoveryInv, TypeOK, HoldsNovel, Status, Mark, Goto, caller
  <1>2. HoldsNovel'
    BY DEF DiscoveryInv, TypeOK, HoldsNovel, Mark, Goto, caller
  <1>3. CompletedMeansReady'
    BY DEF DiscoveryInv, TypeOK, HoldsNovel, CompletedMeansReady, Mark, Goto, caller
  <1>4. RunningIsOwned'
    BY DEF DiscoveryInv, TypeOK, HoldsNovel, RunningIsOwned, Mark, Goto, caller
  <1> QED
    BY <1>1, <1>2, <1>3, <1>4 DEF DiscoveryInv

\* Whoever else marked the record, storing it ends its running state.
LEMMA StoreKeeps ==
  ASSUME DiscoveryInv, NEW p \in Collector, Store(p) PROVE DiscoveryInv'
  <1>1. TypeOK'
    BY DiscoveryAssumption
    DEF DiscoveryInv, TypeOK, HoldsNovel, Status, Store, Goto, caller
  <1>2. HoldsNovel'
    BY DEF DiscoveryInv, TypeOK, HoldsNovel, Store, Goto, caller
  <1>3. CompletedMeansReady'
    BY DEF DiscoveryInv, TypeOK, HoldsNovel, CompletedMeansReady, Store, Goto, caller
  <1>4. RunningIsOwned'
    BY DEF DiscoveryInv, TypeOK, HoldsNovel, RunningIsOwned, Store, Goto, caller
  <1> QED
    BY <1>1, <1>2, <1>3, <1>4 DEF DiscoveryInv

\* So does a failure.
LEMMA FetchFailsKeeps ==
  ASSUME DiscoveryInv, NEW p \in Collector, FetchFails(p) PROVE DiscoveryInv'
  <1>1. TypeOK'
    BY DiscoveryAssumption
    DEF DiscoveryInv, TypeOK, HoldsNovel, Status, FetchFails, Goto, caller
  <1>2. HoldsNovel'
    BY DEF DiscoveryInv, TypeOK, HoldsNovel, FetchFails, Goto, caller
  <1>3. CompletedMeansReady'
    BY DEF DiscoveryInv, TypeOK, HoldsNovel, CompletedMeansReady, FetchFails, Goto, caller
  <1>4. RunningIsOwned'
    BY DEF DiscoveryInv, TypeOK, HoldsNovel, RunningIsOwned, FetchFails, Goto, caller
  <1> QED
    BY <1>1, <1>2, <1>3, <1>4 DEF DiscoveryInv

\* A run that is over holds no record.
LEMMA FinishKeeps ==
  ASSUME DiscoveryInv, NEW p \in Collector, Finish(p) PROVE DiscoveryInv'
  <1>1. TypeOK'
    BY DiscoveryAssumption
    DEF DiscoveryInv, TypeOK, HoldsNovel, Status, Finish, Goto, records, caller
  <1>2. HoldsNovel'
    BY DEF DiscoveryInv, TypeOK, HoldsNovel, Finish, Goto, records, caller
  <1>3. CompletedMeansReady'
    BY DEF DiscoveryInv, TypeOK, HoldsNovel, CompletedMeansReady, Finish, Goto, records, caller
  <1>4. RunningIsOwned'
    BY DEF DiscoveryInv, TypeOK, HoldsNovel, RunningIsOwned, Finish, Goto, records, caller
  <1> QED
    BY <1>1, <1>2, <1>3, <1>4 DEF DiscoveryInv

\* A collector that dies while hydrating leaves an orphan.
LEMMA DieKeeps ==
  ASSUME DiscoveryInv, NEW p \in Collector, Die(p) PROVE DiscoveryInv'
  <1>1. TypeOK'
    BY DiscoveryAssumption
    DEF DiscoveryInv, TypeOK, HoldsNovel, Status, Die, Active, Goto, records, caller
  <1>2. HoldsNovel'
    BY DEF DiscoveryInv, TypeOK, HoldsNovel, Die, Active, Goto, records, caller
  <1>3. CompletedMeansReady'
    BY DEF DiscoveryInv, TypeOK, HoldsNovel, CompletedMeansReady, Die, Active, Goto, records, caller
  <1>4. RunningIsOwned'
    BY DEF DiscoveryInv, TypeOK, HoldsNovel, RunningIsOwned, Die, Active, Goto, records, caller
  <1> QED
    BY <1>1, <1>2, <1>3, <1>4 DEF DiscoveryInv

\* The calls of the API only make records pending.
LEMMA CohortReadKeeps ==
  ASSUME DiscoveryInv, NEW c \in Caller, NEW n \in Novel, CohortRead(c, n) PROVE DiscoveryInv'
  <1>1. TypeOK'
    BY DiscoveryAssumption
    DEF DiscoveryInv, TypeOK, HoldsNovel, Status, CohortRead, records, collector, caller
  <1>2. HoldsNovel'
    BY DEF DiscoveryInv, TypeOK, HoldsNovel, CohortRead, records, collector, caller
  <1>3. CompletedMeansReady'
    BY DEF DiscoveryInv, TypeOK, HoldsNovel, CompletedMeansReady, CohortRead, records, collector, caller
  <1>4. RunningIsOwned'
    BY DEF DiscoveryInv, TypeOK, HoldsNovel, RunningIsOwned, CohortRead, records, collector, caller
  <1> QED
    BY <1>1, <1>2, <1>3, <1>4 DEF DiscoveryInv

\* The lookup only reads.
LEMMA CohortLookupKeeps ==
  ASSUME DiscoveryInv, NEW c \in Caller, CohortLookup(c) PROVE DiscoveryInv'
  <1>1. TypeOK'
    BY DiscoveryAssumption
    DEF DiscoveryInv, TypeOK, HoldsNovel, Status, CohortLookup, records, collector, caller
  <1>2. HoldsNovel'
    BY DEF DiscoveryInv, TypeOK, HoldsNovel, CohortLookup, records, collector, caller
  <1>3. CompletedMeansReady'
    BY DEF DiscoveryInv, TypeOK, HoldsNovel, CompletedMeansReady, CohortLookup, records, collector, caller
  <1>4. RunningIsOwned'
    BY DEF DiscoveryInv, TypeOK, HoldsNovel, RunningIsOwned, CohortLookup, records, collector, caller
  <1> QED
    BY <1>1, <1>2, <1>3, <1>4 DEF DiscoveryInv

\* A write on a stale status never completes or runs a record.
LEMMA CohortWriteKeeps ==
  ASSUME DiscoveryInv, NEW c \in Caller, CohortWrite(c) PROVE DiscoveryInv'
  <1>1. TypeOK'
    BY DiscoveryAssumption
    DEF DiscoveryInv, TypeOK, HoldsNovel, Status, CohortWrite, collector, caller, CohortPriority
  <1>2. HoldsNovel'
    BY DEF DiscoveryInv, TypeOK, HoldsNovel, CohortWrite, collector, caller, CohortPriority
  <1>3. CompletedMeansReady'
    BY DEF DiscoveryInv, TypeOK, HoldsNovel, CompletedMeansReady, CohortWrite, collector, caller, CohortPriority
  <1>4. RunningIsOwned'
    BY DEF DiscoveryInv, TypeOK, HoldsNovel, RunningIsOwned, CohortWrite, collector, caller, CohortPriority
  <1> QED
    BY <1>1, <1>2, <1>3, <1>4 DEF DiscoveryInv

\* Every step of a collector, a caller or the clock keeps the invariant.
LEMMA NextInv == DiscoveryInv /\ [Next]_vars => DiscoveryInv'
  <1> SUFFICES ASSUME DiscoveryInv, [Next]_vars PROVE DiscoveryInv'
    OBVIOUS
  <1>1. CASE Tick
    BY <1>1, TickKeeps
  <1>2. ASSUME NEW p \in Collector, Collect(p) \/ StartTargeted(p) \/ Die(p)
        PROVE DiscoveryInv'
    BY <1>2, DiscoverKeeps, StartTargetedKeeps, SelectKeeps, MarkKeeps,
       StoreKeeps, FetchFailsKeeps, FinishKeeps, DieKeeps DEF Collect
  <1>3. ASSUME NEW c \in Caller,
               \/ \E n \in Novel : CohortRead(c, n)
               \/ CohortLookup(c) \/ CohortWrite(c)
        PROVE DiscoveryInv'
    BY <1>3, CohortReadKeeps, CohortLookupKeeps, CohortWriteKeeps
  <1>4. CASE UNCHANGED vars
    BY <1>4 DEF vars, DiscoveryInv, TypeOK, HoldsNovel, CompletedMeansReady,
                RunningIsOwned
  <1> QED
    BY <1>1, <1>2, <1>3, <1>4 DEF Next

\* The invariant holds in every reachable state.
LEMMA InvAlways == Spec => []DiscoveryInv
  BY InitInv, NextInv, PTL DEF Spec

\* Overlapping collectors and API calls never mark a novel completed that has
\* no public snapshot.
THEOREM CompletionIsEarned == Spec => []CompletedMeansReady
  <1>1. DiscoveryInv => CompletedMeansReady
    BY DEF DiscoveryInv
  <1> QED
    BY InvAlways, <1>1, PTL

\* Only the death of a collector leaves a running record without anyone
\* hydrating it, whatever collectors and callers wrote over one another.
THEOREM OnlyDeathsOrphan == Spec => []RunningIsOwned
  <1>1. DiscoveryInv => RunningIsOwned
    BY DEF DiscoveryInv
  <1> QED
    BY InvAlways, <1>1, PTL
=============================================================================
