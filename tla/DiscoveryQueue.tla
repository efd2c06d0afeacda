--------------------------- MODULE DiscoveryQueue ---------------------------
(***************************************************************************)
(* The discovery queue of the JJWXC collector: one record per novel, fed   *)
(* by the daily channel catalog and by cohorts uploaded through the API,   *)
(* and hydrated in bounded batches by collector processes: the daily cron  *)
(* job, which takes every record, and targeted runs, which take the        *)
(* records of cohorts.                                                     *)
(*                                                                         *)
(* Nothing locks a record: a collector works through the list it selected, *)
(* and the API writes on what it read.  Time is relative: wait counts the  *)
(* ticks until next_fetch_at (negative: since), age the ticks since a run  *)
(* read its time, so that days can follow one another without end.  No run *)
(* is older than MaxAge, so wait need not go below -MaxAge to compare.     *)
(***************************************************************************)
EXTENDS Integers, FiniteSets

CONSTANTS
    Novel,           \* novels
    Daily,           \* daily collectors (collect_channel_catalog)
    Targeted,        \* targeted collectors (collect_targeted_cohort_queue)
    Caller,          \* API calls of queue_cohort_novels
    CatalogPriority, \* the priority the channel lists a novel with (0: not listed)
    Limit,           \* hydrate_limit
    RetryAfter,      \* six hours, in ticks
    DayLength,       \* one day, in ticks
    MaxAge,          \* bound: ticks a run may last
    MaxDeaths,       \* bound: collectors that die
    MaxCalls         \* bound: API calls

Collector == Daily \cup Targeted
CohortPriority == 120

ASSUME DiscoveryAssumption ==
    /\ IsFiniteSet(Novel)
    /\ CatalogPriority \in [Novel -> 0 .. (CohortPriority - 1)]
    /\ {Limit, RetryAfter, DayLength} \subseteq Nat \ {0}
    /\ MaxAge \in Nat /\ MaxAge <= RetryAfter /\ RetryAfter <= DayLength
    /\ MaxDeaths \in Nat /\ MaxCalls \in Nat

VARIABLES
    rec,        \* JjwxcDiscoveryRecord.status ("none": no record)
    prio,       \* ... its priority; CohortPriority means source_kind uploaded_cohort
    wait,       \* ... ticks until its next_fetch_at
    ready,      \* novels with a public snapshot
    pc,         \* where a collector is
    age,        \* ticks since it read its time
    todo,       \* records it selected and has not taken up
    cur,        \* the record it is hydrating
    cron,       \* ticks since it was started, counted up to DayLength
    cpc,        \* where an API call is
    cjob,       \* its novel
    cread,      \* the status it read
    calls,      \* calls made
    orphans,    \* records whose collector died while hydrating them (ghost)
    deaths      \* collectors that have died

records == <<rec, prio, wait, ready>>
collector == <<pc, age, todo, cur>>
caller == <<cpc, cjob, cread, calls>>
vars == <<rec, prio, wait, ready, pc, age, todo, cur, cron, cpc,
          cjob, cread, calls, orphans, deaths>>

Status == {"none", "pending", "running", "completed", "failed"}

TypeOK ==
    /\ rec \in [Novel -> Status]
    /\ prio \in [Novel -> 0 .. CohortPriority]
    /\ wait \in [Novel -> (-MaxAge) .. DayLength]
    /\ ready \in SUBSET Novel
    /\ pc \in [Collector -> {"idle", "select", "next", "fetch", "dead"}]
    /\ age \in [Collector -> 0 .. MaxAge]
    /\ todo \in [Collector -> SUBSET Novel]
    /\ cur \in [Collector -> Novel \cup {"none"}]
    /\ cron \in [Collector -> 0 .. DayLength]
    /\ cpc \in [Caller -> {"idle", "lookup", "write"}]
    /\ cjob \in [Caller -> Novel \cup {"none"}]
    /\ cread \in [Caller -> Status]
    /\ calls \in 0 .. MaxCalls
    /\ orphans \in SUBSET Novel
    /\ deaths \in 0 .. MaxDeaths

Init ==
    /\ rec = [n \in Novel |-> "none"]
    /\ prio = [n \in Novel |-> 0]
    /\ wait = [n \in Novel |-> 0]
    /\ ready = {}
    /\ pc = [p \in Collector |-> "idle"]
    /\ age = [p \in Collector |-> 0]
    /\ todo = [p \in Collector |-> {}]
    /\ cur = [p \in Collector |-> "none"]
    /\ cron = [p \in Collector |-> DayLength]
    /\ cpc = [c \in Caller |-> "idle"]
    /\ cjob = [c \in Caller |-> "none"]
    /\ cread = [c \in Caller |-> "none"]
    /\ calls = 0
    /\ orphans = {}
    /\ deaths = 0

Active(p) == pc[p] \in {"select", "next", "fetch"}

Goto(p, step) == pc' = [pc EXCEPT ![p] = step]

AtMost(bound, t) == IF t < bound THEN t + 1 ELSE bound
-----------------------------------------------------------------------------
Tick ==
    /\ \A p \in Collector : Active(p) => age[p] < MaxAge
    /\ wait' = [n \in Novel |-> IF wait[n] = -MaxAge THEN wait[n] ELSE wait[n] - 1]
    /\ age' = [p \in Collector |-> IF Active(p) THEN age[p] + 1 ELSE 0]
    /\ cron' = [p \in Collector |-> AtMost(DayLength, cron[p])]
    /\ UNCHANGED <<rec, prio, ready, pc, todo, cur, caller, orphans, deaths>>

(* collect_channel_catalog and collect_targeted_cohort_queue *)

Listed(n) == CatalogPriority[n] > 0

\* The daily run reads its time, fetches the channel and upserts what it
\* lists (_upsert_discovery_queue): new records are due at once, known ones
\* can only gain priority.  The cron schedule starts one run a day.
Discover(p) ==
    /\ p \in Daily
    /\ pc[p] \in {"idle", "dead"}
    /\ cron[p] = DayLength
    /\ rec' = [n \in Novel |-> IF Listed(n) /\ rec[n] = "none" THEN "pending"
                               ELSE rec[n]]
    /\ prio' = [n \in Novel |-> IF CatalogPriority[n] > prio[n]
                                THEN CatalogPriority[n] ELSE prio[n]]
    /\ wait' = [n \in Novel |-> IF Listed(n) /\ rec[n] = "none" THEN 0 ELSE wait[n]]
    /\ age' = [age EXCEPT ![p] = 0]
    /\ cron' = [cron EXCEPT ![p] = 0]
    /\ cur' = [cur EXCEPT ![p] = "none"]
    /\ todo' = [todo EXCEPT ![p] = {}]
    /\ Goto(p, "select")
    /\ UNCHANGED <<ready, caller, orphans, deaths>>

\* A targeted run starts whenever an operator wants it.
StartTargeted(p) ==
    /\ p \in Targeted
    /\ pc[p] \in {"idle", "dead"}
    /\ age' = [age EXCEPT ![p] = 0]
    /\ cron' = [cron EXCEPT ![p] = 0]
    /\ cur' = [cur EXCEPT ![p] = "none"]
    /\ todo' = [todo EXCEPT ![p] = {}]
    /\ Goto(p, "select")
    /\ UNCHANGED <<records, caller, orphans, deaths>>

\* What a run may take: due at the run's own time, which is older than the
\* selection (the daily run scans the book base in between), not running, and
\* of a cohort if the run is targeted.
Due(p) ==
    {n \in Novel : /\ rec[n] \notin {"none", "running"}
                   /\ wait[n] + age[p] <= 0
                   /\ p \in Targeted => prio[n] = CohortPriority}

\* Mutant: the batch is not taken by priority.
BatchUnordered(p, S) ==
    /\ S \subseteq Due(p)
    /\ Cardinality(S) = IF Cardinality(Due(p)) < Limit THEN Cardinality(Due(p))
                        ELSE Limit

\* The batch: as many as the limit allows, by descending priority.  Among
\* equals the code takes the oldest, which is left open here.
Batch(p, S) ==
    /\ S \subseteq Due(p)
    /\ Cardinality(S) = IF Cardinality(Due(p)) < Limit THEN Cardinality(Due(p))
                        ELSE Limit
    /\ \A n \in S, m \in Due(p) \ S : prio[n] >= prio[m]

Select(p) ==
    /\ pc[p] = "select"
    /\ \E S \in SUBSET Novel :
          /\ Batch(p, S)
          /\ todo' = [todo EXCEPT ![p] = S]
    /\ Goto(p, "next")
    /\ UNCHANGED <<records, age, cur, cron, caller, orphans, deaths>>

\* Mark the next record of the list as running, whatever became of it.
Mark(p, n) ==
    /\ pc[p] = "next"
    /\ n \in todo[p]
    /\ rec' = [rec EXCEPT ![n] = "running"]
    /\ todo' = [todo EXCEPT ![p] = @ \ {n}]
    /\ cur' = [cur EXCEPT ![p] = n]
    /\ Goto(p, "fetch")
    /\ UNCHANGED <<prio, wait, ready, age, cron, caller, orphans,
                   deaths>>

\* Mutant: the record is completed before its snapshot is stored.
StoreLater(p) ==
    /\ pc[p] = "fetch"
    /\ rec' = [rec EXCEPT ![cur[p]] = "completed"]
    /\ wait' = [wait EXCEPT ![cur[p]] = DayLength - age[p]]
    /\ cur' = [cur EXCEPT ![p] = "none"]
    /\ Goto(p, "next")
    /\ UNCHANGED <<prio, ready, age, todo, cron, caller, orphans,
                   deaths>>

\* Fetched, parsed and stored with its chapters in one transaction.
Store(p) ==
    /\ pc[p] = "fetch"
    /\ rec' = [rec EXCEPT ![cur[p]] = "completed"]
    /\ wait' = [wait EXCEPT ![cur[p]] = DayLength - age[p]]
    /\ ready' = ready \cup {cur[p]}
    /\ orphans' = orphans \ {cur[p]}
    /\ cur' = [cur EXCEPT ![p] = "none"]
    /\ Goto(p, "next")
    /\ UNCHANGED <<prio, age, todo, cron, caller, deaths>>

\* Mutant: the failed record keeps its status.
FetchFailsUnmarked(p) ==
    /\ pc[p] = "fetch"
    /\ wait' = [wait EXCEPT ![cur[p]] = RetryAfter - age[p]]
    /\ cur' = [cur EXCEPT ![p] = "none"]
    /\ Goto(p, "next")
    /\ UNCHANGED <<rec, prio, ready, age, todo, cron, caller, orphans, deaths>>

\* The source, a parser, the scope check or a conflicting snapshot raises:
\* next_fetch_at is six hours after the run's time, not after the failure.
FetchFails(p) ==
    /\ pc[p] = "fetch"
    /\ rec' = [rec EXCEPT ![cur[p]] = "failed"]
    /\ wait' = [wait EXCEPT ![cur[p]] = RetryAfter - age[p]]
    /\ orphans' = orphans \ {cur[p]}
    /\ cur' = [cur EXCEPT ![p] = "none"]
    /\ Goto(p, "next")
    /\ UNCHANGED <<prio, ready, age, todo, cron, caller, deaths>>

Finish(p) ==
    /\ pc[p] = "next"
    /\ todo[p] = {}
    /\ Goto(p, "idle")
    /\ age' = [age EXCEPT ![p] = 0]
    /\ UNCHANGED <<records, todo, cur, cron, caller, orphans, deaths>>

\* The process is killed, or ended by an exception it does not handle, such
\* as the IntegrityError of a snapshot two collectors insert.
Die(p) ==
    /\ deaths < MaxDeaths
    /\ Active(p)
    /\ deaths' = deaths + 1
    /\ orphans' = IF pc[p] = "fetch" THEN orphans \cup {cur[p]} ELSE orphans
    /\ Goto(p, "dead")
    /\ age' = [age EXCEPT ![p] = 0]
    /\ UNCHANGED <<records, todo, cur, cron, caller>>
-----------------------------------------------------------------------------
(* queue_cohort_novels *)

\* Novels without a public snapshot ...
CohortRead(c, n) ==
    /\ cpc[c] = "idle"
    /\ calls < MaxCalls
    /\ n \notin ready
    /\ calls' = calls + 1
    /\ cpc' = [cpc EXCEPT ![c] = "lookup"]
    /\ cjob' = [cjob EXCEPT ![c] = n]
    /\ UNCHANGED <<records, collector, cron, cread, orphans, deaths>>

\* ... are looked up in the queue by a second query ...
CohortLookup(c) ==
    /\ cpc[c] = "lookup"
    /\ cpc' = [cpc EXCEPT ![c] = "write"]
    /\ cread' = [cread EXCEPT ![c] = rec[cjob[c]]]
    /\ UNCHANGED <<records, collector, cron, cjob, calls, orphans, deaths>>

\* ... and queued at once, by the status that was read: a missing record is
\* inserted (or, if it exists by now, the call fails), a running one only
\* gains priority, a pending one is due now, any other is pending again.
CohortWrite(c) ==
    LET n == cjob[c] IN
    /\ cpc[c] = "write"
    /\ \/ /\ cread[c] = "none" => rec[n] = "none"
          /\ rec' = IF cread[c] \in {"running", "pending"} THEN rec
                    ELSE [rec EXCEPT ![n] = "pending"]
          /\ wait' = IF cread[c] = "running" THEN wait ELSE [wait EXCEPT ![n] = 0]
          /\ prio' = [prio EXCEPT ![n] = CohortPriority]
       \/ /\ cread[c] = "none" /\ rec[n] # "none"
          /\ UNCHANGED <<rec, wait, prio>>
    /\ cpc' = [cpc EXCEPT ![c] = "idle"]
    /\ cjob' = [cjob EXCEPT ![c] = "none"]
    /\ cread' = [cread EXCEPT ![c] = "none"]
    /\ UNCHANGED <<ready, collector, cron, calls, orphans, deaths>>

Collect(p) ==
    \/ Discover(p) \/ Select(p) \/ Finish(p)
    \/ \E n \in Novel : Mark(p, n)
    \/ Store(p) \/ FetchFails(p)

Next ==
    \/ Tick
    \/ \E p \in Collector : Collect(p) \/ StartTargeted(p) \/ Die(p)
    \/ \E c \in Caller : \/ \E n \in Novel : CohortRead(c, n)
                         \/ CohortLookup(c) \/ CohortWrite(c)

Spec == Init /\ [][Next]_vars

\* Time passes, the cron job is started every day, and a collector that does
\* not die goes on.  Nothing is assumed of targeted runs or of callers.
FairSpec ==
    /\ Spec
    /\ WF_vars(Tick)
    /\ \A p \in Collector : WF_vars(Collect(p))
-----------------------------------------------------------------------------
(* Properties *)

\* A record is completed only for a novel that has a public snapshot, so that
\* a cohort never counts a novel it has no data of, whatever overlapping
\* collectors and API calls wrote over one another.
CompletedMeansReady ==
    \A n \in Novel : rec[n] = "completed" => n \in ready

\* A running record is being hydrated, or was when its collector died: no
\* overlap of two collectors and an API call leaves one behind otherwise.
RunningIsOwned ==
    \A n \in Novel : rec[n] = "running" =>
        \/ n \in orphans
        \/ \E p \in Collector : pc[p] = "fetch" /\ cur[p] = n

\* A record that is being hydrated does not stay so for ever, unless its
\* collector died: no later run takes a running record up again, though the
\* table is a "Checkpoint for resumable, bounded expansion"
\* (jjwxc/persistence.py:311).
HydrationEnds ==
    \A n \in Novel : rec[n] = "running" ~> (rec[n] # "running" \/ n \in orphans)

\* The records that the order by priority and the limit may put before a
\* record for ever: completed ones are due again every day.
Outranking(n) ==
    {m \in Novel \ (orphans \cup {n}) : rec[m] # "none" /\ prio[m] >= prio[n]}

\* The backlog is worked off day by day (docs/cloud-deployment.md:14), as far
\* as the limit reaches: a pending record is hydrated, successfully or not, or
\* lost with the collector that was hydrating it, unless there are as many
\* records of its priority or a higher one as a day's batch holds.  Those may
\* starve it, which no line of the documentation says.
BacklogIsDone ==
    \A n \in Novel : rec[n] = "pending" ~>
                        \/ rec[n] \in {"completed", "failed"} \/ n \in orphans
                        \/ Cardinality(Outranking(n)) >= Limit
-----------------------------------------------------------------------------
(* The inductive invariant behind the safety properties *)

\* Who is hydrating or queueing has a novel.
HoldsNovel ==
    /\ \A p \in Collector : pc[p] = "fetch" => cur[p] \in Novel
    /\ \A c \in Caller : cpc[c] # "idle" => cjob[c] \in Novel

DiscoveryInv ==
    /\ TypeOK
    /\ HoldsNovel
    /\ CompletedMeansReady
    /\ RunningIsOwned
=============================================================================
