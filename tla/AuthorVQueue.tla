---------------------------- MODULE AuthorVQueue ----------------------------
(***************************************************************************)
(* The durable queue of author-authorized click imports: jobs enqueued by  *)
(* the API, worker processes that requeue expired leases, claim a job,     *)
(* import it and record the verdict, and operators who retry failed jobs.  *)
(*                                                                         *)
(* Sessions keep what they read (expire_on_commit=False) and write only    *)
(* the columns that differ from it, so a worker or an API call writes back *)
(* what it decided on rows that others may have changed since: reading and *)
(* writing are separate actions wherever no row lock connects them.  Time  *)
(* is abstract: a lease may run out at any moment, also while its worker   *)
(* is still at work.                                                       *)
(***************************************************************************)
EXTENDS Naturals, FiniteSets

CONSTANTS
    Job,         \* jobs: one CrawlRun and its CrawlTask each
    Worker,      \* author_v_worker processes
    Caller,      \* API calls of retry_author_v_job
    Novel,       \* novels
    NovelsOf,    \* the novels of a job's export
    RetryLimit,  \* attempts after which a job is not retried (3)
    MaxVersion,  \* bound: public observations of each novel
    MaxDeaths    \* bound: worker deaths other than by a constraint

ASSUME QueueAssumption ==
    /\ NovelsOf \in [Job -> SUBSET Novel]
    /\ RetryLimit \in Nat \ {0}
    /\ MaxVersion \in [Novel -> Nat \ {0}]
    /\ MaxDeaths \in Nat

VARIABLES
    task,      \* CrawlTask.status ("none": not enqueued)
    run,       \* CrawlRun.status
    attempts,  \* CrawlTask.attempt_count, counted up to RetryLimit
    lease,     \* CrawlTask.lease_until against the clock
    public,    \* version of a novel's newest public values (0: not collected)
    snap,      \* public version a job's snapshot of a novel was built on (0: none)
    pc,        \* where a worker is
    job,       \* the job it works on
    stale,     \* jobs it read as running with an expired lease
    known,     \* attempt counts it read with them
    plan,      \* the snapshots it is about to insert
    dirty,     \* the columns a failing worker is about to write
    cpc,       \* where a retry call is
    cjob,      \* its job
    cdirty,    \* the columns it is about to write
    deaths,    \* worker deaths so far
    doubled    \* history: jobs that two workers had at once

queue == <<task, run, attempts, lease>>
worker == <<pc, job, stale, known, plan, dirty>>
caller == <<cpc, cjob, cdirty>>
vars == <<task, run, attempts, lease, public, snap, pc, job, stale, known,
          plan, dirty, cpc, cjob, cdirty, deaths, doubled>>

Version == Nat
Count == 0 .. RetryLimit
WorkerStep == {"idle", "requeue", "claim", "import", "commit", "commit_rejected",
               "succeed", "fail", "fail_run", "fail_write", "dead"}
Column == {"task", "lease", "run"}

TypeOK ==
    /\ task \in [Job -> {"none", "pending", "running", "succeeded", "failed"}]
    /\ run \in [Job -> {"none", "pending", "running", "completed", "failed"}]
    /\ attempts \in [Job -> Count]
    /\ lease \in [Job -> {"none", "live", "expired"}]
    /\ public \in [Novel -> Version]
    /\ snap \in [Job -> [Novel -> Version]]
    /\ pc \in [Worker -> WorkerStep]
    /\ job \in [Worker -> Job \cup {"none"}]
    /\ stale \in [Worker -> SUBSET Job]
    /\ known \in [Worker -> [Job -> Count]]
    /\ plan \in [Worker -> [Novel -> Version]]
    /\ dirty \in [Worker -> SUBSET Column]
    /\ cpc \in [Caller -> {"idle", "task", "write"}]
    /\ cjob \in [Caller -> Job \cup {"none"}]
    /\ cdirty \in [Caller -> SUBSET Column]
    /\ deaths \in 0 .. MaxDeaths
    /\ doubled \subseteq Job

Nothing == [n \in Novel |-> 0]
NoCount == [j \in Job |-> 0]

Init ==
    /\ task = [j \in Job |-> "none"]
    /\ run = [j \in Job |-> "none"]
    /\ attempts = [j \in Job |-> 0]
    /\ lease = [j \in Job |-> "none"]
    /\ public \in [Novel -> {0, 1}]
    /\ snap = [j \in Job |-> Nothing]
    /\ pc = [w \in Worker |-> "idle"]
    /\ job = [w \in Worker |-> "none"]
    /\ stale = [w \in Worker |-> {}]
    /\ known = [w \in Worker |-> NoCount]
    /\ plan = [w \in Worker |-> Nothing]
    /\ dirty = [w \in Worker |-> {}]
    /\ cpc = [c \in Caller |-> "idle"]
    /\ cjob = [c \in Caller |-> "none"]
    /\ cdirty = [c \in Caller |-> {}]
    /\ deaths = 0
    /\ doubled = {}

Goto(w, step) == pc' = [pc EXCEPT ![w] = step]
-----------------------------------------------------------------------------
(* The environment: the API, the daily collection, the clock *)

\* enqueue_author_v_job: run and task in one transaction.
Enqueue(j) ==
    /\ task[j] = "none"
    /\ task' = [task EXCEPT ![j] = "pending"]
    /\ run' = [run EXCEPT ![j] = "pending"]
    /\ UNCHANGED <<attempts, lease, public, snap, worker, caller, deaths, doubled>>

\* The daily collection stores newer public values of a novel.
Refresh(n) ==
    /\ public[n] < MaxVersion[n]
    /\ public' = [public EXCEPT ![n] = @ + 1]
    /\ UNCHANGED <<queue, snap, worker, caller, deaths, doubled>>

\* Ten minutes pass.
Expire(j) ==
    /\ lease[j] = "live"
    /\ lease' = [lease EXCEPT ![j] = "expired"]
    /\ UNCHANGED <<task, run, attempts, public, snap, worker, caller, deaths, doubled>>

Retryable(j) == task[j] = "failed" /\ attempts[j] < RetryLimit

\* The columns a session writes when it gives them these values.
Changed(column, old, new) == IF old # new THEN {column} ELSE {}

\* retry_author_v_job reads the run ...
RetryReadRun(c, j) ==
    /\ cpc[c] = "idle"
    /\ task[j] # "none"
    /\ cpc' = [cpc EXCEPT ![c] = "task"]
    /\ cjob' = [cjob EXCEPT ![c] = j]
    /\ cdirty' = [cdirty EXCEPT ![c] = Changed("run", run[j], "pending")]
    /\ UNCHANGED <<queue, public, snap, worker, deaths, doubled>>

RetryDone(c) ==
    /\ cpc' = [cpc EXCEPT ![c] = "idle"]
    /\ cjob' = [cjob EXCEPT ![c] = "none"]
    /\ cdirty' = [cdirty EXCEPT ![c] = {}]

\* ... then the task, refuses when it is not retryable ...
RetryReadTask(c) ==
    LET j == cjob[c] IN
    /\ cpc[c] = "task"
    /\ \/ /\ Retryable(j)
          /\ cpc' = [cpc EXCEPT ![c] = "write"]
          /\ cdirty' = [cdirty EXCEPT ![c] = @ \cup Changed("task", task[j], "pending")
                                             \cup Changed("lease", lease[j], "none")]
          /\ UNCHANGED cjob
       \/ /\ ~Retryable(j)
          /\ RetryDone(c)
    /\ UNCHANGED <<queue, public, snap, worker, deaths, doubled>>

\* What a session writes of a job: the columns it changed, whatever became of
\* them since.
Flush(j, columns, taskTo, runTo) ==
    /\ task' = [task EXCEPT ![j] = IF "task" \in columns THEN taskTo ELSE @]
    /\ lease' = [lease EXCEPT ![j] = IF "lease" \in columns THEN "none" ELSE @]
    /\ run' = [run EXCEPT ![j] = IF "run" \in columns THEN runTo ELSE @]

\* ... and puts the job back.
RetryWrite(c) ==
    /\ cpc[c] = "write"
    /\ Flush(cjob[c], cdirty[c], "pending", "pending")
    /\ RetryDone(c)
    /\ UNCHANGED <<attempts, public, snap, worker, deaths, doubled>>
-----------------------------------------------------------------------------
(* process_next_author_v_job *)

\* The running tasks whose lease is over, read without a lock.
Scan(w) ==
    /\ pc[w] = "idle"
    /\ stale' = [stale EXCEPT ![w] = {j \in Job : task[j] = "running"
                                                  /\ lease[j] = "expired"}]
    /\ known' = [known EXCEPT ![w] = [j \in Job |-> IF j \in stale'[w]
                                                  THEN attempts[j] ELSE 0]]
    /\ Goto(w, "requeue")
    /\ UNCHANGED <<queue, public, snap, job, plan, dirty, caller, deaths,
                   doubled>>

\* They are put back in one transaction, whatever became of them since.
Requeue(w) ==
    /\ pc[w] = "requeue"
    /\ task' = [j \in Job |-> IF j \in stale[w] THEN "pending" ELSE task[j]]
    /\ lease' = [j \in Job |-> IF j \in stale[w] THEN "none" ELSE lease[j]]
    /\ Goto(w, "claim")
    /\ UNCHANGED <<run, attempts, public, snap, job, stale, known, plan, dirty,
                   caller, deaths, doubled>>

\* A task the session has in memory is claimed with the count read in Scan.
Raised(n) == IF n < RetryLimit THEN n + 1 ELSE n

Attempt(w, j) == Raised(IF j \in stale[w] THEN known[w][j] ELSE attempts[j])

\* FOR UPDATE SKIP LOCKED: some pending task, locked until the commit.  All
\* jobs have the same priority; which one is skipped as locked is open.  The
\* run is read without a lock, and not written when it was running; the task's
\* lock orders this as if it were one step with every writer of both rows, and
\* a writer of the run alone comes before or after it.
Claim(w, j) ==
    /\ pc[w] = "claim"
    /\ task[j] = "pending"
    /\ task' = [task EXCEPT ![j] = "running"]
    /\ attempts' = [attempts EXCEPT ![j] = Attempt(w, j)]
    /\ lease' = [lease EXCEPT ![j] = "live"]
    /\ run' = [run EXCEPT ![j] = "running"]
    /\ job' = [job EXCEPT ![w] = j]
    /\ doubled' = doubled \cup {i \in {j} : \E v \in Worker \ {w} : job[v] = j}
    /\ stale' = [stale EXCEPT ![w] = {}]
    /\ known' = [known EXCEPT ![w] = NoCount]
    /\ Goto(w, "import")
    /\ UNCHANGED <<public, snap, plan, dirty, caller, deaths>>

\* What the session knew is gone.
Forget(w) ==
    /\ job' = [job EXCEPT ![w] = "none"]
    /\ stale' = [stale EXCEPT ![w] = {}]
    /\ known' = [known EXCEPT ![w] = NoCount]
    /\ plan' = [plan EXCEPT ![w] = Nothing]
    /\ dirty' = [dirty EXCEPT ![w] = {}]

\* The session ends.
Leave(w) == Goto(w, "idle") /\ Forget(w)

\* No pending task that is not locked.
NothingToDo(w) ==
    /\ pc[w] = "claim"
    /\ \A j \in Job : task[j] # "pending"
    /\ Leave(w)
    /\ UNCHANGED <<queue, public, snap, caller, deaths, doubled>>

\* Mutant: newer values are no conflict, the insert is left to find out.
ConflictNever(j, n) == FALSE

\* store_novel_snapshot: the digest differs from the one stored for the same
\* observation time, as newer public values were merged into the export.
Conflict(j, n) == snap[j][n] \notin {0, public[n]}

\* _import_one_novel for each accepted novel: what is to be inserted.
Insertions(j, accepted) ==
    [n \in Novel |-> IF n \in accepted /\ snap[j][n] # public[n]
                     THEN public[n] ELSE 0]

\* import_author_v_clicks up to its commit.  Uncollected novels are rejected,
\* others may be for their chapters; a conflict or an export that is invalid
\* or too old raises.
Import(w) ==
    LET j == job[w] IN
    /\ pc[w] = "import"
    /\ \/ \E rejected \in SUBSET NovelsOf[j] :
             /\ \A n \in NovelsOf[j] : public[n] = 0 => n \in rejected
             /\ \A n \in NovelsOf[j] \ rejected : ~Conflict(j, n)
             /\ plan' = [plan EXCEPT ![w] = Insertions(j, NovelsOf[j] \ rejected)]
             /\ Goto(w, IF rejected = {} THEN "commit" ELSE "commit_rejected")
       \/ /\ Goto(w, "fail")
          /\ UNCHANGED plan
    /\ UNCHANGED <<queue, public, snap, job, stale, known, dirty, caller, deaths,
                   doubled>>

\* Mutant: no unique index.
InsertableAlways(w) == TRUE

\* The snapshots the worker meant to insert are still missing: otherwise the
\* unique index on novel and observation time raises.
Insertable(w) == \A n \in Novel : plan[w][n] # 0 => snap[job[w]][n] = 0

\* Mutant: rejected novels do not fail the job.
CommitAll(w) ==
    /\ pc[w] \in {"commit", "commit_rejected"}
    /\ Insertable(w)
    /\ snap' = [snap EXCEPT ![job[w]] =
          [n \in Novel |-> IF plan[w][n] # 0 THEN plan[w][n] ELSE @[n]]]
    /\ plan' = [plan EXCEPT ![w] = Nothing]
    /\ Goto(w, "succeed")
    /\ UNCHANGED <<queue, public, job, stale, known, dirty, caller, deaths,
                   doubled>>

\* The import commits, also when some of its novels were rejected.
CommitImport(w) ==
    /\ pc[w] \in {"commit", "commit_rejected"}
    /\ Insertable(w)
    /\ snap' = [snap EXCEPT ![job[w]] =
          [n \in Novel |-> IF plan[w][n] # 0 THEN plan[w][n] ELSE @[n]]]
    /\ plan' = [plan EXCEPT ![w] = Nothing]
    /\ Goto(w, IF pc[w] = "commit" THEN "succeed" ELSE "fail")
    /\ UNCHANGED <<queue, public, job, stale, known, dirty, caller, deaths,
                   doubled>>

\* An IntegrityError is not among the exceptions handled: the process ends.
InsertFails(w) ==
    /\ pc[w] \in {"commit", "commit_rejected"}
    /\ ~Insertable(w)
    /\ Goto(w, "dead")
    /\ Forget(w)
    /\ UNCHANGED <<queue, public, snap, caller, deaths, doubled>>

\* The verdict is written whoever holds the job by now: the session still has
\* both rows as running, so that every column differs.
Succeed(w) ==
    /\ pc[w] = "succeed"
    /\ Flush(job[w], Column, "succeeded", "completed")
    /\ Leave(w)
    /\ UNCHANGED <<attempts, public, snap, caller, deaths, doubled>>

\* A failure rolls back, which makes the session forget both rows.  It reads
\* the task again ...
FailReadTask(w) ==
    LET j == job[w] IN
    /\ pc[w] = "fail"
    /\ dirty' = [dirty EXCEPT ![w] = Changed("task", task[j], "failed")
                                     \cup Changed("lease", lease[j], "none")]
    /\ Goto(w, "fail_run")
    /\ UNCHANGED <<queue, public, snap, job, stale, known, plan, caller, deaths,
                   doubled>>

\* ... then the run ...
FailReadRun(w) ==
    /\ pc[w] = "fail_run"
    /\ dirty' = [dirty EXCEPT ![w] = @ \cup Changed("run", run[job[w]], "failed")]
    /\ Goto(w, "fail_write")
    /\ UNCHANGED <<queue, public, snap, job, stale, known, plan, caller, deaths,
                   doubled>>

\* Mutant: a failed attempt leaves the task as it is.
FailWriteRun(w) ==
    /\ pc[w] = "fail_write"
    /\ Flush(job[w], dirty[w] \ {"task"}, "failed", "failed")
    /\ Leave(w)
    /\ UNCHANGED <<attempts, public, snap, caller, deaths, doubled>>

\* ... and writes what it changed of them in one commit.
FailWrite(w) ==
    /\ pc[w] = "fail_write"
    /\ Flush(job[w], dirty[w], "failed", "failed")
    /\ Leave(w)
    /\ UNCHANGED <<attempts, public, snap, caller, deaths, doubled>>

\* The process dies, its transaction is rolled back.
Die(w) ==
    /\ deaths < MaxDeaths
    /\ pc[w] \notin {"idle", "dead"}
    /\ Goto(w, "dead")
    /\ Forget(w)
    /\ deaths' = deaths + 1
    /\ UNCHANGED <<queue, public, snap, caller, doubled>>

\* "restart: unless-stopped" (compose.yaml)
Restart(w) ==
    /\ pc[w] = "dead"
    /\ Goto(w, "idle")
    /\ UNCHANGED <<queue, public, snap, job, stale, known, plan, dirty, caller,
                   deaths, doubled>>

Work(w) ==
    \/ Scan(w) \/ Requeue(w) \/ NothingToDo(w)
    \/ \E j \in Job : Claim(w, j)
    \/ Import(w) \/ CommitImport(w) \/ InsertFails(w)
    \/ Succeed(w) \/ FailReadTask(w) \/ FailReadRun(w) \/ FailWrite(w)
    \/ Restart(w)

Next ==
    \/ \E j \in Job : Enqueue(j) \/ Expire(j)
    \/ \E n \in Novel : Refresh(n)
    \/ \E c \in Caller : \/ \E j \in Job : RetryReadRun(c, j)
                         \/ RetryReadTask(c) \/ RetryWrite(c)
    \/ \E w \in Worker : Work(w) \/ Die(w)

Spec == Init /\ [][Next]_vars

\* Workers run for ever and time passes.
FairSpec ==
    /\ Spec
    /\ \A w \in Worker : WF_vars(Work(w))
    /\ \A j \in Job : WF_vars(Expire(j))
-----------------------------------------------------------------------------
(* Properties *)

\* A job is reported succeeded only when every novel of its export has its
\* snapshot, through expired leases of living workers, jobs processed twice
\* and verdicts written by whoever lost the job.
SucceededMeansImported ==
    \A j \in Job : task[j] = "succeeded" =>
                      \A n \in NovelsOf[j] : snap[j][n] # 0

\* Run and task never tell different stories once one of them is final or
\* at work (author_v_job_status shows both), though each of them is written
\* by workers, retries and requeues that overlap - unless two living workers had
\* the job at once: then a failure may find one row as it would leave it, write
\* the other only, and hit a claim made in between (author_v_jobs.py:171).
RunMatchesTask ==
    \A j \in Job \ doubled :
        /\ task[j] = "running" => run[j] = "running"
        /\ task[j] = "succeeded" <=> run[j] = "completed" /\ task[j] # "pending"
        /\ task[j] = "failed" <=> run[j] = "failed" /\ task[j] # "pending"

\* A running task always has a lease, and so is found again when its worker
\* dies - with the same exception: the failure may write the lease only.
RunningIsLeased ==
    \A j \in Job \ doubled : task[j] = "running" => lease[j] # "none"

\* A snapshot is inserted once and never rewritten, however often its job is
\* processed and whatever was collected in between.
SnapshotsAreImmutable ==
    [][\A j \in Job, n \in Novel : snap[j][n] # 0 => snap'[j][n] = snap[j][n]]_vars

\* A task that runs without a lease is on no scan.
Lost(j) == j \in doubled /\ task[j] = "running" /\ lease[j] = "none"

\* Every job that was enqueued or retried gets a verdict, though its workers
\* die and its leases run out, or has lost its lease to the failure of another
\* worker.
JobsEnd ==
    \A j \in Job : task[j] \in {"pending", "running"}
                      ~> task[j] \in {"succeeded", "failed"} \/ Lost(j)
-----------------------------------------------------------------------------
(* The inductive invariant behind the safety properties *)

Holds(w) == pc[w] \in {"import", "commit", "commit_rejected", "succeed",
                       "fail", "fail_run", "fail_write"}

\* What a worker holds: a job from the claim on, what is left to insert, and
\* everything inserted before it reports success.
WorkerInv ==
    \A w \in Worker :
        /\ Holds(w) => job[w] \in Job
        /\ pc[w] = "commit" =>
              \A n \in NovelsOf[job[w]] : plan[w][n] # 0 \/ snap[job[w]][n] # 0
        /\ pc[w] = "succeed" =>
              \A n \in NovelsOf[job[w]] : snap[job[w]][n] # 0

\* Two workers that have one job made it doubled.
AloneInv ==
    \A v, w \in Worker :
        v # w /\ Holds(v) /\ Holds(w) /\ job[v] = job[w] => job[v] \in doubled

\* While one worker has a job, others can only put it back: neither row is
\* final, so a failure finds something to write in both.
HeldInv ==
    \A w \in Worker :
        Holds(w) /\ job[w] \notin doubled =>
            /\ task[job[w]] \in {"pending", "running"}
            /\ run[job[w]] \in {"pending", "running"}
            /\ pc[w] \in {"fail_run", "fail_write"} => "task" \in dirty[w]
            /\ pc[w] = "fail_write" => "run" \in dirty[w]

\* A retry writes the task, whichever columns of the others it writes.
CallerInv ==
    \A c \in Caller : /\ cpc[c] # "idle" => cjob[c] \in Job
                      /\ cpc[c] = "write" => "task" \in cdirty[c]

QueueInv ==
    /\ TypeOK
    /\ WorkerInv
    /\ AloneInv
    /\ HeldInv
    /\ CallerInv
    /\ SucceededMeansImported
    /\ RunMatchesTask
    /\ RunningIsLeased
=============================================================================
