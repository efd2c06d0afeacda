------------------------ MODULE AuthorVQueueProofs ------------------------
(***************************************************************************)
(* Proofs about AuthorVQueue, for any sets of jobs, workers, retry calls   *)
(* and novels.  QueueInv is inductive.  It does not say that a job has one *)
(* worker, which is false: it says what every worker that holds a job has  *)
(* established for itself before it writes a verdict, and what the rows of *)
(* a job can be while only one worker ever had it at a time.               *)
(***************************************************************************)
EXTENDS AuthorVQueue, TLAPS

\* The attempt count never leaves its range, also when it is raised from an
\* old reading.
LEMMA AttemptType ==
    ASSUME TypeOK, NEW w \in Worker, NEW j \in Job
    PROVE  Attempt(w, j) \in Count
<1>1. attempts[j] \in Count /\ known[w][j] \in Count
  BY DEF TypeOK
<1>. QED
  BY <1>1, QueueAssumption DEF QueueAssumption, Attempt, Raised, Count

LEMMA QueueInit == Init => QueueInv
<1> SUFFICES ASSUME Init PROVE QueueInv
  OBVIOUS
<1> USE QueueAssumption DEF QueueAssumption, Init, Nothing, NoCount, Version,
        Count, WorkerStep, Column
<1>1. TypeOK
  BY DEF TypeOK
<1>. QED
  BY <1>1 DEF QueueInv, WorkerInv, AloneInv, HeldInv, Holds, CallerInv,
     SucceededMeansImported, RunMatchesTask, RunningIsLeased

\* What is written of a job has the columns' types.
LEMMA FlushTypes ==
    ASSUME TypeOK, NEW j \in Job, NEW columns,
           NEW taskTo \in {"pending", "succeeded", "failed"},
           NEW runTo \in {"pending", "completed", "failed"},
           Flush(j, columns, taskTo, runTo)
    PROVE  /\ task' \in [Job -> {"none", "pending", "running", "succeeded", "failed"}]
           /\ run' \in [Job -> {"none", "pending", "running", "completed", "failed"}]
           /\ lease' \in [Job -> {"none", "live", "expired"}]
BY DEF Flush, TypeOK

\* Every step keeps the state typed.
LEMMA QueueTypes ==
    ASSUME QueueInv, Next PROVE TypeOK'
<1>a. /\ 0 \in Version /\ 0 \in Count
      /\ \A v \in Version : v + 1 \in Version
      /\ \A d \in 0 .. MaxDeaths : d < MaxDeaths => d + 1 \in 0 .. MaxDeaths
  BY QueueAssumption DEF QueueAssumption, Version, Count
<1>b. NovelsOf \in [Job -> SUBSET Novel]
  BY QueueAssumption DEF QueueAssumption
<1>c. \A column \in Column : \A old, new : Changed(column, old, new) \subseteq Column
  BY DEF Changed
<1>d. "task" \in Column /\ "lease" \in Column /\ "run" \in Column
  BY DEF Column
<1> USE DEF QueueInv, TypeOK, queue, worker, caller, WorkerStep, Goto
<1>1. ASSUME NEW j \in Job, Enqueue(j) PROVE TypeOK'
  BY <1>1 DEF Enqueue
<1>2. ASSUME NEW j \in Job, Expire(j) PROVE TypeOK'
  BY <1>2 DEF Expire
<1>3. ASSUME NEW n \in Novel, Refresh(n) PROVE TypeOK'
  BY <1>3, <1>a DEF Refresh
<1>4. ASSUME NEW c \in Caller, NEW j \in Job, RetryReadRun(c, j) PROVE TypeOK'
  BY <1>4, <1>c, <1>d DEF RetryReadRun
<1>5. ASSUME NEW c \in Caller, RetryReadTask(c) PROVE TypeOK'
  <2>1. CASE RetryDone(c)
    BY <1>5, <2>1 DEF RetryReadTask, RetryDone
  <2>2. CASE ~RetryDone(c)
    <3>1. /\ cpc' = [cpc EXCEPT ![c] = "write"] /\ UNCHANGED cjob
          /\ cdirty' = [cdirty EXCEPT ![c] =
                @ \cup Changed("task", task[cjob[c]], "pending")
                  \cup Changed("lease", lease[cjob[c]], "none")]
      BY <1>5, <2>2 DEF RetryReadTask
    <3>2. cdirty' \in [Caller -> SUBSET Column]
      BY <1>c, <1>d, <3>1
    <3>. QED
      BY <1>5, <3>1, <3>2 DEF RetryReadTask
  <2>. QED
    BY <2>1, <2>2
<1>6. ASSUME NEW c \in Caller, RetryWrite(c) PROVE TypeOK'
  <2>1. cjob[c] \in Job
    BY <1>6 DEF RetryWrite, CallerInv
  <2>2. /\ task' \in [Job -> {"none", "pending", "running", "succeeded", "failed"}]
        /\ run' \in [Job -> {"none", "pending", "running", "completed", "failed"}]
        /\ lease' \in [Job -> {"none", "live", "expired"}]
    BY <1>6, <2>1, FlushTypes DEF RetryWrite
  <2>. QED
    BY <1>6, <2>2 DEF RetryWrite, RetryDone
<1>7. ASSUME NEW w \in Worker, Scan(w) PROVE TypeOK'
  BY <1>7, <1>a DEF Scan
<1>8. ASSUME NEW w \in Worker, Requeue(w) PROVE TypeOK'
  BY <1>8 DEF Requeue
<1>9. ASSUME NEW w \in Worker, NEW j \in Job, Claim(w, j) PROVE TypeOK'
  <2>1. Attempt(w, j) \in Count
    BY AttemptType
  <2>2. known' \in [Worker -> [Job -> Count]]
    BY <1>9, <1>a DEF Claim, NoCount
  <2>. QED
    BY <1>9, <2>1, <2>2 DEF Claim
<1>10. ASSUME NEW w \in Worker, Forget(w)
       PROVE  /\ job' \in [Worker -> Job \cup {"none"}]
              /\ stale' \in [Worker -> SUBSET Job]
              /\ known' \in [Worker -> [Job -> Count]]
              /\ plan' \in [Worker -> [Novel -> Version]]
              /\ dirty' \in [Worker -> SUBSET Column]
  BY <1>10, <1>a DEF Forget, Nothing, NoCount
<1>11. ASSUME NEW w \in Worker, NothingToDo(w) PROVE TypeOK'
  <2>1. Forget(w)
    BY <1>11 DEF NothingToDo, Leave
  <2>. QED
    BY <1>10, <1>11, <2>1 DEF NothingToDo, Leave
<1>12. ASSUME NEW w \in Worker, Restart(w) PROVE TypeOK'
  BY <1>12 DEF Restart
<1>13. ASSUME NEW w \in Worker, Succeed(w) \/ FailWrite(w) PROVE TypeOK'
  <2>1. job[w] \in Job
    BY <1>13 DEF Succeed, FailWrite, WorkerInv, Holds
  <2>2. /\ task' \in [Job -> {"none", "pending", "running", "succeeded", "failed"}]
        /\ run' \in [Job -> {"none", "pending", "running", "completed", "failed"}]
        /\ lease' \in [Job -> {"none", "live", "expired"}]
    <3>1. CASE Succeed(w)
      BY <2>1, <3>1, FlushTypes DEF Succeed
    <3>2. CASE FailWrite(w)
      BY <2>1, <3>2, FlushTypes DEF FailWrite
    <3>. QED
      BY <1>13, <3>1, <3>2
  <2>3. /\ Goto(w, "idle") /\ Forget(w)
        /\ UNCHANGED <<attempts, public, snap, caller, deaths, doubled>>
    BY <1>13 DEF Succeed, FailWrite, Leave
  <2>. QED
    BY <1>10, <2>2, <2>3
<1>14. ASSUME NEW w \in Worker, FailReadTask(w) PROVE TypeOK'
  BY <1>14, <1>c, <1>d DEF FailReadTask
<1>15. ASSUME NEW w \in Worker, FailReadRun(w) PROVE TypeOK'
  BY <1>15, <1>c, <1>d DEF FailReadRun
<1>16. ASSUME NEW w \in Worker, Import(w) PROVE TypeOK'
  <2>1. \A A : Insertions(job[w], A) \in [Novel -> Version]
    BY <1>a DEF Insertions
  <2>2. \/ \E A : plan' = [plan EXCEPT ![w] = Insertions(job[w], A)]
        \/ UNCHANGED plan
    BY <1>16 DEF Import
  <2>3. plan' \in [Worker -> [Novel -> Version]]
    BY <2>1, <2>2
  <2>4. \E step \in {"commit", "commit_rejected", "fail"} :
           pc' = [pc EXCEPT ![w] = step]
    BY <1>16 DEF Import
  <2>5. pc' \in [Worker -> WorkerStep]
    BY <2>4
  <2>. QED
    BY <1>16, <2>3, <2>5 DEF Import
<1>17. ASSUME NEW w \in Worker, CommitImport(w) PROVE TypeOK'
  <2>1. snap' \in [Job -> [Novel -> Version]]
    BY <1>17 DEF CommitImport, WorkerInv, Holds
  <2>2. pc' \in [Worker -> WorkerStep]
    BY <1>17 DEF CommitImport
  <2>3. plan' \in [Worker -> [Novel -> Version]]
    BY <1>17, <1>a DEF CommitImport, Nothing
  <2>. QED
    BY <1>17, <2>1, <2>2, <2>3 DEF CommitImport
<1>18. ASSUME NEW w \in Worker, InsertFails(w) PROVE TypeOK'
  <2>1. Forget(w)
    BY <1>18 DEF InsertFails
  <2>. QED
    BY <1>10, <1>18, <2>1 DEF InsertFails
<1>19. ASSUME NEW w \in Worker, Die(w) PROVE TypeOK'
  <2>1. Forget(w)
    BY <1>19 DEF Die
  <2>. QED
    BY <1>10, <1>19, <1>a, <2>1 DEF Die
<1>. QED
  BY <1>1, <1>2, <1>3, <1>4, <1>5, <1>6, <1>7, <1>8, <1>9, <1>11, <1>12,
     <1>13, <1>14, <1>15, <1>16, <1>17, <1>18, <1>19
  DEF Next, Work

\* A worker that holds a job after a step held it before, or has claimed it.
LEMMA HoldersOnlyClaim ==
    ASSUME QueueInv, Next, NEW v \in Worker, Holds(v)'
    PROVE  \/ Holds(v) /\ job'[v] = job[v]
           \/ \E j \in Job : Claim(v, j) /\ job'[v] = j /\ pc'[v] = "import"
<1> USE DEF QueueInv, TypeOK, WorkerStep, Goto, Holds
<1>1. ASSUME NEW w \in Worker, NEW j \in Job, Claim(w, j)
      PROVE  \/ Holds(v) /\ job'[v] = job[v]
             \/ v = w /\ job'[v] = j /\ pc'[v] = "import"
  BY <1>1 DEF Claim
<1>2. ASSUME NEW w \in Worker, Scan(w) \/ Requeue(w) \/ Restart(w)
      PROVE  Holds(v) /\ job'[v] = job[v]
  BY <1>2 DEF Scan, Requeue, Restart
<1>3. ASSUME NEW w \in Worker, Forget(w), Goto(w, "idle") \/ Goto(w, "dead")
      PROVE  Holds(v) /\ job'[v] = job[v]
  BY <1>3 DEF Forget
<1>4. ASSUME NEW w \in Worker,
             Import(w) \/ CommitImport(w) \/ FailReadTask(w) \/ FailReadRun(w)
      PROVE  Holds(v) /\ job'[v] = job[v]
  <2>1. Holds(w) /\ job' = job /\ \A x \in Worker \ {w} : pc'[x] = pc[x]
    <3>1. CASE Import(w)
      BY <3>1 DEF Import
    <3>2. CASE CommitImport(w)
      BY <3>2 DEF CommitImport
    <3>3. CASE FailReadTask(w) \/ FailReadRun(w)
      BY <3>3 DEF FailReadTask, FailReadRun
    <3>. QED
      BY <1>4, <3>1, <3>2, <3>3
  <2>. QED
    BY <2>1
<1>5. ASSUME UNCHANGED worker PROVE Holds(v) /\ job'[v] = job[v]
  BY <1>5 DEF worker
<1>. QED
  BY <1>1, <1>2, <1>3, <1>4, <1>5 DEF Next, Work, Enqueue, Expire, Refresh,
     RetryReadRun, RetryReadTask, RetryWrite, NothingToDo, InsertFails, Die,
     Succeed, FailWrite, Leave

\* The history of doubled jobs only grows.
LEMMA DoubledGrows ==
    ASSUME Next PROVE doubled \subseteq doubled'
BY DEF Next, Work, Enqueue, Expire, Refresh, RetryReadRun, RetryReadTask,
   RetryWrite, Scan, Requeue, Claim, NothingToDo, Import, CommitImport,
   InsertFails, Succeed, FailReadTask, FailReadRun, FailWrite, Die, Restart

LEMMA SharedIsDoubled ==
    ASSUME QueueInv, Next PROVE AloneInv'
<1> SUFFICES ASSUME NEW v \in Worker, NEW w \in Worker, v # w,
                    Holds(v)', Holds(w)', job'[v] = job'[w]
             PROVE  job'[v] \in doubled'
  BY DEF AloneInv
<1>1. CASE Holds(v) /\ job'[v] = job[v] /\ Holds(w) /\ job'[w] = job[w]
  BY <1>1, DoubledGrows DEF QueueInv, AloneInv
<1>2. ASSUME NEW x \in Worker, NEW y \in Worker, x # y, NEW j \in Job,
             Claim(x, j), job'[x] = j, job'[y] = j
      PROVE  j \in doubled'
  <2>1. job[y] = j
    BY <1>2 DEF Claim, QueueInv, TypeOK
  <2>. QED
    BY <1>2, <2>1 DEF Claim
<1>. QED
  BY <1>1, <1>2, HoldersOnlyClaim

\* A stored snapshot is not touched: what a worker inserts was missing when
\* it commits.
LEMMA SnapshotsKept ==
    ASSUME QueueInv, Next, NEW j \in Job, NEW n \in Novel, snap[j][n] # 0
    PROVE  snap'[j][n] = snap[j][n]
<1>1. ASSUME NEW w \in Worker, CommitImport(w)
      PROVE  snap'[j][n] = snap[j][n]
  BY <1>1 DEF CommitImport, Insertable, QueueInv, TypeOK, WorkerInv, Holds
<1>2. ASSUME UNCHANGED snap PROVE snap'[j][n] = snap[j][n]
  BY <1>2
<1>. QED
  BY <1>1, <1>2 DEF Next, Work, Enqueue, Expire, Refresh, RetryReadRun,
     RetryReadTask, RetryWrite, Scan, Requeue, Claim, NothingToDo, Restart,
     Import, InsertFails, Die, Succeed, FailReadTask, FailReadRun, FailWrite

Known(w) ==
    /\ Holds(w) => job[w] \in Job
    /\ pc[w] = "commit" =>
          \A n \in NovelsOf[job[w]] : plan[w][n] # 0 \/ snap[job[w]][n] # 0
    /\ pc[w] = "succeed" =>
          \A n \in NovelsOf[job[w]] : snap[job[w]][n] # 0

\* What a worker has established stays established, and its own steps
\* establish what the next one needs.
LEMMA WorkersKnow ==
    ASSUME QueueInv, Next PROVE WorkerInv'
<1> SUFFICES ASSUME NEW v \in Worker PROVE Known(v)'
  BY DEF WorkerInv, Known
<1>0. Known(v)
  BY DEF QueueInv, WorkerInv, Known
<1>a. NovelsOf \in [Job -> SUBSET Novel]
  BY QueueAssumption DEF QueueAssumption
<1>b. ASSUME NEW n \in Novel, NEW j \in Job, snap[j][n] # 0
      PROVE  snap'[j][n] # 0
  BY <1>b, SnapshotsKept
<1>c. ASSUME pc'[v] = pc[v], job'[v] = job[v], plan'[v] = plan[v] PROVE Known(v)'
  BY <1>0, <1>a, <1>b, <1>c DEF Known, Holds
<1>1. ASSUME NEW w \in Worker,
             Scan(w) \/ Requeue(w) \/ FailReadTask(w) \/ FailReadRun(w)
      PROVE  Known(v)'
  <2>1. job' = job /\ plan' = plan
    BY <1>1 DEF Scan, Requeue, FailReadTask, FailReadRun
  <2>2. \/ pc'[v] = pc[v]
        \/ pc'[v] \in {"requeue", "claim"}
        \/ Holds(v) /\ pc'[v] \in {"fail_run", "fail_write"}
    BY <1>1 DEF Scan, Requeue, FailReadTask, FailReadRun, Goto, Holds, QueueInv,
       TypeOK
  <2>. QED
    BY <1>0, <1>c, <2>1, <2>2 DEF Known, Holds
<1>2. ASSUME NEW w \in Worker, NEW j \in Job, Claim(w, j) PROVE Known(v)'
  BY <1>2, <1>c DEF Claim, Goto, Known, Holds, QueueInv, TypeOK
<1>3. ASSUME NEW w \in Worker, Forget(w), Goto(w, "idle") \/ Goto(w, "dead")
      PROVE  Known(v)'
  BY <1>3, <1>c DEF Forget, Goto, Known, Holds, QueueInv, TypeOK
<1>4. ASSUME NEW w \in Worker, Import(w) PROVE Known(v)'
  <2>1. CASE v = w
    <3>1. job'[v] = job[v] /\ job[v] \in Job /\ UNCHANGED snap
      BY <1>0, <1>4, <2>1 DEF Import, Known, Holds
    <3>2. pc'[v] \in {"commit", "commit_rejected", "fail"}
      BY <1>4, <2>1 DEF Import, Goto, QueueInv, TypeOK
    <3>3. ASSUME pc'[v] = "commit", NEW n \in NovelsOf[job[v]]
          PROVE  plan'[v][n] # 0 \/ snap[job[v]][n] # 0
      <4>1. PICK rejected \in SUBSET NovelsOf[job[v]] :
               /\ \A m \in NovelsOf[job[v]] : public[m] = 0 => m \in rejected
               /\ plan'[v] = Insertions(job[v], NovelsOf[job[v]] \ rejected)
               /\ pc'[v] = IF rejected = {} THEN "commit" ELSE "commit_rejected"
        <5>1. /\ pc \in [Worker -> WorkerStep] /\ DOMAIN plan = Worker
              /\ pc'[v] # "fail"
          BY <3>3 DEF QueueInv, TypeOK
        <5>2. ~Goto(v, "fail")
          BY <5>1 DEF Goto
        <5>3. PICK rejected \in SUBSET NovelsOf[job[v]] :
                 /\ \A m \in NovelsOf[job[v]] : public[m] = 0 => m \in rejected
                 /\ plan' = [plan EXCEPT ![v] =
                                Insertions(job[v], NovelsOf[job[v]] \ rejected)]
                 /\ Goto(v, IF rejected = {} THEN "commit"
                            ELSE "commit_rejected")
          BY <1>4, <2>1, <5>2 DEF Import
        <5>. QED
          BY <5>1, <5>3 DEF Goto
      <4>2. rejected = {} /\ n \in Novel /\ public[n] # 0
        BY <1>a, <3>1, <3>3, <4>1
      <4>. QED
        BY <4>1, <4>2 DEF Insertions
    <3>. QED
      BY <3>1, <3>2, <3>3 DEF Known, Holds
  <2>2. CASE v # w
    BY <1>4, <2>2, <1>c DEF Import, Goto, QueueInv, TypeOK
  <2>. QED
    BY <2>1, <2>2
<1>5. ASSUME NEW w \in Worker, CommitImport(w) PROVE Known(v)'
  <2>1. CASE v = w
    <3>1. /\ job'[v] = job[v] /\ job[v] \in Job
          /\ pc'[v] = IF pc[v] = "commit" THEN "succeed" ELSE "fail"
      BY <1>0, <1>5, <2>1 DEF CommitImport, Goto, Known, Holds, QueueInv, TypeOK
    <3>2. ASSUME NEW n \in NovelsOf[job[v]], pc[v] = "commit"
          PROVE  snap'[job[v]][n] # 0
      BY <1>0, <1>5, <1>a, <2>1, <3>1, <3>2
      DEF CommitImport, Known, Holds, QueueInv, TypeOK
    <3>. QED
      BY <3>1, <3>2 DEF Known, Holds
  <2>2. CASE v # w
    BY <1>5, <2>2, <1>c DEF CommitImport, Goto, QueueInv, TypeOK
  <2>. QED
    BY <2>1, <2>2
<1>6. ASSUME UNCHANGED worker PROVE Known(v)'
  BY <1>6, <1>c DEF worker
<1>7. ASSUME NEW w \in Worker, Restart(w) PROVE Known(v)'
  BY <1>7, <1>c DEF Restart, Goto, Known, Holds, QueueInv, TypeOK
<1>. QED
  BY <1>1, <1>2, <1>3, <1>4, <1>5, <1>6, <1>7
  DEF Next, Work, Enqueue, Expire, Refresh, RetryReadRun, RetryReadTask,
      RetryWrite, NothingToDo, InsertFails, Die, Succeed, FailWrite, Leave

LEMMA CallersKnow ==
    ASSUME QueueInv, Next PROVE CallerInv'
<1> USE DEF QueueInv, TypeOK, CallerInv
<1>1. ASSUME NEW c \in Caller, NEW j \in Job, RetryReadRun(c, j)
      PROVE  CallerInv'
  BY <1>1 DEF RetryReadRun
<1>2. ASSUME NEW c \in Caller, RetryReadTask(c) PROVE CallerInv'
  <2>1. CASE Retryable(cjob[c])
    <3>1. "task" \in Changed("task", task[cjob[c]], "pending")
      BY <2>1 DEF Retryable, Changed
    <3>. QED
      BY <1>2, <2>1, <3>1 DEF RetryReadTask
  <2>2. CASE ~Retryable(cjob[c])
    <3>1. RetryDone(c)
      BY <1>2, <2>2 DEF RetryReadTask
    <3>. QED
      BY <3>1 DEF RetryDone
  <2>. QED
    BY <2>1, <2>2
<1>3. ASSUME NEW c \in Caller, RetryWrite(c) PROVE CallerInv'
  BY <1>3 DEF RetryWrite, RetryDone
<1>4. ASSUME UNCHANGED caller PROVE CallerInv'
  BY <1>4 DEF caller
<1>. QED
  BY <1>1, <1>2, <1>3, <1>4 DEF Next, Work, Enqueue, Expire, Refresh, Scan,
     Requeue, Claim, NothingToDo, Restart, Import, CommitImport, InsertFails,
     Die, Succeed, FailReadTask, FailReadRun, FailWrite

Rows(j) == <<task[j], run[j], lease[j]>>

\* The steps that touch the rows of a job, and what they leave in them.
LEMMA RowWriters ==
    ASSUME QueueInv, Next, NEW j \in Job
    PROVE  \/ UNCHANGED Rows(j)
           \/ Enqueue(j)
           \/ Expire(j)
           \/ task'[j] = "pending" /\ run'[j] \in {run[j], "pending"}
           \/ \E w \in Worker : Claim(w, j)
           \/ \E w \in Worker : job[w] = j /\ (Succeed(w) \/ FailWrite(w))
<1> USE DEF QueueInv, TypeOK, queue, worker, caller, Rows
<1>1. ASSUME NEW i \in Job, i # j, Enqueue(i) \/ Expire(i) PROVE UNCHANGED Rows(j)
  BY <1>1 DEF Enqueue, Expire
<1>2. ASSUME NEW c \in Caller, RetryWrite(c)
      PROVE  \/ UNCHANGED Rows(j)
             \/ task'[j] = "pending" /\ run'[j] \in {run[j], "pending"}
  BY <1>2 DEF RetryWrite, Flush, CallerInv
<1>3. ASSUME NEW w \in Worker, Requeue(w)
      PROVE  \/ UNCHANGED Rows(j)
             \/ task'[j] = "pending" /\ run'[j] \in {run[j], "pending"}
  BY <1>3 DEF Requeue
<1>4. ASSUME NEW w \in Worker, NEW i \in Job, i # j, Claim(w, i)
      PROVE  UNCHANGED Rows(j)
  BY <1>4 DEF Claim
<1>5. ASSUME NEW w \in Worker, job[w] # j, Succeed(w) \/ FailWrite(w)
      PROVE  UNCHANGED Rows(j)
  BY <1>5 DEF Succeed, FailWrite, Flush, WorkerInv, Holds
<1>6. ASSUME UNCHANGED queue PROVE UNCHANGED Rows(j)
  BY <1>6
<1> HIDE DEF QueueInv, TypeOK, queue, Rows
<1>. QED
  BY <1>1, <1>2, <1>3, <1>4, <1>5, <1>6 DEF Next, Work, Refresh, RetryReadRun,
     RetryReadTask, Scan, NothingToDo, Restart, Import, CommitImport,
     InsertFails, FailReadTask, FailReadRun, Die

\* A failure of the only worker of a job writes both rows.
LEMMA FailuresWriteBoth ==
    ASSUME QueueInv, NEW w \in Worker, FailWrite(w), job[w] \notin doubled
    PROVE  task'[job[w]] = "failed" /\ run'[job[w]] = "failed"
<1>1. /\ job[w] \in Job /\ Holds(w) /\ pc[w] = "fail_write"
  BY DEF FailWrite, QueueInv, WorkerInv, Holds
<1>2. "task" \in dirty[w] /\ "run" \in dirty[w]
  BY <1>1 DEF QueueInv, HeldInv
<1>. QED
  BY <1>1, <1>2 DEF FailWrite, Flush, QueueInv, TypeOK

LEMMA SuccessesWriteAll ==
    ASSUME QueueInv, NEW w \in Worker, Succeed(w)
    PROVE  task'[job[w]] = "succeeded" /\ run'[job[w]] = "completed"
<1>1. job[w] \in Job
  BY DEF Succeed, QueueInv, WorkerInv, Holds
<1>. QED
  BY <1>1 DEF Succeed, Flush, Column, QueueInv, TypeOK

\* Run, task and lease of one job.
Agree(j) ==
    /\ task[j] = "running" => run[j] = "running" /\ lease[j] # "none"
    /\ task[j] = "succeeded" <=> run[j] = "completed" /\ task[j] # "pending"
    /\ task[j] = "failed" <=> run[j] = "failed" /\ task[j] # "pending"

\* Every writer of one row leaves the others so that they still agree.
LEMMA RowsAgree ==
    ASSUME QueueInv, Next PROVE RunMatchesTask' /\ RunningIsLeased'
<1> SUFFICES ASSUME NEW j \in Job, j \notin doubled' PROVE Agree(j)'
  BY DEF Agree, RunMatchesTask, RunningIsLeased
<1>0. j \notin doubled
  BY DoubledGrows
<1>1. Agree(j)
  BY <1>0 DEF QueueInv, RunMatchesTask, RunningIsLeased, Agree
<1>2. CASE UNCHANGED Rows(j)
  BY <1>1, <1>2 DEF Rows, Agree
<1>3. CASE Enqueue(j) \/ Expire(j)
  BY <1>1, <1>3 DEF Enqueue, Expire, Agree, QueueInv, TypeOK
<1>4. CASE task'[j] = "pending"
  BY <1>4 DEF Agree
<1>5. ASSUME NEW w \in Worker, Claim(w, j) PROVE Agree(j)'
  BY <1>5 DEF Claim, Agree, QueueInv, TypeOK
<1>6. ASSUME NEW w \in Worker, job[w] = j, Succeed(w) \/ FailWrite(w)
      PROVE  Agree(j)'
  BY <1>0, <1>6, FailuresWriteBoth, SuccessesWriteAll DEF Agree
<1>. QED
  BY <1>2, <1>3, <1>4, <1>5, <1>6, RowWriters

HeldBy(w) ==
    Holds(w) /\ job[w] \notin doubled =>
        /\ task[job[w]] \in {"pending", "running"}
        /\ run[job[w]] \in {"pending", "running"}
        /\ pc[w] \in {"fail_run", "fail_write"} => "task" \in dirty[w]
        /\ pc[w] = "fail_write" => "run" \in dirty[w]

Prepared(w) ==
    /\ pc[w] \in {"fail_run", "fail_write"} => "task" \in dirty[w]
    /\ pc[w] = "fail_write" => "run" \in dirty[w]

\* A failing worker finds something to write in each row that it reads.
LEMMA FailuresPrepare ==
    ASSUME QueueInv, Next, NEW v \in Worker, Holds(v), Holds(v)',
           job[v] \notin doubled
    PROVE  Prepared(v)'
<1> USE DEF QueueInv, TypeOK, WorkerStep, Goto
<1>0. HeldBy(v) /\ job[v] \in Job
  BY DEF HeldInv, HeldBy, WorkerInv
<1>a. ASSUME pc'[v] = pc[v], dirty'[v] = dirty[v] PROVE Prepared(v)'
  BY <1>0, <1>a DEF HeldBy, Prepared
<1>b. ASSUME pc'[v] \notin {"fail_run", "fail_write"} PROVE Prepared(v)'
  BY <1>b DEF Prepared
<1>1. ASSUME FailReadTask(v) PROVE Prepared(v)'
  <2>1. "task" \in Changed("task", task[job[v]], "failed")
    BY <1>0 DEF HeldBy, Changed
  <2>. QED
    BY <1>1, <2>1 DEF FailReadTask, Prepared
<1>2. ASSUME FailReadRun(v) PROVE Prepared(v)'
  <2>1. "run" \in Changed("run", run[job[v]], "failed") /\ "task" \in dirty[v]
    BY <1>0, <1>2 DEF HeldBy, Changed, FailReadRun
  <2>. QED
    BY <1>2, <2>1 DEF FailReadRun, Prepared
<1>3. ASSUME NEW w \in Worker, w # v, FailReadTask(w) \/ FailReadRun(w)
      PROVE  Prepared(v)'
  BY <1>3, <1>a DEF FailReadTask, FailReadRun
<1>4. ASSUME NEW w \in Worker, Forget(w), Goto(w, "idle") \/ Goto(w, "dead")
      PROVE  Prepared(v)'
  BY <1>4, <1>a, <1>b DEF Forget
<1>5. ASSUME NEW w \in Worker, Scan(w) \/ Requeue(w) \/ Restart(w)
      PROVE  Prepared(v)'
  BY <1>5, <1>a, <1>b DEF Scan, Requeue, Restart
<1>6. ASSUME NEW w \in Worker, NEW j \in Job, Claim(w, j) PROVE Prepared(v)'
  BY <1>6, <1>a, <1>b DEF Claim
<1>7. ASSUME NEW w \in Worker, Import(w) \/ CommitImport(w) PROVE Prepared(v)'
  <2>1. /\ dirty' = dirty
        /\ \E step \in {"commit", "commit_rejected", "fail", "succeed"} :
              pc' = [pc EXCEPT ![w] = step]
    <3>1. CASE Import(w)
      BY <3>1 DEF Import
    <3>2. CASE CommitImport(w)
      BY <3>2 DEF CommitImport
    <3>. QED
      BY <1>7, <3>1, <3>2
  <2>2. pc'[v] = pc[v] \/ pc'[v] \notin {"fail_run", "fail_write"}
    BY <2>1
  <2>. QED
    BY <1>a, <1>b, <2>1, <2>2
<1>8. ASSUME UNCHANGED worker PROVE Prepared(v)'
  BY <1>8, <1>a DEF worker
<1>. QED
  BY <1>1, <1>2, <1>3, <1>4, <1>5, <1>6, <1>7, <1>8 DEF Next, Work, Enqueue,
     Expire, Refresh, RetryReadRun, RetryReadTask, RetryWrite, NothingToDo,
     InsertFails, Die, Succeed, FailWrite, Leave

\* The rows of a job that one worker has are not final.
LEMMA HeldRowsOpen ==
    ASSUME QueueInv, Next, NEW v \in Worker, Holds(v), Holds(v)',
           job'[v] = job[v], job[v] \notin doubled'
    PROVE  /\ task'[job[v]] \in {"pending", "running"}
           /\ run'[job[v]] \in {"pending", "running"}
<1>0. HeldBy(v) /\ job[v] \in Job /\ job[v] \notin doubled
  BY DoubledGrows DEF QueueInv, HeldInv, HeldBy, WorkerInv
<1>1. CASE UNCHANGED Rows(job[v])
  BY <1>0, <1>1 DEF HeldBy, Rows
<1>2. CASE Enqueue(job[v])
  BY <1>0, <1>2 DEF HeldBy, Enqueue, QueueInv, TypeOK
<1>3. CASE Expire(job[v])
  BY <1>0, <1>3 DEF HeldBy, Expire
<1>4. CASE task'[job[v]] = "pending" /\ run'[job[v]] \in {run[job[v]], "pending"}
  BY <1>0, <1>4 DEF HeldBy
<1>5. ASSUME NEW w \in Worker, Claim(w, job[v]) PROVE FALSE
  <2>1. v # w
    BY <1>5 DEF Claim, Holds
  <2>. QED
    BY <1>0, <1>5, <2>1 DEF Claim
<1>6. ASSUME NEW w \in Worker, job[w] = job[v], Succeed(w) \/ FailWrite(w)
      PROVE  FALSE
  <2>1. Holds(w) /\ ~Holds(w)'
    BY <1>6 DEF Succeed, FailWrite, Leave, Goto, Holds, QueueInv, TypeOK
  <2>. QED
    BY <1>0, <1>6, <2>1 DEF QueueInv, AloneInv
<1>. QED
  BY <1>0, <1>1, <1>2, <1>3, <1>4, <1>5, <1>6, RowWriters

LEMMA HeldStaysOpen ==
    ASSUME QueueInv, Next PROVE HeldInv'
<1> SUFFICES ASSUME NEW v \in Worker, Holds(v)', job'[v] \notin doubled'
             PROVE  HeldBy(v)'
  BY DEF HeldInv, HeldBy
<1>1. CASE Holds(v) /\ job'[v] = job[v]
  <2>1. job[v] \notin doubled
    BY <1>1, DoubledGrows
  <2>. QED
    BY <1>1, <2>1, FailuresPrepare, HeldRowsOpen DEF HeldBy, Prepared
<1>2. ASSUME NEW j \in Job, Claim(v, j), job'[v] = j, pc'[v] = "import"
      PROVE  HeldBy(v)'
  BY <1>2 DEF Claim, HeldBy, QueueInv, TypeOK
<1>. QED
  BY <1>1, <1>2, HoldersOnlyClaim

\* Success is written by a worker that saw every snapshot stored.
LEMMA SuccessIsEarned ==
    ASSUME QueueInv, Next PROVE SucceededMeansImported'
<1> SUFFICES ASSUME NEW j \in Job, task'[j] = "succeeded", NEW n \in NovelsOf[j]
             PROVE  snap'[j][n] # 0
  BY DEF SucceededMeansImported
<1>0. n \in Novel
  BY QueueAssumption DEF QueueAssumption
<1>1. SUFFICES snap[j][n] # 0
  BY <1>0, <1>1, SnapshotsKept
<1>2. CASE task[j] = "succeeded"
  BY <1>2 DEF QueueInv, SucceededMeansImported
<1>3. CASE task[j] # "succeeded"
  <2>1. PICK w \in Worker : Succeed(w)
    <3>1. ASSUME NEW i \in Job, Enqueue(i) PROVE FALSE
      BY <1>3, <3>1 DEF Enqueue, QueueInv, TypeOK
    <3>2. ASSUME NEW c \in Caller, RetryWrite(c) PROVE FALSE
      BY <1>3, <3>2 DEF RetryWrite, Flush, QueueInv, TypeOK
    <3>3. ASSUME NEW w \in Worker, Requeue(w) PROVE FALSE
      BY <1>3, <3>3 DEF Requeue, QueueInv, TypeOK
    <3>4. ASSUME NEW w \in Worker, NEW i \in Job, Claim(w, i) PROVE FALSE
      BY <1>3, <3>4 DEF Claim, QueueInv, TypeOK
    <3>5. ASSUME NEW w \in Worker, FailWrite(w) PROVE FALSE
      BY <1>3, <3>5 DEF FailWrite, Flush, QueueInv, TypeOK
    <3>6. ~UNCHANGED task
      BY <1>3
    <3>. QED
      BY <3>1, <3>2, <3>3, <3>4, <3>5, <3>6 DEF Next, Work, Expire, Refresh,
         RetryReadRun, RetryReadTask, Scan, NothingToDo, Restart, Import,
         CommitImport, InsertFails, FailReadTask, FailReadRun, Die, queue
  <2>2. job[w] = j
    BY <1>3, <2>1 DEF Succeed, Flush, QueueInv, TypeOK
  <2>. QED
    BY <2>1, <2>2 DEF Succeed, QueueInv, WorkerInv
<1>. QED
  BY <1>2, <1>3

LEMMA QueueStep == QueueInv /\ [Next]_vars => QueueInv'
<1>1. ASSUME QueueInv, Next PROVE QueueInv'
  BY <1>1, QueueTypes, WorkersKnow, SharedIsDoubled, HeldStaysOpen, CallersKnow,
     SuccessIsEarned, RowsAgree
  DEF QueueInv
<1>2. ASSUME QueueInv, UNCHANGED vars PROVE QueueInv'
  BY <1>2 DEF vars, QueueInv, TypeOK, WorkerInv, AloneInv, HeldInv, Holds,
     CallerInv, SucceededMeansImported, RunMatchesTask, RunningIsLeased
<1>. QED
  BY <1>1, <1>2

LEMMA QueueHolds == Spec => []QueueInv
BY QueueInit, QueueStep, PTL DEF Spec

\* A job reported succeeded has all its snapshots, for any number of workers
\* that process it at the same time (author_v_jobs.py:164).
THEOREM SuccessIsComplete == Spec => []SucceededMeansImported
<1>1. QueueInv => SucceededMeansImported
  BY DEF QueueInv
<1>. QED
  BY <1>1, QueueHolds, PTL

\* Run and task of a job agree until two living workers have it at once, for
\* any number of workers and retries (author_v_jobs.py:171): whoever fails
\* finds both rows open and writes both.
THEOREM StatusesAgree == Spec => []RunMatchesTask
<1>1. QueueInv => RunMatchesTask
  BY DEF QueueInv
<1>. QED
  BY <1>1, QueueHolds, PTL

\* A running task can be found by the scan for expired leases, with the same
\* exception (author_v_jobs.py:105).
THEOREM RunningTasksAreLeased == Spec => []RunningIsLeased
<1>1. QueueInv => RunningIsLeased
  BY DEF QueueInv
<1>. QED
  BY <1>1, QueueHolds, PTL

\* Snapshots are immutable.
THEOREM SnapshotsNeverChange == Spec => SnapshotsAreImmutable
<1>1. QueueInv /\ [Next]_vars =>
        [\A j \in Job, n \in Novel : snap[j][n] # 0 => snap'[j][n] = snap[j][n]]_vars
  BY SnapshotsKept
<1>. QED
  BY <1>1, QueueHolds, PTL DEF Spec, SnapshotsAreImmutable
=============================================================================
