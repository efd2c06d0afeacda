------------------------------ MODULE ApiGate ------------------------------
(***************************************************************************)
(* What a request to /api/v1 passes before and after its endpoint: the     *)
(* authorizer of the trusted proxy, the fixed-window rate limiter that the *)
(* worker processes share through PostgreSQL, and the access audit with    *)
(* its retention.  The middleware is asynchronous and everything up to the *)
(* endpoint is a synchronous call in it, so one worker decides one request *)
(* at a time; the requests it has let in wait for their endpoints together.*)
(*                                                                         *)
(* The limiter reads the clock first and locks the consumer's row after,   *)
(* so a request may be decided in a window that is already over.           *)
(*                                                                         *)
(* A process without the shared controls, which is the default, has no     *)
(* limiter and logs its decisions: it serves whom the authorizer lets      *)
(* through, and none of that is in the tables.                             *)
(***************************************************************************)
EXTENDS Integers, FiniteSets

NoOne == "no request"            \* nobody holds the lock
Anonymous == "anonymous"         \* consumer_key IS NULL

CONSTANTS
    Workers,        \* worker processes on one PostgreSQL
    Subjects,       \* subjects the proxy vouches for; a key is one's digest
    Requests,       \* places for the requests in flight
    MaxAudits,      \* bound of the dates at which decisions are recorded
    MaxTime,        \* bound of the clock
    MaxRequests,    \* PYURI_API_RATE_LIMIT_MAX_REQUESTS
    WindowSeconds,  \* PYURI_API_RATE_LIMIT_WINDOW_SECONDS
    MaxConsumers,   \* PYURI_API_RATE_LIMIT_MAX_CONSUMERS
    MaxAge,         \* PYURI_TRUSTED_PROXY_MAX_AGE_SECONDS
    Skew,           \* how far ahead an assertion may be issued, 5 seconds
    Retention       \* PYURI_API_AUDIT_RETENTION_DAYS

ApiGateAssumption ==
    /\ IsFiniteSet(Workers) /\ Workers # {}
    /\ IsFiniteSet(Subjects) /\ Anonymous \notin Subjects
    /\ NoOne \notin Requests
    /\ {MaxAudits, MaxTime, MaxAge, Skew} \subseteq Nat
    /\ {MaxRequests, WindowSeconds, MaxConsumers, Retention}
         \subseteq Nat \ {0}
ASSUME ApiGateAssumption

VARIABLES
    now,       \* the clock of the host
    mode,      \* PYURI_CONSUMER_AUTH_MODE
    controls,  \* the workers with PYURI_SHARED_CONSUMER_CONTROLS_ENABLED
    rows,      \* api_consumer_rate_limit_windows, by consumer key
    lock,      \* the request that holds _NEW_CONSUMER_ADVISORY_LOCK
    req,       \* the requests in flight, by place
    audit,     \* api_consumer_access_audits
    spent,     \* history: slots committed, by consumer and window
    logged     \* history: the decisions recorded, and when

limiter == <<rows, lock, spent>>
sink == <<audit, logged>>
config == <<mode, controls>>
vars == <<now, config, limiter, req, sink>>

Modes == {"disabled", "trusted_hmac_proxy"}
Refusals == {"authentication_failed", "authorization_unavailable",
             "scope_denied", "rate_limited", "rate_limit_unavailable"}
Outcomes == Refusals \cup {"private_boundary", "authenticated"}
Deciding == {"select", "lock", "insert"}
Open == Deciding \cup {"serve", "finish"}

(* A request: the worker that took it, its consumer_key, the window_start  *)
(* it read, its auth_outcome, and whether its slot was committed.          *)
Idle == [pc |-> "idle", worker |-> NoOne, key |-> Anonymous, start |-> 0,
         outcome |-> "private_boundary", charged |-> FALSE]

(* What a request carries: the headers of an assertion, malformed or with  *)
(* a signature that is not the proxy's, or one of the proxy's own; or      *)
(* something that makes the authorizer raise.                              *)
Assertions == [genuine : BOOLEAN, raises : BOOLEAN, subject : Subjects,
               scoped : BOOLEAN, issued_at : {0, MaxTime}]

Init ==
    /\ now = 0 /\ mode \in Modes /\ controls \in SUBSET Workers
    /\ rows = [k \in {} |-> 0] /\ lock = NoOne
    /\ req = [r \in Requests |-> Idle]
    /\ audit = {} /\ logged = {}
    /\ spent = [k \in Subjects |-> [t \in 0 .. MaxTime |-> 0]]

Tick ==
    /\ now < MaxTime /\ now' = now + 1
    /\ UNCHANGED <<config, limiter, req, sink>>

-----------------------------------------------------------------------------
(* Authorization. *)

WindowStart(t) == t - (t % WindowSeconds)

(* The age of an assertion, and its scope, as TrustedHmacProxyAuthorizer   *)
(* and the middleware judge them. *)
Fresh(a) == now - a.issued_at \in -Skew .. MaxAge

Judge(a) ==
    CASE mode = "disabled" -> "private_boundary"
      [] a.raises -> "authorization_unavailable"
      [] ~a.genuine \/ ~Fresh(a) -> "authentication_failed"
      [] ~a.scoped -> "scope_denied"
      [] OTHER -> "authenticated"

(* Where a request of worker w goes on: an authenticated one, to the       *)
(* limiter if there is one.                                                *)
Entry(w, outcome) ==
    CASE outcome = "private_boundary" -> "serve"
      [] outcome = "authenticated" -> IF w \in controls THEN "select" ELSE "serve"
      [] OTHER -> "finish"

(* A free worker takes a request, and reads the clock once more for the    *)
(* limiter. The consumer is known even when its scope is not enough.       *)
Free(w) == \A q \in Requests : req[q].worker = w => req[q].pc \notin Deciding

Arrive(r, w, a) ==
    LET known == Judge(a) \in {"scope_denied", "authenticated"}
        entry == Entry(w, Judge(a))
    IN
    /\ req[r] = Idle /\ Free(w)
    /\ req' = [req EXCEPT ![r] =
         [pc |-> entry, worker |-> w,
          key |-> IF known THEN a.subject ELSE Anonymous,
          start |-> IF entry = "select" THEN WindowStart(now) ELSE 0,
          outcome |-> Judge(a), charged |-> FALSE]]
    /\ UNCHANGED <<now, config, limiter, sink>>

-----------------------------------------------------------------------------
(* The limiter.  A commit fails, or succeeds without the caller learning   *)
(* of it: either way the middleware answers 503.                           *)

Commits == {"ok", "abort", "ack_lost"}

Goto(r, p) == req' = [req EXCEPT ![r].pc = p]

Answer(r, o) ==
    req' = [req EXCEPT ![r] = [@ EXCEPT !.pc = "finish", !.outcome = o]]

(* check raised: the middleware does not let the request in. *)
Unavailable(r) == Answer(r, "rate_limit_unavailable")

LetIn(r) ==
    req' = [req EXCEPT ![r] = [@ EXCEPT !.pc = "serve", !.charged = TRUE]]

With(k, row) == [x \in DOMAIN rows \cup {k} |-> IF x = k THEN row ELSE rows[x]]

Charge(r, n, c) ==
    /\ \/ c = "abort" /\ UNCHANGED <<rows, spent>>
       \/ /\ c # "abort"
          /\ rows' = With(req[r].key, [window_started_at |-> req[r].start,
                                      request_count |-> n])
          /\ spent' = [spent EXCEPT ![req[r].key][req[r].start] = @ + 1]
    /\ IF c = "ok" THEN LetIn(r) ELSE Unavailable(r)

Deny(r, c) ==
    /\ IF c = "ok" THEN Answer(r, "rate_limited") ELSE Unavailable(r)
    /\ UNCHANGED <<rows, spent>>

(* Mutant: every request starts a window. *)
UsedNever(r) == 0

(* Mutant: the row counts for whatever window it is asked for. *)
UsedEver(r) == rows[req[r].key].request_count

(* The slots of its window that the row counts; a row of another window,  *)
(* newer or older, is started anew.                                        *)
Used(r) ==
    IF rows[req[r].key].window_started_at # req[r].start
    THEN 0 ELSE rows[req[r].key].request_count

(* The row is locked from the select to the commit. *)
Decide(r, c) ==
    \/ Used(r) < MaxRequests /\ Charge(r, Used(r) + 1, c)
    \/ Used(r) >= MaxRequests /\ Deny(r, c)

Select(r, c) ==
    /\ req[r].pc = "select"
    /\ \/ req[r].key \in DOMAIN rows /\ Decide(r, c)
       \/ /\ req[r].key \notin DOMAIN rows
          /\ Goto(r, "lock") /\ UNCHANGED <<rows, spent>>
    /\ UNCHANGED <<now, config, lock, sink>>

(* Mutant: new consumers are counted without the advisory lock. *)
LockShared(r, c) ==
    /\ req[r].pc = "lock"
    /\ \/ req[r].key \in DOMAIN rows /\ Decide(r, c) /\ UNCHANGED lock
       \/ /\ req[r].key \notin DOMAIN rows
          /\ Cardinality(DOMAIN rows) < MaxConsumers
          /\ lock' = r /\ Goto(r, "insert")
          /\ UNCHANGED <<rows, spent>>
    /\ UNCHANGED <<now, config, sink>>

(* The advisory lock is the transaction's: every way out releases it.  The *)
(* row is selected again, and the consumers counted, under the lock.       *)
Lock(r, c) ==
    /\ req[r].pc = "lock" /\ lock = NoOne
    /\ \/ req[r].key \in DOMAIN rows /\ Decide(r, c) /\ UNCHANGED lock
       \/ /\ req[r].key \notin DOMAIN rows
          /\ Cardinality(DOMAIN rows) >= MaxConsumers
          /\ Unavailable(r) /\ UNCHANGED limiter
       \/ /\ req[r].key \notin DOMAIN rows
          /\ Cardinality(DOMAIN rows) < MaxConsumers
          /\ lock' = r /\ Goto(r, "insert")
          /\ UNCHANGED <<rows, spent>>
    /\ UNCHANGED <<now, config, sink>>

Insert(r, c) ==
    /\ req[r].pc = "insert"
    /\ Charge(r, 1, c)
    /\ lock' = NoOne
    /\ UNCHANGED <<now, config, sink>>

-----------------------------------------------------------------------------
(* The endpoint, if the request gets that far, and the audit of the       *)
(* decision, in the table or in the worker's log.  A failure of the sink   *)
(* is suppressed.                                                          *)

(* Of a row of the audit the model keeps its dates.  *)
Event == [occurred_at |-> now, retention_until |-> now + Retention]

Record ==
    /\ Cardinality(logged) < MaxAudits
    /\ audit' = audit \cup {Event}
    /\ logged' = logged \cup {Event}

Finish(r) ==
    /\ req[r].pc \in {"serve", "finish"}
    /\ req' = [req EXCEPT ![r] = Idle]
    /\ (req[r].worker \in controls /\ Record) \/ UNCHANGED sink
    /\ UNCHANGED <<now, config, limiter>>

(* Mutant: the purge goes by the date of the decision. *)
PurgeOld ==
    /\ audit' = {e \in audit : e.occurred_at >= now}
    /\ UNCHANGED <<now, config, limiter, req, logged>>

PurgeExpired ==
    /\ audit' = {e \in audit : e.retention_until > now}
    /\ UNCHANGED <<now, config, limiter, req, logged>>

(* Mutant: the lock outlives the worker. *)
ReleasedNever(gone) == lock

(* A worker dies: its connections close, so its transaction rolls back and *)
(* its locks are released; its requests get no answer and no audit.        *)
Released(gone) == IF lock \in gone THEN NoOne ELSE lock

Die(w) ==
    LET gone == {r \in Requests : req[r].worker = w} IN
    /\ gone # {}
    /\ req' = [r \in Requests |-> IF r \in gone THEN Idle ELSE req[r]]
    /\ lock' = Released(gone)
    /\ UNCHANGED <<now, config, rows, spent, sink>>

-----------------------------------------------------------------------------

Acquire(r) == \E c \in Commits : Lock(r, c)

Step(r) ==
    \/ \E c \in Commits : Select(r, c) \/ Insert(r, c)
    \/ Acquire(r)
    \/ Finish(r)

Next ==
    \/ Tick \/ PurgeExpired
    \/ \E w \in Workers : Die(w)
    \/ \E r \in Requests :
         \/ \E w \in Workers, a \in Assertions : Arrive(r, w, a)
         \/ Step(r)

(* A worker goes on with a request it took, and PostgreSQL serves those    *)
(* that wait for a lock in the order in which they came.                   *)
Spec ==
    /\ Init /\ [][Next]_vars
    /\ \A r \in Requests : WF_vars(Step(r)) /\ SF_vars(Acquire(r))

-----------------------------------------------------------------------------
(* Properties *)

Request == [pc : Open \cup {"idle"}, worker : Workers \cup {NoOne},
            key : Subjects \cup {Anonymous}, start : 0 .. MaxTime,
            outcome : Outcomes, charged : BOOLEAN]

TypeOK ==
    /\ now \in 0 .. MaxTime /\ mode \in Modes /\ controls \in SUBSET Workers
    /\ DOMAIN rows \subseteq Subjects
    /\ rows \in [DOMAIN rows -> [window_started_at : 0 .. MaxTime,
                                 request_count : Nat]]
    /\ lock \in Requests \cup {NoOne}
    /\ req \in [Requests -> Request]
    /\ spent \in [Subjects -> [0 .. MaxTime -> Nat]]

(* WindowAllowance: however the workers interleave, one consumer is given  *)
(* in one window no more than the limit times the number of workers, and   *)
(* one for each worker but one.  One worker keeps the limit exactly; with  *)
(* several, each may be late once, put the row back to the window before   *)
(* and so start the count of this window anew, or be counted after it.     *)
WindowAllowance ==
    \A k \in Subjects, t \in 0 .. MaxTime :
        spent[k][t] <= (MaxRequests + 1) * Cardinality(Workers) - 1

(* CapacityKept: the table never holds more consumers than max_consumers,  *)
(* though each request counts them before it inserts its own.              *)
CapacityKept == Cardinality(DOMAIN rows) <= MaxConsumers

(* AnswersAreEarned: a consumer answered 429 had max_requests slots of     *)
(* that very window charged, whatever windows other workers put the row    *)
(* to; and behind the proxy a worker with the shared controls calls an     *)
(* endpoint only for a request whose slot was committed: a limiter that    *)
(* fails lets nobody in.  A worker without them, the default, charges      *)
(* nobody.                                                                 *)
AnswersAreEarned ==
    \A r \in Requests :
        /\ req[r].outcome = "rate_limited" =>
               spent[req[r].key][req[r].start] >= MaxRequests
        /\ /\ mode = "trusted_hmac_proxy" /\ req[r].pc = "serve"
           /\ req[r].worker \in controls
           => req[r].charged

(* AuditIsKept: a decision that was recorded can be read, as it was        *)
(* recorded, until its retention deadline passes.                          *)
AuditIsKept == \A e \in logged : e.occurred_at + Retention > now => e \in audit

(* RequestsEnd: no request waits for ever for a lock: each is answered,    *)
(* or lost with its worker.                                                *)
RequestsEnd == \A r \in Requests : req[r].pc \in Open ~> req[r] = Idle

-----------------------------------------------------------------------------
(* The inductive invariant behind the safety properties *)

(* Who is being decided is an authenticated consumer. *)
DecidingInv ==
    \A r \in Requests :
        /\ req[r].pc \in Deciding => /\ req[r].key \in Subjects
                                    /\ req[r].outcome = "authenticated"
        /\ req[r].outcome = "rate_limited" => req[r].key \in Subjects

(* What a request found under the advisory lock still holds: only the one  *)
(* that holds it adds a row.                                               *)
LockInv ==
    \A r \in Requests :
        req[r].pc = "insert" =>
            /\ lock = r
            /\ req[r].key \notin DOMAIN rows
            /\ Cardinality(DOMAIN rows) < MaxConsumers

(* A row counts no more slots than were charged in its window. *)
RowInv ==
    \A k \in DOMAIN rows :
        rows[k].request_count <= spent[k][rows[k].window_started_at]

(* A decision is in the audit, or past its deadline. *)
AuditInv ==
    \A e \in logged :
        /\ e.occurred_at \in Nat
        /\ e.retention_until = e.occurred_at + Retention
        /\ e \in audit \/ e.retention_until <= now

GateInv ==
    /\ TypeOK /\ DecidingInv /\ LockInv /\ RowInv /\ AuditInv
    /\ CapacityKept /\ AnswersAreEarned

-----------------------------------------------------------------------------
(* The inductive invariant behind WindowAllowance *)

(* The workers that decide a request of an earlier window, and of window t. *)
Late(t) == {w \in Workers : \E r \in Requests :
               req[r].worker = w /\ req[r].pc \in Deciding /\ req[r].start < t}
Holding(t) == {w \in Workers : \E r \in Requests :
               req[r].worker = w /\ req[r].pc \in Deciding /\ req[r].start = t}

(* Those that are not late in window t, and will not be any more. *)
Punctual(t) == Cardinality(Workers) - Cardinality(Late(t))

RowAt(k, t) == k \in DOMAIN rows /\ rows[k].window_started_at = t
Counted(k, t) == IF RowAt(k, t) THEN rows[k].request_count ELSE 0

(* What n full counts of a row allow. *)
Quota(n) == MaxRequests * n

(* A worker decides one request, whose window has begun. *)
OneAtATime ==
    /\ \A r \in Requests :
          req[r].pc \in Deciding =>
              req[r].worker \in Workers /\ req[r].start <= WindowStart(now)
    /\ \A r, q \in Requests :
          (/\ req[r].pc \in Deciding /\ req[q].pc \in Deciding
           /\ req[r].worker = req[q].worker) => r = q

(* Each row was charged for, and counts up to the limit. *)
RowsCount ==
    /\ \A k \in DOMAIN rows : rows[k].request_count <= MaxRequests
    /\ \A k \in Subjects \ DOMAIN rows, t \in 0 .. MaxTime : spent[k][t] = 0

(* In the current window the row may have been started anew once for each  *)
(* worker that was late. *)
CurrentWindow(k, t) ==
    \/ spent[k][t] = 0
    \/ /\ Punctual(t) >= 1
       /\ spent[k][t] <= Quota(Punctual(t) - 1) + Counted(k, t)

(* After it, either the row still counts for it, or some worker is past it *)
(* and each of the others may be given one slot more. *)
PastWindow(k, t) ==
    \/ /\ RowAt(k, t)
       /\ spent[k][t] <= Quota(Cardinality(Workers) - 1) + Counted(k, t)
    \/ spent[k][t] + Cardinality(Holding(t))
           <= Quota(Cardinality(Workers)) + Cardinality(Workers) - 1

Allowance(k, t) ==
    /\ t > WindowStart(now) => spent[k][t] = 0
    /\ t = WindowStart(now) => CurrentWindow(k, t)
    /\ t < WindowStart(now) => PastWindow(k, t)

WindowInv ==
    /\ OneAtATime /\ RowsCount
    /\ \A k \in Subjects, t \in 0 .. MaxTime : Allowance(k, t)
=============================================================================
