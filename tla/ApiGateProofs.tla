--------------------------- MODULE ApiGateProofs ---------------------------
(***************************************************************************)
(* Proofs about the gate of the read API, for every number of workers,     *)
(* consumers and requests and every limit, window and retention.           *)
(***************************************************************************)
EXTENDS ApiGate, FiniteSetTheorems, TLAPS

(* The middleware and the limiter only write places of req; everything a   *)
(* step says of a request is said of one place.                            *)

\* A window begins no later than the time it is asked for.
LEMMA WindowStarts ==
    ASSUME NEW t \in 0 .. MaxTime
    PROVE  WindowStart(t) \in 0 .. MaxTime
<1>1. WindowSeconds \in Nat \ {0} /\ MaxTime \in Nat
  BY ApiGateAssumption DEF ApiGateAssumption
<1>2. t % WindowSeconds \in 0 .. t
  BY <1>1
<1>. QED  BY <1>1, <1>2 DEF WindowStart

LEMMA RowsFinite == ASSUME TypeOK PROVE IsFiniteSet(DOMAIN rows)
BY ApiGateAssumption, FS_Subset DEF TypeOK, ApiGateAssumption

\* The first state: nobody was charged and nothing recorded.
LEMMA InitGate == Init => GateInv
<1>. SUFFICES ASSUME Init PROVE GateInv  OBVIOUS
<1>1. TypeOK
  BY ApiGateAssumption DEF Init, TypeOK, Request, Idle, Modes, Outcomes, Open, ApiGateAssumption
<1>2. DecidingInv /\ LockInv /\ AnswersAreEarned
  BY DEF Init, Idle, DecidingInv, LockInv, AnswersAreEarned, Deciding
<1>3. RowInv /\ AuditInv
  BY DEF Init, RowInv, AuditInv
<1>4. CapacityKept
  BY ApiGateAssumption, FS_EmptySet DEF Init, CapacityKept, ApiGateAssumption
<1>. QED  BY <1>1, <1>2, <1>3, <1>4 DEF GateInv
-----------------------------------------------------------------------------
(* The invariant is preserved, one action at a time *)

LEMMA TickGate == GateInv /\ Tick => GateInv'
<1>. SUFFICES ASSUME GateInv, Tick PROVE GateInv'  OBVIOUS
<1>. USE DEF GateInv, config, Tick, limiter, sink
<1>0. MaxTime \in Nat /\ Retention \in Nat
  BY ApiGateAssumption DEF ApiGateAssumption
<1>1. TypeOK'
  BY <1>0 DEF TypeOK
<1>2. DecidingInv' /\ LockInv' /\ AnswersAreEarned'
  BY DEF DecidingInv, LockInv, AnswersAreEarned
<1>3. RowInv' /\ CapacityKept'
  BY DEF RowInv, CapacityKept
<1>4. AuditInv'
  BY <1>0 DEF AuditInv, TypeOK
<1>. QED  BY <1>1, <1>2, <1>3, <1>4

LEMMA PurgeGate == GateInv /\ PurgeExpired => GateInv'
<1>. SUFFICES ASSUME GateInv, PurgeExpired PROVE GateInv'  OBVIOUS
<1>. USE DEF GateInv, config, PurgeExpired, limiter
<1>1. TypeOK' /\ RowInv' /\ CapacityKept'
  BY DEF TypeOK, RowInv, CapacityKept
<1>2. DecidingInv' /\ LockInv' /\ AnswersAreEarned'
  BY DEF DecidingInv, LockInv, AnswersAreEarned
<1>3. AuditInv'
  BY ApiGateAssumption DEF AuditInv, TypeOK, ApiGateAssumption
<1>. QED  BY <1>1, <1>2, <1>3

LEMMA DieGate == ASSUME NEW w \in Workers, GateInv, Die(w) PROVE GateInv'
<1>. USE DEF GateInv, config, Die, sink
<1>1. TypeOK'
  BY ApiGateAssumption DEF TypeOK, Request, Idle, Released, Outcomes, Open, ApiGateAssumption
<1>2. DecidingInv' /\ AnswersAreEarned'
  BY DEF DecidingInv, AnswersAreEarned, Idle, Deciding, TypeOK
<1>3. LockInv'
  BY DEF LockInv, Idle, Released
<1>4. RowInv' /\ CapacityKept' /\ AuditInv'
  BY DEF RowInv, CapacityKept, AuditInv
<1>. QED  BY <1>1, <1>2, <1>3, <1>4

\* Only a request without a proxy in front, or to a worker without the shared
\* controls, goes to its endpoint at once.
LEMMA ArriveGate ==
    ASSUME NEW r \in Requests, NEW w \in Workers, NEW a \in Assertions,
           GateInv, Arrive(r, w, a)
    PROVE  GateInv'
<1>. USE DEF GateInv, config, Arrive, limiter, sink
<1>0. /\ Judge(a) \in Outcomes
      /\ Judge(a) # "rate_limited"
      /\ Judge(a) = "private_boundary" => mode = "disabled"
      /\ Entry(w, Judge(a)) \in {"serve", "select", "finish"}
      /\ Entry(w, Judge(a)) = "select" => Judge(a) = "authenticated"
      /\ Entry(w, Judge(a)) = "serve" => mode = "disabled" \/ w \notin controls
      /\ a.subject \in Subjects
      /\ WindowStart(now) \in 0 .. MaxTime /\ 0 \in 0 .. MaxTime
  <2>1. WindowStart(now) \in 0 .. MaxTime
    BY WindowStarts DEF TypeOK
  <2>2. 0 \in 0 .. MaxTime
    BY ApiGateAssumption DEF ApiGateAssumption
  <2>. QED  BY <2>1, <2>2 DEF Judge, Entry, Outcomes, Refusals, Assertions, Modes
<1>1. TypeOK'
  BY <1>0 DEF TypeOK, Request, Open, Deciding
<1>2. DecidingInv'
  BY <1>0 DEF DecidingInv, Deciding, TypeOK
<1>3. LockInv'
  BY <1>0 DEF LockInv, TypeOK
<1>4. AnswersAreEarned'
  BY <1>0 DEF AnswersAreEarned, TypeOK
<1>5. RowInv' /\ CapacityKept' /\ AuditInv'
  BY DEF RowInv, CapacityKept, AuditInv
<1>. QED  BY <1>1, <1>2, <1>3, <1>4, <1>5

LEMMA FinishGate == ASSUME NEW r \in Requests, GateInv, Finish(r) PROVE GateInv'
<1>. USE DEF GateInv, config, Finish, limiter
<1>1. TypeOK'
  BY ApiGateAssumption DEF TypeOK, Request, Idle, Outcomes, Open, ApiGateAssumption
<1>2. DecidingInv' /\ LockInv' /\ AnswersAreEarned'
  BY DEF DecidingInv, LockInv, AnswersAreEarned, Idle, Deciding, TypeOK
<1>3. RowInv' /\ CapacityKept'
  BY DEF RowInv, CapacityKept
<1>4. AuditInv'
  BY ApiGateAssumption DEF AuditInv, Record, Event, sink, TypeOK, ApiGateAssumption
<1>. QED  BY <1>1, <1>2, <1>3, <1>4
-----------------------------------------------------------------------------
(* The limiter *)

\* What the limiter leaves alone: the clock, the configuration and the audit.
Rest == UNCHANGED <<now, config, audit, logged>>

\* The row of a consumer that is being decided counts no slot that was not
\* charged in the window the request read.
LEMMA UsedIsSpent ==
    ASSUME GateInv, NEW r \in Requests, req[r].pc \in Deciding,
           req[r].key \in DOMAIN rows
    PROVE  Used(r) \in Nat /\ Used(r) <= spent[req[r].key][req[r].start]
<1>1. req[r].key \in Subjects
  BY DEF GateInv, DecidingInv
<1>2. req[r].start \in 0 .. MaxTime
  BY DEF GateInv, TypeOK, Request
<1>3. spent[req[r].key][req[r].start] \in Nat
  BY <1>1, <1>2 DEF GateInv, TypeOK
<1>4. /\ rows[req[r].key].request_count \in Nat
      /\ rows[req[r].key].request_count
             <= spent[req[r].key][rows[req[r].key].window_started_at]
  BY DEF GateInv, TypeOK, RowInv
<1>. QED  BY <1>3, <1>4 DEF Used

\* The place of the request is the only one that is written.
LEMMA AnswerWrites ==
    ASSUME TypeOK, NEW r \in Requests, NEW o \in Outcomes, Answer(r, o)
    PROVE  /\ req' \in [Requests -> Request]
           /\ \A q \in Requests \ {r} : req'[q] = req[q]
           /\ req'[r].pc = "finish" /\ req'[r].outcome = o
           /\ req'[r].key = req[r].key /\ req'[r].start = req[r].start
<1>1. req[r] \in Request /\ req \in [Requests -> Request]
  BY DEF TypeOK
<1>2. req' = [req EXCEPT ![r] = [req[r] EXCEPT !.pc = "finish", !.outcome = o]]
  BY DEF Answer
<1>3. [req[r] EXCEPT !.pc = "finish", !.outcome = o] \in Request
  BY <1>1 DEF Request, Open
<1>4. req'[r] = [req[r] EXCEPT !.pc = "finish", !.outcome = o]
  BY <1>1, <1>2
<1>. QED  BY <1>1, <1>2, <1>3, <1>4 DEF Request

LEMMA LetInWrites ==
    ASSUME TypeOK, NEW r \in Requests, LetIn(r)
    PROVE  /\ req' \in [Requests -> Request]
           /\ \A q \in Requests \ {r} : req'[q] = req[q]
           /\ req'[r].pc = "serve" /\ req'[r].charged
           /\ req'[r].outcome = req[r].outcome
           /\ req'[r].key = req[r].key /\ req'[r].start = req[r].start
<1>1. req[r] \in Request /\ req \in [Requests -> Request]
  BY DEF TypeOK
<1>2. req' = [req EXCEPT ![r] = [req[r] EXCEPT !.pc = "serve", !.charged = TRUE]]
  BY DEF LetIn
<1>3. [req[r] EXCEPT !.pc = "serve", !.charged = TRUE] \in Request
  BY <1>1 DEF Request, Open
<1>4. req'[r] = [req[r] EXCEPT !.pc = "serve", !.charged = TRUE]
  BY <1>1, <1>2
<1>. QED  BY <1>1, <1>2, <1>3, <1>4 DEF Request

LEMMA GotoWrites ==
    ASSUME TypeOK, NEW r \in Requests, NEW p \in Open, Goto(r, p)
    PROVE  /\ req' \in [Requests -> Request]
           /\ \A q \in Requests \ {r} : req'[q] = req[q]
           /\ req'[r].pc = p /\ req'[r].outcome = req[r].outcome
           /\ req'[r].key = req[r].key /\ req'[r].start = req[r].start
           /\ req'[r].worker = req[r].worker
<1>1. req[r] \in Request /\ req \in [Requests -> Request]
  BY DEF TypeOK
<1>2. req' = [req EXCEPT ![r] = [req[r] EXCEPT !.pc = p]]
  BY <1>1 DEF Goto
<1>3. [req[r] EXCEPT !.pc = p] \in Request
  BY <1>1 DEF Request
<1>4. req'[r] = [req[r] EXCEPT !.pc = p]
  BY <1>1, <1>2
<1>. QED  BY <1>1, <1>2, <1>3, <1>4 DEF Request

LEMMA UnavailableGate ==
    ASSUME GateInv, NEW r \in Requests, req[r].pc \in Deciding,
           Unavailable(r), UNCHANGED limiter, Rest
    PROVE  GateInv'
<1>. USE DEF GateInv, config, limiter, Rest
<1>0. /\ req' \in [Requests -> Request]
      /\ \A q \in Requests \ {r} : req'[q] = req[q]
      /\ req'[r].pc = "finish" /\ req'[r].outcome = "rate_limit_unavailable"
  BY AnswerWrites DEF Unavailable, Outcomes, Refusals
<1>1. TypeOK'
  BY <1>0 DEF TypeOK
<1>2. DecidingInv' /\ LockInv' /\ AnswersAreEarned'
  BY <1>0 DEF DecidingInv, LockInv, AnswersAreEarned, Deciding
<1>3. RowInv' /\ CapacityKept' /\ AuditInv'
  BY DEF RowInv, CapacityKept, AuditInv
<1>. QED  BY <1>1, <1>2, <1>3

LEMMA DenyGate ==
    ASSUME GateInv, NEW r \in Requests, NEW c, req[r].pc \in Deciding,
           req[r].key \in DOMAIN rows, Used(r) >= MaxRequests,
           Deny(r, c), UNCHANGED lock, Rest
    PROVE  GateInv'
<1>1. CASE c # "ok"
  BY <1>1, UnavailableGate DEF Deny, limiter
<1>2. CASE c = "ok"
  <2>. USE DEF GateInv, config, Rest
  <2>0. /\ req' \in [Requests -> Request]
        /\ \A q \in Requests \ {r} : req'[q] = req[q]
        /\ req'[r].pc = "finish" /\ req'[r].outcome = "rate_limited"
        /\ req'[r].key = req[r].key /\ req'[r].start = req[r].start
        /\ UNCHANGED <<rows, spent>>
    BY <1>2, AnswerWrites DEF Deny, Outcomes, Refusals
  <2>1. TypeOK'
    BY <2>0 DEF TypeOK
  <2>2. DecidingInv' /\ LockInv'
    BY <2>0 DEF DecidingInv, LockInv, Deciding
  <2>3. spent[req[r].key][req[r].start] >= MaxRequests
    <3>1. req[r].key \in Subjects /\ req[r].start \in 0 .. MaxTime
      BY DEF TypeOK, Request, DecidingInv
    <3>2. spent[req[r].key][req[r].start] \in Nat
      BY <3>1 DEF TypeOK
    <3>3. MaxRequests \in Nat
      BY ApiGateAssumption DEF ApiGateAssumption
    <3>4. Used(r) \in Nat /\ Used(r) <= spent[req[r].key][req[r].start]
      BY UsedIsSpent
    <3>. QED  BY <3>2, <3>3, <3>4
  <2>4. AnswersAreEarned'
    BY <2>0, <2>3 DEF AnswersAreEarned
  <2>5. RowInv' /\ CapacityKept' /\ AuditInv'
    BY <2>0 DEF RowInv, CapacityKept, AuditInv
  <2>. QED  BY <2>1, <2>2, <2>4, <2>5
<1>. QED  BY <1>1, <1>2

\* A charge of the n-th slot; what it takes of the lock and of the capacity of
\* the table is the caller's to show.
LEMMA ChargeGate ==
    ASSUME GateInv, NEW r \in Requests, NEW c \in Commits, NEW n \in Nat,
           req[r].pc \in Deciding, n <= spent[req[r].key][req[r].start] + 1,
           Charge(r, n, c), lock' \in Requests \cup {NoOne}, Rest
    PROVE  TypeOK' /\ DecidingInv' /\ RowInv' /\ AuditInv' /\ AnswersAreEarned'
<1>. DEFINE k == req[r].key  t == req[r].start
<1>0. k \in Subjects /\ t \in 0 .. MaxTime /\ req[r].outcome = "authenticated"
  BY DEF GateInv, TypeOK, Request, DecidingInv
<1>1. /\ req' \in [Requests -> Request]
      /\ \A q \in Requests \ {r} : req'[q] = req[q]
      /\ req'[r].pc \in {"serve", "finish"}
      /\ req'[r].pc = "serve" => req'[r].charged
      /\ req'[r].outcome \in {"authenticated", "rate_limit_unavailable"}
  <2>1. CASE c = "ok"
    BY <1>0, <2>1, LetInWrites DEF GateInv, Charge
  <2>2. CASE c # "ok"
    BY <2>2, AnswerWrites DEF GateInv, Charge, Unavailable, Outcomes, Refusals
  <2>. QED  BY <2>1, <2>2
<1>2. /\ spent' \in [Subjects -> [0 .. MaxTime -> Nat]]
      /\ \A j \in Subjects, u \in 0 .. MaxTime : spent'[j][u] >= spent[j][u]
      /\ c # "abort" => spent'[k][t] = spent[k][t] + 1
  <2>0. spent \in [Subjects -> [0 .. MaxTime -> Nat]]
    BY DEF GateInv, TypeOK
  <2>a. \A j \in Subjects, u \in 0 .. MaxTime : spent[j][u] \in Nat
    BY <2>0
  <2>1. CASE c = "abort"
    <3>1. spent' = spent
      BY <2>1 DEF Charge
    <3>. QED  BY <2>0, <2>1, <2>a, <3>1
  <2>2. CASE c # "abort"
    <3>. DEFINE f == [spent[k] EXCEPT ![t] = spent[k][t] + 1]
    <3>1. spent' = [spent EXCEPT ![k] = f]
      BY <2>2, <2>0, <1>0 DEF Charge
    <3>2. spent[k] \in [0 .. MaxTime -> Nat]
      BY <2>0, <1>0
    <3>3. f \in [0 .. MaxTime -> Nat]
      <4>1. spent[k][t] + 1 \in Nat
        BY <1>0, <2>a
      <4>. QED  BY <3>2, <1>0, <4>1
    <3>4. f[t] = spent[k][t] + 1
      BY <3>2, <1>0
    <3>5. \A u \in 0 .. MaxTime : f[u] >= spent[k][u]
      BY <3>2, <2>a, <1>0
    <3>. HIDE DEF f
    <3>6. spent' \in [Subjects -> [0 .. MaxTime -> Nat]]
      BY <3>1, <3>3, <2>0, <1>0
    <3>7. /\ spent'[k] = f
          /\ \A j \in Subjects : j # k => spent'[j] = spent[j]
      BY <3>1, <2>0, <1>0
    <3>8. ASSUME NEW j \in Subjects, NEW u \in 0 .. MaxTime
          PROVE  spent'[j][u] >= spent[j][u]
      <4>1. CASE j = k
        BY <4>1, <3>5, <3>7
      <4>2. CASE j # k
        <5>1. spent'[j] = spent[j]
          BY <4>2, <3>7
        <5>. QED  BY <5>1, <2>a
      <4>. QED  BY <4>1, <4>2
    <3>. QED  BY <3>4, <3>6, <3>7, <3>8
  <2>. QED  BY <2>1, <2>2
<1>3. /\ DOMAIN rows' \subseteq Subjects
      /\ rows' \in [DOMAIN rows' -> [window_started_at : 0 .. MaxTime,
                                     request_count : Nat]]
  <2>1. CASE c = "abort"
    BY <2>1 DEF GateInv, TypeOK, Charge
  <2>2. CASE c # "abort"
    BY <2>2, <1>0 DEF GateInv, TypeOK, Charge, With
  <2>. QED  BY <2>1, <2>2
<1>4. TypeOK'
  BY <1>1, <1>2, <1>3 DEF GateInv, TypeOK, Rest, config
<1>5. DecidingInv'
  BY <1>0, <1>1 DEF GateInv, DecidingInv, Deciding
<1>6. AnswersAreEarned'
  <2>. SUFFICES ASSUME NEW q \in Requests
                PROVE  /\ req'[q].outcome = "rate_limited" =>
                              spent'[req'[q].key][req'[q].start] >= MaxRequests
                       /\ /\ mode' = "trusted_hmac_proxy" /\ req'[q].pc = "serve"
                          /\ req'[q].worker \in controls'
                          => req'[q].charged
    BY DEF AnswersAreEarned
  <2>1. CASE q = r
    BY <1>1, <2>1
  <2>2. CASE q # r
    <3>1. req[q].outcome = "rate_limited" =>
              /\ req[q].key \in Subjects /\ req[q].start \in 0 .. MaxTime
              /\ spent[req[q].key][req[q].start] >= MaxRequests
      BY DEF GateInv, DecidingInv, TypeOK, Request, AnswersAreEarned
    <3>2. req[q].outcome = "rate_limited" =>
              spent'[req[q].key][req[q].start] >= MaxRequests
      <4>1. MaxRequests \in Nat
        BY ApiGateAssumption DEF ApiGateAssumption
      <4>2. ASSUME req[q].key \in Subjects, req[q].start \in 0 .. MaxTime
            PROVE  /\ spent[req[q].key][req[q].start] \in Nat
                   /\ spent'[req[q].key][req[q].start] \in Nat
                   /\ spent'[req[q].key][req[q].start] >= spent[req[q].key][req[q].start]
        BY <4>2, <1>2 DEF GateInv, TypeOK
      <4>. QED  BY <3>1, <4>1, <4>2
    <3>3. req'[q] = req[q]
      BY <2>2, <1>1
    <3>. QED  BY <3>2, <3>3 DEF GateInv, AnswersAreEarned, Rest, config
  <2>. QED  BY <2>1, <2>2
<1>7. RowInv'
  <2>1. CASE c = "abort"
    BY <2>1 DEF GateInv, RowInv, Charge
  <2>2. CASE c # "abort"
    <3>. SUFFICES ASSUME NEW j \in DOMAIN rows'
                  PROVE  rows'[j].request_count <= spent'[j][rows'[j].window_started_at]
      BY DEF RowInv
    <3>1. CASE j = k
      <4>1. rows'[k] = [window_started_at |-> t, request_count |-> n]
        BY <2>2 DEF Charge, With
      <4>. QED  BY <3>1, <4>1, <2>2, <1>2
    <3>2. CASE j # k
      <4>1. j \in DOMAIN rows /\ rows'[j] = rows[j]
        BY <2>2, <3>2 DEF Charge, With
      <4>2. j \in Subjects /\ rows[j].window_started_at \in 0 .. MaxTime
            /\ rows[j].request_count \in Nat
        BY <4>1 DEF GateInv, TypeOK
      <4>3. rows[j].request_count <= spent[j][rows[j].window_started_at]
        BY <4>1 DEF GateInv, RowInv
      <4>4. /\ spent[j][rows[j].window_started_at] \in Nat
            /\ spent'[j][rows[j].window_started_at] \in Nat
            /\ spent'[j][rows[j].window_started_at]
                   >= spent[j][rows[j].window_started_at]
        BY <4>2, <1>2 DEF GateInv, TypeOK
      <4>. QED  BY <4>1, <4>2, <4>3, <4>4
    <3>. QED  BY <3>1, <3>2
  <2>. QED  BY <2>1, <2>2
<1>8. AuditInv'
  BY DEF GateInv, AuditInv, Rest
<1>. QED  BY <1>4, <1>5, <1>6, <1>7, <1>8

\* A decision on a row that is there: no row is added.
LEMMA DecideGate ==
    ASSUME GateInv, NEW r \in Requests, NEW c \in Commits,
           req[r].pc \in {"select", "lock"}, req[r].key \in DOMAIN rows,
           Decide(r, c), UNCHANGED lock, Rest
    PROVE  GateInv'
<1>0. req[r].pc \in Deciding /\ req[r].pc # "insert"
  BY DEF Deciding
<1>1. CASE Used(r) >= MaxRequests /\ Deny(r, c)
  BY <1>0, <1>1, DenyGate
<1>2. CASE Used(r) < MaxRequests /\ Charge(r, Used(r) + 1, c)
  <2>1. Used(r) \in Nat /\ Used(r) <= spent[req[r].key][req[r].start]
    BY <1>0, UsedIsSpent
  <2>2. /\ Used(r) + 1 \in Nat
        /\ Used(r) + 1 <= spent[req[r].key][req[r].start] + 1
    <3>1. req[r].key \in Subjects /\ req[r].start \in 0 .. MaxTime
      BY <1>0 DEF GateInv, TypeOK, Request, DecidingInv
    <3>2. spent[req[r].key][req[r].start] \in Nat
      BY <3>1 DEF GateInv, TypeOK
    <3>. QED  BY <2>1, <3>2
  <2>3. lock' \in Requests \cup {NoOne}
    BY DEF GateInv, TypeOK
  <2>4. TypeOK' /\ DecidingInv' /\ RowInv' /\ AuditInv' /\ AnswersAreEarned'
    BY <1>0, <1>2, <2>2, <2>3, ChargeGate
  <2>5. DOMAIN rows' = DOMAIN rows
    BY <1>2 DEF Charge, With
  <2>6. /\ \A q \in Requests \ {r} : req'[q] = req[q]
        /\ req'[r].pc # "insert"
    BY <1>0, <1>2, LetInWrites, AnswerWrites
       DEF Charge, Unavailable, GateInv, Outcomes, Refusals
  <2>7. LockInv' /\ CapacityKept'
    BY <2>5, <2>6 DEF GateInv, LockInv, CapacityKept
  <2>. QED  BY <2>4, <2>7 DEF GateInv
<1>. QED  BY <1>1, <1>2 DEF Decide

LEMMA SelectGate ==
    ASSUME GateInv, NEW r \in Requests, NEW c \in Commits, Select(r, c)
    PROVE  GateInv'
<1>1. CASE req[r].key \in DOMAIN rows /\ Decide(r, c)
  BY <1>1, DecideGate DEF Select, Rest, sink
<1>2. CASE Goto(r, "lock") /\ UNCHANGED <<rows, spent>>
  <2>. USE DEF GateInv, config, Select, sink
  <2>0. /\ req' \in [Requests -> Request]
        /\ \A q \in Requests \ {r} : req'[q] = req[q]
        /\ req'[r].pc = "lock" /\ req'[r].outcome = req[r].outcome
        /\ req'[r].key = req[r].key /\ req'[r].start = req[r].start
    BY <1>2, GotoWrites DEF Open, Deciding
  <2>1. TypeOK' /\ LockInv'
    BY <1>2, <2>0 DEF TypeOK, LockInv
  <2>2. DecidingInv' /\ AnswersAreEarned'
    BY <1>2, <2>0 DEF DecidingInv, AnswersAreEarned, Deciding
  <2>3. RowInv' /\ CapacityKept' /\ AuditInv'
    BY <1>2 DEF RowInv, CapacityKept, AuditInv
  <2>. QED  BY <2>1, <2>2, <2>3
<1>. QED  BY <1>1, <1>2 DEF Select

LEMMA LockGate ==
    ASSUME GateInv, NEW r \in Requests, NEW c \in Commits, Lock(r, c)
    PROVE  GateInv'
<1>0. Rest
  BY DEF Lock, Rest, sink
<1>1. CASE req[r].key \in DOMAIN rows /\ Decide(r, c) /\ UNCHANGED lock
  BY <1>0, <1>1, DecideGate DEF Lock
<1>2. CASE Unavailable(r) /\ UNCHANGED limiter
  BY <1>0, <1>2, UnavailableGate DEF Lock, Deciding
<1>3. CASE /\ req[r].key \notin DOMAIN rows
           /\ Cardinality(DOMAIN rows) < MaxConsumers
           /\ lock' = r /\ Goto(r, "insert")
           /\ UNCHANGED <<rows, spent>>
  <2>. USE DEF GateInv, config, Rest
  <2>0. /\ req' \in [Requests -> Request]
        /\ \A q \in Requests \ {r} : req'[q] = req[q]
        /\ req'[r].pc = "insert" /\ req'[r].outcome = req[r].outcome
        /\ req'[r].key = req[r].key /\ req'[r].start = req[r].start
    BY <1>3, GotoWrites DEF Open, Deciding
  <2>1. TypeOK'
    BY <1>0, <1>3, <2>0 DEF TypeOK
  <2>2. DecidingInv' /\ AnswersAreEarned'
    BY <1>0, <1>3, <2>0 DEF DecidingInv, AnswersAreEarned, Deciding, Lock
  <2>3. LockInv'
    <3>1. \A q \in Requests : req[q].pc # "insert"
      BY ApiGateAssumption DEF LockInv, Lock, ApiGateAssumption
    <3>. QED  BY <1>3, <2>0, <3>1 DEF LockInv
  <2>4. RowInv' /\ CapacityKept' /\ AuditInv'
    BY <1>0, <1>3 DEF RowInv, CapacityKept, AuditInv
  <2>. QED  BY <2>1, <2>2, <2>3, <2>4
<1>. QED  BY <1>1, <1>2, <1>3 DEF Lock

\* The one row that is added keeps the table within its capacity, because it was
\* counted under the lock that is still held.
LEMMA InsertGate ==
    ASSUME GateInv, NEW r \in Requests, NEW c \in Commits, Insert(r, c)
    PROVE  GateInv'
<1>0. /\ Rest /\ req[r].pc \in Deciding
      /\ lock' = NoOne /\ Charge(r, 1, c)
  BY DEF Insert, Rest, sink, Deciding
<1>1. 1 <= spent[req[r].key][req[r].start] + 1
  <2>1. req[r].key \in Subjects /\ req[r].start \in 0 .. MaxTime
    BY <1>0 DEF GateInv, TypeOK, Request, DecidingInv
  <2>2. spent[req[r].key][req[r].start] \in Nat
    BY <2>1 DEF GateInv, TypeOK
  <2>. QED  BY <2>2
<1>2. TypeOK' /\ DecidingInv' /\ RowInv' /\ AuditInv' /\ AnswersAreEarned'
  BY <1>0, <1>1, ChargeGate
<1>3. /\ \A q \in Requests \ {r} : req'[q] = req[q]
      /\ req'[r].pc # "insert"
  BY <1>0, LetInWrites, AnswerWrites
     DEF Charge, Unavailable, GateInv, Outcomes, Refusals
<1>4. LockInv'
  <2>1. \A q \in Requests \ {r} : req[q].pc # "insert"
    BY DEF GateInv, LockInv, Insert
  <2>. QED  BY <1>3, <2>1 DEF LockInv
<1>5. CapacityKept'
  <2>1. CASE c = "abort"
    BY <1>0, <2>1 DEF Charge, GateInv, CapacityKept
  <2>2. CASE c # "abort"
    <3>1. DOMAIN rows' = DOMAIN rows \cup {req[r].key}
      BY <1>0, <2>2 DEF Charge, With
    <3>2. req[r].key \notin DOMAIN rows /\ Cardinality(DOMAIN rows) < MaxConsumers
      BY DEF GateInv, LockInv, Insert
    <3>3. IsFiniteSet(DOMAIN rows)
      BY RowsFinite DEF GateInv
    <3>4. /\ Cardinality(DOMAIN rows) \in Nat
          /\ Cardinality(DOMAIN rows \cup {req[r].key}) = Cardinality(DOMAIN rows) + 1
      BY <3>2, <3>3, FS_AddElement, FS_CardinalityType
    <3>5. MaxConsumers \in Nat
      BY ApiGateAssumption DEF ApiGateAssumption
    <3>. QED  BY <3>1, <3>2, <3>4, <3>5 DEF CapacityKept
  <2>. QED  BY <2>1, <2>2
<1>. QED  BY <1>2, <1>4, <1>5 DEF GateInv
-----------------------------------------------------------------------------
(* The theorems *)

LEMMA NextGate == GateInv /\ [Next]_vars => GateInv'
<1>. SUFFICES ASSUME GateInv, [Next]_vars PROVE GateInv'  OBVIOUS
<1>1. CASE Tick
  BY <1>1, TickGate
<1>2. CASE PurgeExpired
  BY <1>2, PurgeGate
<1>3. ASSUME NEW w \in Workers, Die(w) PROVE GateInv'
  BY <1>3, DieGate
<1>4. ASSUME NEW r \in Requests, NEW w \in Workers, NEW a \in Assertions,
             Arrive(r, w, a)
      PROVE  GateInv'
  BY <1>4, ArriveGate
<1>5. ASSUME NEW r \in Requests, Step(r) PROVE GateInv'
  BY <1>5, SelectGate, LockGate, InsertGate, FinishGate DEF Step, Acquire
<1>6. CASE UNCHANGED vars
  <2>. USE <1>6 DEF vars, config, limiter, sink, GateInv
  <2>1. TypeOK' /\ DecidingInv' /\ LockInv' /\ RowInv'
    BY DEF TypeOK, DecidingInv, LockInv, RowInv
  <2>2. AuditInv' /\ CapacityKept' /\ AnswersAreEarned'
    BY DEF AuditInv, CapacityKept, AnswersAreEarned
  <2>. QED  BY <2>1, <2>2
<1>. QED  BY <1>1, <1>2, <1>3, <1>4, <1>5, <1>6 DEF Next

\* The invariant that ties the requests in the middleware to the limiter's rows,
\* the advisory lock and the audit holds whatever the workers do.
THEOREM GateIsInvariant == Spec => []GateInv
BY InitGate, NextGate, PTL DEF Spec

\* The requests, the rows and the lock keep their types.
THEOREM GateTypes == Spec => []TypeOK
<1>1. GateInv => TypeOK
  BY DEF GateInv
<1>. QED  BY <1>1, GateIsInvariant, PTL

\* However many workers count the consumers before they insert their own, the
\* table stays within max_consumers.
THEOREM CapacityIsKept == Spec => []CapacityKept
<1>1. GateInv => CapacityKept
  BY DEF GateInv
<1>. QED  BY <1>1, GateIsInvariant, PTL

\* Nobody is answered 429 before his window's slots are spent, and a worker with
\* the shared controls behind the proxy calls no endpoint without a committed slot.
THEOREM AnswersWereEarned == Spec => []AnswersAreEarned
<1>1. GateInv => AnswersAreEarned
  BY DEF GateInv
<1>. QED  BY <1>1, GateIsInvariant, PTL

\* What was recorded is in the audit until its retention deadline.
THEOREM AuditIsRetained == Spec => []AuditIsKept
<1>1. GateInv => AuditIsKept
  <2>. SUFFICES ASSUME GateInv, NEW e \in logged, e.occurred_at + Retention > now
                PROVE  e \in audit
    BY DEF AuditIsKept
  <2>1. now \in Nat /\ Retention \in Nat
    BY ApiGateAssumption DEF GateInv, TypeOK, ApiGateAssumption
  <2>. QED  BY <2>1 DEF GateInv, AuditInv
<1>. QED  BY <1>1, GateIsInvariant, PTL
-----------------------------------------------------------------------------
(* How much one window gives: what is counted *)

\* The window of the next moment is this one or a later one.
LEMMA WindowsFollow ==
    ASSUME NEW t \in Nat
    PROVE  WindowStart(t) <= WindowStart(t + 1)
<1>. DEFINE S == WindowSeconds
<1>1. S \in Nat \ {0}
  BY ApiGateAssumption DEF ApiGateAssumption
<1>2. /\ t % S \in 0 .. S - 1 /\ (t + 1) % S \in 0 .. S - 1
      /\ t = S * (t \div S) + (t % S)
      /\ t + 1 = S * ((t + 1) \div S) + ((t + 1) % S)
      /\ t \div S \in Nat /\ (t + 1) \div S \in Nat
  BY <1>1
<1>. DEFINE p == t \div S  q == (t + 1) \div S  a == t % S  b == (t + 1) % S
<1>3. /\ p \in Nat /\ q \in Nat /\ a \in 0 .. S - 1 /\ b \in 0 .. S - 1
      /\ t = S * p + a /\ t + 1 = S * q + b
  BY <1>2
<1>. HIDE DEF p, q, a, b, S
<1>4. p <= q
  <2>1. SUFFICES ASSUME q + 1 <= p PROVE FALSE
    BY <1>3
  <2>2. S * p >= S * (q + 1)
    BY <1>1, <1>3, <2>1
  <2>3. S * (q + 1) = S * q + S
    BY <1>1, <1>3
  <2>. QED  BY <1>1, <1>3, <2>2, <2>3
<1>5. S * p <= S * q
  BY <1>1, <1>3, <1>4
<1>. QED  BY <1>1, <1>3, <1>5 DEF WindowStart, S, a, b

\* Each further count adds the limit.
LEMMA QuotaStep ==
    ASSUME NEW n \in Nat
    PROVE  Quota(n) \in Nat /\ Quota(n + 1) = Quota(n) + MaxRequests
<1>1. MaxRequests \in Nat
  BY ApiGateAssumption DEF ApiGateAssumption
<1>. QED  BY <1>1 DEF Quota

LEMMA QuotaGrows ==
    ASSUME NEW n \in Nat, NEW m \in Nat, n <= m
    PROVE  Quota(n) <= Quota(m)
<1>1. MaxRequests \in Nat
  BY ApiGateAssumption DEF ApiGateAssumption
<1>2. /\ m - n \in Nat
      /\ MaxRequests * m = MaxRequests * n + MaxRequests * (m - n)
  BY <1>1
<1>3. MaxRequests * (m - n) \in Nat
  BY <1>1, <1>2
<1>. QED  BY <1>1, <1>2, <1>3 DEF Quota

\* The workers late for a window, and those holding one, are some of them.
LEMMA WorkersCount ==
    ASSUME NEW t
    PROVE  /\ Cardinality(Workers) \in Nat \ {0}
           /\ IsFiniteSet(Late(t)) /\ IsFiniteSet(Holding(t))
           /\ Cardinality(Late(t)) \in 0 .. Cardinality(Workers)
           /\ Cardinality(Holding(t)) \in 0 .. Cardinality(Workers)
<1>1. IsFiniteSet(Workers) /\ Workers # {}
  BY ApiGateAssumption DEF ApiGateAssumption
<1>2. Late(t) \subseteq Workers /\ Holding(t) \subseteq Workers
  BY DEF Late, Holding
<1>3. Cardinality(Workers) \in Nat /\ Cardinality(Workers) # 0
  BY <1>1, FS_CardinalityType, FS_EmptySet
<1>4. IsFiniteSet(Late(t)) /\ Cardinality(Late(t)) <= Cardinality(Workers)
  BY <1>1, <1>2, FS_Subset
<1>5. IsFiniteSet(Holding(t)) /\ Cardinality(Holding(t)) <= Cardinality(Workers)
  BY <1>1, <1>2, FS_Subset
<1>. QED  BY <1>3, <1>4, <1>5, FS_CardinalityType

\* A step in which no request comes to be decided in a window before this one.
NoneNew ==
    \A r \in Requests :
        req'[r].pc \in Deciding /\ req'[r].start < WindowStart(now) =>
            /\ req[r].pc \in Deciding
            /\ req'[r].worker = req[r].worker /\ req'[r].start = req[r].start

LEMMA FewerWorkers ==
    ASSUME NoneNew, NEW t \in 0 .. MaxTime, WindowStart(now) \in 0 .. MaxTime,
           req' \in [Requests -> Request]
    PROVE  /\ t <= WindowStart(now) =>
                 /\ Late(t)' \subseteq Late(t)
                 /\ Cardinality(Late(t))' \in 0 .. Cardinality(Late(t))
           /\ t < WindowStart(now) =>
                 /\ Holding(t)' \subseteq Holding(t)
                 /\ Cardinality(Holding(t))' \in 0 .. Cardinality(Holding(t))
<1>0. \A r \in Requests : req'[r].start \in 0 .. MaxTime
  BY DEF Request
<1>1. t <= WindowStart(now) => Late(t)' \subseteq Late(t)
  BY <1>0 DEF Late, NoneNew
<1>2. t < WindowStart(now) => Holding(t)' \subseteq Holding(t)
  BY <1>0 DEF Holding, NoneNew
<1>3. IsFiniteSet(Late(t)) /\ IsFiniteSet(Holding(t))
  BY WorkersCount
<1>4. t <= WindowStart(now) => Cardinality(Late(t)') \in 0 .. Cardinality(Late(t))
  BY <1>1, <1>3, FS_Subset, FS_CardinalityType
<1>5. t < WindowStart(now) =>
          Cardinality(Holding(t)') \in 0 .. Cardinality(Holding(t))
  BY <1>2, <1>3, FS_Subset, FS_CardinalityType
<1>. QED  BY <1>1, <1>2, <1>4, <1>5
-----------------------------------------------------------------------------
(* How much one window gives: the steps *)

\* A step after which nothing is decided that was not before.
Narrowed ==
    \A r \in Requests :
        req'[r].pc \in Deciding =>
            /\ req[r].pc \in Deciding
            /\ req'[r].worker = req[r].worker /\ req'[r].start = req[r].start

LEMMA CountsAreNumbers ==
    ASSUME TypeOK, NEW k \in Subjects, NEW t \in 0 .. MaxTime
    PROVE  /\ spent[k][t] \in Nat /\ Counted(k, t) \in Nat
           /\ WindowStart(now) \in 0 .. MaxTime
           /\ MaxRequests \in Nat \ {0}
<1>1. RowAt(k, t) => rows[k].request_count \in Nat
  BY DEF TypeOK, RowAt
<1>2. MaxRequests \in Nat \ {0}
  BY ApiGateAssumption DEF ApiGateAssumption
<1>3. WindowStart(now) \in 0 .. MaxTime
  BY WindowStarts DEF TypeOK
<1>. QED  BY <1>1, <1>2, <1>3 DEF TypeOK, Counted

\* A consumer the step does not charge keeps its allowance: fewer workers can be
\* late or hold a slot.
LEMMA KeepsAllowance ==
    ASSUME TypeOK, NEW k \in Subjects, NEW t \in 0 .. MaxTime,
           Allowance(k, t), NoneNew, req' \in [Requests -> Request],
           UNCHANGED now, spent'[k][t] = spent[k][t],
           RowAt(k, t)' = RowAt(k, t), Counted(k, t)' = Counted(k, t)
    PROVE  Allowance(k, t)'
<1>1. /\ spent[k][t] \in Nat /\ Counted(k, t) \in Nat
      /\ WindowStart(now) \in 0 .. MaxTime
      /\ WindowStart(now)' = WindowStart(now)
  BY CountsAreNumbers DEF WindowStart
<1>2. /\ Cardinality(Workers) \in Nat
      /\ Cardinality(Late(t)) \in 0 .. Cardinality(Workers)
      /\ Cardinality(Holding(t)) \in 0 .. Cardinality(Workers)
  BY WorkersCount
<1>3. CASE t > WindowStart(now)
  BY <1>1, <1>3 DEF Allowance
<1>4. CASE t = WindowStart(now) /\ spent[k][t] = 0
  BY <1>1, <1>4 DEF Allowance, CurrentWindow
<1>5. CASE t = WindowStart(now) /\ spent[k][t] # 0
  <2>1. /\ Punctual(t) >= 1
        /\ spent[k][t] <= Quota(Punctual(t) - 1) + Counted(k, t)
    BY <1>1, <1>5 DEF Allowance, CurrentWindow
  <2>2. Cardinality(Late(t))' \in 0 .. Cardinality(Late(t))
    BY <1>1, <1>5, FewerWorkers
  <2>3. /\ Punctual(t) \in Nat /\ Punctual(t)' \in Nat
        /\ Punctual(t) <= Punctual(t)'
    BY <1>2, <2>2 DEF Punctual
  <2>4. /\ Quota(Punctual(t) - 1) \in Nat /\ Quota(Punctual(t)' - 1) \in Nat
        /\ Quota(Punctual(t) - 1) <= Quota(Punctual(t)' - 1)
    <3>1. /\ Punctual(t) - 1 \in Nat /\ Punctual(t)' - 1 \in Nat
          /\ Punctual(t) - 1 <= Punctual(t)' - 1
      BY <2>1, <2>3
    <3>. QED  BY <3>1, QuotaStep, QuotaGrows
  <2>5. /\ Punctual(t)' >= 1
        /\ spent[k][t] <= Quota(Punctual(t)' - 1) + Counted(k, t)
    BY <1>1, <2>1, <2>3, <2>4
  <2>6. CurrentWindow(k, t)'
    BY <2>5 DEF CurrentWindow, Quota
  <2>. QED  BY <1>1, <1>5, <2>6 DEF Allowance
<1>6. CASE t < WindowStart(now)
  <2>1. PastWindow(k, t)
    BY <1>1, <1>6 DEF Allowance
  <2>2. Cardinality(Holding(t))' \in 0 .. Cardinality(Holding(t))
    BY <1>1, <1>6, FewerWorkers
  <2>3. Quota(Cardinality(Workers)) \in Nat
    BY <1>2, QuotaStep
  <2>4. PastWindow(k, t)'
    BY <1>1, <1>2, <2>1, <2>2, <2>3 DEF PastWindow, Quota
  <2>. QED  BY <1>1, <1>6, <2>4 DEF Allowance
<1>. QED  BY <1>1, <1>3, <1>4, <1>5, <1>6

\* When its window ends, a consumer has what the window leaves it: no row of an
\* earlier one can give it more than one slot for each worker that holds one.
LEMMA CurrentBecomesPast ==
    ASSUME TypeOK, NEW k \in Subjects, NEW t \in 0 .. MaxTime, CurrentWindow(k, t)
    PROVE  PastWindow(k, t)
<1>. DEFINE W == Cardinality(Workers)  H == Cardinality(Holding(t))
<1>1. spent[k][t] \in Nat /\ Counted(k, t) \in Nat /\ MaxRequests \in Nat \ {0}
  BY CountsAreNumbers
<1>2. W \in Nat \ {0} /\ Cardinality(Late(t)) \in 0 .. W /\ H \in 0 .. W
  BY WorkersCount
<1>3. /\ W - 1 \in Nat /\ Quota(W - 1) \in Nat
      /\ Quota(W) = Quota(W - 1) + MaxRequests
  BY <1>2, QuotaStep
<1>4. CASE spent[k][t] = 0
  <2>. HIDE DEF W, H
  <2>1. spent[k][t] + H <= Quota(W) + W - 1
    BY <1>1, <1>2, <1>3, <1>4
  <2>. QED  BY <2>1 DEF PastWindow, W, H
<1>5. CASE spent[k][t] # 0
  <2>1. /\ Punctual(t) >= 1
        /\ spent[k][t] <= Quota(Punctual(t) - 1) + Counted(k, t)
    BY <1>5 DEF CurrentWindow
  <2>2. Punctual(t) \in 1 .. W
    BY <1>2, <2>1 DEF Punctual
  <2>3. Quota(Punctual(t) - 1) \in Nat /\ Quota(Punctual(t) - 1) <= Quota(W - 1)
    <3>1. Punctual(t) - 1 \in Nat /\ Punctual(t) - 1 <= W - 1
      BY <1>2, <2>2
    <3>. QED  BY <1>3, <3>1, QuotaStep, QuotaGrows
  <2>4. CASE RowAt(k, t)
    BY <1>1, <1>3, <2>1, <2>3, <2>4 DEF PastWindow
  <2>5. CASE ~RowAt(k, t)
    <3>1. Counted(k, t) = 0
      BY <2>5 DEF Counted
    <3>. HIDE DEF W, H
    <3>2. spent[k][t] <= Quota(W - 1)
      BY <1>1, <1>3, <2>1, <2>3, <3>1
    <3>3. spent[k][t] + H <= Quota(W) + W - 1
      BY <1>1, <1>2, <1>3, <3>2
    <3>. QED  BY <3>3 DEF PastWindow, W, H
  <2>. QED  BY <2>4, <2>5
<1>. QED  BY <1>4, <1>5

\* The clock moves on.
LEMMA TickWindow == TypeOK /\ WindowInv /\ Tick => WindowInv'
<1>. SUFFICES ASSUME TypeOK, WindowInv, Tick PROVE WindowInv'  OBVIOUS
<1>1. /\ now' = now + 1 /\ now \in Nat /\ now' \in 0 .. MaxTime
      /\ UNCHANGED <<rows, spent, req>>
  BY ApiGateAssumption DEF Tick, limiter, TypeOK, ApiGateAssumption
<1>2. WindowStart(now)' = WindowStart(now')
  BY DEF WindowStart
<1>3. /\ WindowStart(now) \in 0 .. MaxTime /\ WindowStart(now)' \in 0 .. MaxTime
      /\ WindowStart(now) <= WindowStart(now)'
  BY <1>1, <1>2, WindowStarts, WindowsFollow DEF TypeOK
<1>4. OneAtATime'
  <2>1. \A r \in Requests : req[r].start \in 0 .. MaxTime
    BY DEF TypeOK, Request
  <2>. QED  BY <1>1, <1>3, <2>1 DEF WindowInv, OneAtATime
<1>5. RowsCount'
  BY <1>1 DEF WindowInv, RowsCount
<1>6. ASSUME NEW k \in Subjects, NEW t \in 0 .. MaxTime
      PROVE  Allowance(k, t)'
  <2>1. /\ spent'[k][t] = spent[k][t]
        /\ CurrentWindow(k, t)' = CurrentWindow(k, t)
        /\ PastWindow(k, t)' = PastWindow(k, t)
    BY <1>1 DEF CurrentWindow, PastWindow, Counted, RowAt, Punctual, Late,
                Holding, Quota
  <2>2. Allowance(k, t)
    BY DEF WindowInv
  <2>3. CASE t > WindowStart(now)
    <3>1. spent[k][t] = 0
      BY <2>2, <2>3 DEF Allowance
    <3>2. CurrentWindow(k, t) /\ PastWindow(k, t)
      BY <3>1, CurrentBecomesPast DEF CurrentWindow
    <3>. QED  BY <2>1, <3>1, <3>2 DEF Allowance
  <2>4. CASE t = WindowStart(now)
    <3>1. CurrentWindow(k, t) /\ PastWindow(k, t)
      BY <2>2, <2>4, CurrentBecomesPast DEF Allowance
    <3>. QED  BY <1>3, <2>1, <2>4, <3>1 DEF Allowance
  <2>5. CASE t < WindowStart(now)
    <3>1. PastWindow(k, t)
      BY <2>2, <2>5 DEF Allowance
    <3>. QED  BY <1>3, <2>1, <2>5, <3>1 DEF Allowance
  <2>. QED  BY <1>3, <2>3, <2>4, <2>5
<1>. QED  BY <1>4, <1>5, <1>6 DEF WindowInv

\* Whoever has made room, or only asked, keeps the invariant.
LEMMA NarrowedIsOneAtATime ==
    ASSUME TypeOK, OneAtATime, Narrowed, UNCHANGED now
    PROVE  OneAtATime' /\ NoneNew
<1>1. WindowStart(now)' = WindowStart(now)
  BY DEF WindowStart
<1>. QED  BY <1>1 DEF OneAtATime, Narrowed, NoneNew

LEMMA UnchargedWindow ==
    ASSUME TypeOK, WindowInv, Narrowed, req' \in [Requests -> Request],
           UNCHANGED <<now, rows, spent>>
    PROVE  WindowInv'
<1>1. OneAtATime' /\ NoneNew
  BY NarrowedIsOneAtATime DEF WindowInv
<1>2. RowsCount'
  BY DEF WindowInv, RowsCount
<1>3. ASSUME NEW k \in Subjects, NEW t \in 0 .. MaxTime
      PROVE  Allowance(k, t)'
  <2>1. RowAt(k, t)' = RowAt(k, t) /\ Counted(k, t)' = Counted(k, t)
    BY DEF RowAt, Counted
  <2>. QED  BY <1>1, <2>1, KeepsAllowance DEF WindowInv
<1>. QED  BY <1>1, <1>2, <1>3 DEF WindowInv
-----------------------------------------------------------------------------
(* How much one window gives: a charge *)

\* The limiter decides only on a slot the window has left; this one is the next.
NextSlot(r, n) ==
    /\ n = Counted(req[r].key, req[r].start) + 1
    /\ n <= MaxRequests

\* What a charge that commits writes.
LEMMA ChargeWrites ==
    ASSUME TypeOK, NEW r \in Requests, NEW n, NEW c, c # "abort",
           req[r].key \in Subjects, Charge(r, n, c)
    PROVE  /\ DOMAIN rows' = DOMAIN rows \cup {req[r].key}
           /\ rows'[req[r].key] = [window_started_at |-> req[r].start,
                                   request_count |-> n]
           /\ \A j \in DOMAIN rows : j # req[r].key => rows'[j] = rows[j]
           /\ spent'[req[r].key][req[r].start] = spent[req[r].key][req[r].start] + 1
           /\ \A j \in Subjects, t \in 0 .. MaxTime :
                 j # req[r].key \/ t # req[r].start => spent'[j][t] = spent[j][t]
<1>. DEFINE k == req[r].key  s == req[r].start
<1>1. rows' = With(k, [window_started_at |-> s, request_count |-> n])
  BY DEF Charge
<1>2. /\ DOMAIN rows' = DOMAIN rows \cup {k}
      /\ rows'[k] = [window_started_at |-> s, request_count |-> n]
      /\ \A j \in DOMAIN rows : j # k => rows'[j] = rows[j]
  BY <1>1 DEF With
<1>3. s \in 0 .. MaxTime /\ spent \in [Subjects -> [0 .. MaxTime -> Nat]]
  BY DEF TypeOK, Request
<1>4. spent' = [spent EXCEPT ![k] = [spent[k] EXCEPT ![s] = spent[k][s] + 1]]
  BY <1>3 DEF Charge
<1>5. spent'[k] = [spent[k] EXCEPT ![s] = spent[k][s] + 1]
  BY <1>3, <1>4
<1>6. /\ spent'[k][s] = spent[k][s] + 1
      /\ \A t \in 0 .. MaxTime : t # s => spent'[k][t] = spent[k][t]
  <2>1. spent[k] \in [0 .. MaxTime -> Nat]
    BY <1>3
  <2>. QED  BY <1>3, <1>5, <2>1
<1>7. \A j \in Subjects : j # k => spent'[j] = spent[j]
  BY <1>3, <1>4
<1>. QED  BY <1>2, <1>6, <1>7

\* The worker that charged decides nothing any more: it is not among those late
\* for a window or holding one.
LEMMA ChargerLeaves ==
    ASSUME TypeOK, OneAtATime, Narrowed, UNCHANGED now,
           req' \in [Requests -> Request],
           NEW r \in Requests, req[r].pc \in Deciding, req'[r].pc \notin Deciding,
           NEW t \in 0 .. MaxTime
    PROVE  /\ req[r].worker \in Workers
           /\ req[r].worker \notin Late(t)' /\ req[r].worker \notin Holding(t)'
           /\ req[r].worker \in Late(t) <=> req[r].start < t
           /\ req[r].worker \in Holding(t) <=> req[r].start = t
<1>1. req[r].worker \in Workers
  BY DEF OneAtATime
<1>2. \A q \in Requests :
          req'[q].pc \in Deciding => req'[q].worker # req[r].worker
  BY DEF OneAtATime, Narrowed
<1>3. req[r].worker \notin Late(t)' /\ req[r].worker \notin Holding(t)'
  BY <1>2 DEF Late, Holding
<1>4. /\ req[r].worker \in Late(t) <=> req[r].start < t
      /\ req[r].worker \in Holding(t) <=> req[r].start = t
  BY <1>1 DEF OneAtATime, Late, Holding
<1>. QED  BY <1>1, <1>3, <1>4

\* So where it was counted, one worker fewer is.
LEMMA ChargerCounts ==
    ASSUME TypeOK, OneAtATime, Narrowed, UNCHANGED now,
           req' \in [Requests -> Request],
           NEW r \in Requests, req[r].pc \in Deciding, req'[r].pc \notin Deciding,
           NEW t \in 0 .. MaxTime
    PROVE  /\ t <= WindowStart(now) =>
                 /\ Cardinality(Late(t))' \in 0 .. Cardinality(Late(t))
                 /\ req[r].start < t =>
                       Cardinality(Late(t))' + 1 <= Cardinality(Late(t))
                 /\ req[r].start >= t =>
                       Cardinality(Late(t)) + 1 <= Cardinality(Workers)
           /\ t < WindowStart(now) =>
                 /\ Cardinality(Holding(t))' \in 0 .. Cardinality(Holding(t))
                 /\ Cardinality(Holding(t))' + 1 <= Cardinality(Workers)
                 /\ req[r].start = t =>
                       Cardinality(Holding(t))' + 1 <= Cardinality(Holding(t))
<1>. DEFINE w == req[r].worker
<1>0. NoneNew /\ WindowStart(now) \in 0 .. MaxTime
  BY NarrowedIsOneAtATime, WindowStarts DEF TypeOK
<1>1. /\ w \in Workers /\ w \notin Late(t)' /\ w \notin Holding(t)'
      /\ w \in Late(t) <=> req[r].start < t
      /\ w \in Holding(t) <=> req[r].start = t
  BY ChargerLeaves
<1>2. /\ IsFiniteSet(Workers) /\ Late(t) \subseteq Workers
      /\ Holding(t) \subseteq Workers
      /\ IsFiniteSet(Late(t)) /\ IsFiniteSet(Holding(t))
      /\ Cardinality(Workers) \in Nat
  BY WorkersCount, ApiGateAssumption DEF Late, Holding, ApiGateAssumption
<1>3. req[r].start \in 0 .. MaxTime
  BY DEF TypeOK, Request
<1>4. ASSUME NEW A, NEW B, IsFiniteSet(B), A \subseteq B, w \in B, w \notin A
      PROVE  Cardinality(A) \in Nat /\ Cardinality(A) + 1 <= Cardinality(B)
  <2>1. IsFiniteSet(A) /\ Cardinality(A) \in Nat /\ Cardinality(B) \in Nat
    BY <1>4, FS_Subset, FS_CardinalityType
  <2>2. A # B
    BY <1>4
  <2>3. Cardinality(A) <= Cardinality(B) /\ Cardinality(A) # Cardinality(B)
    BY <1>4, <2>2, FS_Subset
  <2>. QED  BY <2>1, <2>3
<1>5. t <= WindowStart(now) =>
          Late(t)' \subseteq Late(t)
          /\ Cardinality(Late(t))' \in 0 .. Cardinality(Late(t))
  BY <1>0, FewerWorkers
<1>6. t < WindowStart(now) =>
          Holding(t)' \subseteq Holding(t)
          /\ Cardinality(Holding(t))' \in 0 .. Cardinality(Holding(t))
  BY <1>0, FewerWorkers
<1>7. t <= WindowStart(now) /\ req[r].start < t =>
          Cardinality(Late(t)') + 1 <= Cardinality(Late(t))
  BY <1>1, <1>2, <1>4, <1>5
<1>8. req[r].start >= t => Cardinality(Late(t)) + 1 <= Cardinality(Workers)
  <2>1. req[r].start >= t => w \notin Late(t)
    BY <1>1, <1>3
  <2>. QED  BY <1>1, <1>2, <1>4, <2>1
<1>9. t < WindowStart(now) =>
          /\ Cardinality(Holding(t)') + 1 <= Cardinality(Workers)
          /\ req[r].start = t =>
                 Cardinality(Holding(t)') + 1 <= Cardinality(Holding(t))
  BY <1>1, <1>2, <1>4, <1>6
<1>. QED  BY <1>5, <1>6, <1>7, <1>8, <1>9

\* A slot of the current window: the row goes on counting it, and a row put back
\* to an earlier window was put back by a worker that is late no more.
LEMMA ChargeCurrent ==
    ASSUME TypeOK, OneAtATime, RowsCount, Narrowed, UNCHANGED now,
           req' \in [Requests -> Request], TypeOK',
           NEW r \in Requests, req[r].pc \in Deciding, req'[r].pc \notin Deciding,
           NEW n \in Nat, NextSlot(r, n), NEW k \in Subjects, k = req[r].key,
           NEW c, c # "abort", Charge(r, n, c),
           NEW t \in 0 .. MaxTime, t = WindowStart(now), CurrentWindow(k, t)
    PROVE  CurrentWindow(k, t)'
<1>. DEFINE s == req[r].start
            P == Punctual(t)  Q == Cardinality(Workers) - Cardinality(Late(t)')
<1>1. /\ spent[k][t] \in Nat /\ Counted(k, t) \in Nat
      /\ s \in 0 .. MaxTime /\ s <= t /\ MaxRequests \in Nat \ {0}
  <2>1. s \in 0 .. MaxTime /\ s <= t
    BY DEF TypeOK, Request, OneAtATime
  <2>. QED  BY <2>1, CountsAreNumbers
<1>2. CurrentWindow(k, t)' <=>
          \/ spent'[k][t] = 0
          \/ Q >= 1 /\ spent'[k][t] <= Quota(Q - 1) + Counted(k, t)'
  BY DEF CurrentWindow, Punctual, Quota
<1>3. /\ k \in DOMAIN rows'
      /\ rows'[k] = [window_started_at |-> s, request_count |-> n]
      /\ spent'[k][s] = spent[k][s] + 1
      /\ s # t => spent'[k][t] = spent[k][t]
  <2>1. req[r].key \in Subjects
    OBVIOUS
  <2>2. /\ DOMAIN rows' = DOMAIN rows \cup {k}
        /\ rows'[k] = [window_started_at |-> s, request_count |-> n]
        /\ spent'[k][s] = spent[k][s] + 1
        /\ \A j \in Subjects, u \in 0 .. MaxTime :
               j # k \/ u # s => spent'[j][u] = spent[j][u]
    BY <2>1, ChargeWrites
  <2>. QED  BY <2>2
<1>4. /\ s = t => Counted(k, t)' = n
      /\ s # t => Counted(k, t)' = 0
  BY <1>3 DEF Counted, RowAt
<1>5. /\ Cardinality(Workers) \in Nat
      /\ Cardinality(Late(t)) \in 0 .. Cardinality(Workers)
  BY WorkersCount
<1>6. /\ Cardinality(Late(t)') \in 0 .. Cardinality(Late(t))
      /\ s < t => Cardinality(Late(t)') + 1 <= Cardinality(Late(t))
      /\ s >= t => Cardinality(Late(t)) + 1 <= Cardinality(Workers)
  BY <1>1, ChargerCounts
<1>7. /\ P \in Nat /\ Q \in Nat /\ P <= Q
      /\ s = t => P >= 1
      /\ s < t => P + 1 <= Q
  BY <1>1, <1>5, <1>6 DEF Punctual
<1>8. Counted(k, t) <= MaxRequests
  BY <1>1 DEF Counted, RowAt, RowsCount
<1>9. spent[k][t] = 0 \/ (P >= 1 /\ spent[k][t] <= Quota(P - 1) + Counted(k, t))
  BY DEF CurrentWindow
<1>. HIDE DEF P, Q
<1>10. CASE s = t
  <2>1. P - 1 \in Nat /\ Q - 1 \in Nat /\ P - 1 <= Q - 1
    BY <1>7, <1>10
  <2>2. /\ Quota(P - 1) \in Nat /\ Quota(Q - 1) \in Nat
        /\ Quota(P - 1) <= Quota(Q - 1)
    BY <2>1, QuotaStep, QuotaGrows
  <2>3. n = Counted(k, t) + 1
    BY <1>10 DEF NextSlot
  <2>4. spent'[k][t] <= Quota(Q - 1) + Counted(k, t)'
    BY <1>1, <1>3, <1>4, <1>9, <1>10, <2>2, <2>3
  <2>. QED  BY <1>2, <1>7, <1>10, <2>4
<1>11. CASE s < t /\ spent[k][t] = 0
  BY <1>1, <1>2, <1>3, <1>11
<1>12. CASE s < t /\ spent[k][t] # 0
  <2>1. P >= 1 /\ spent[k][t] <= Quota(P - 1) + Counted(k, t)
    BY <1>9, <1>12
  <2>2. P - 1 \in Nat /\ (P - 1) + 1 = P /\ Q - 1 \in Nat /\ P <= Q - 1
    BY <1>7, <1>12, <2>1
  <2>3. /\ Quota(P - 1) \in Nat /\ Quota(P) = Quota(P - 1) + MaxRequests
        /\ Quota(P) <= Quota(Q - 1) /\ Quota(Q - 1) \in Nat
    <3>1. Quota(P - 1) \in Nat /\ Quota(P) = Quota(P - 1) + MaxRequests
      BY <2>2, QuotaStep
    <3>. QED  BY <1>7, <2>2, <3>1, QuotaStep, QuotaGrows
  <2>4. spent'[k][t] <= Quota(Q - 1) + Counted(k, t)'
    BY <1>1, <1>3, <1>4, <1>8, <1>12, <2>1, <2>3
  <2>. QED  BY <1>2, <1>7, <1>12, <2>2, <2>4
<1>. QED  BY <1>1, <1>10, <1>11, <1>12

\* A slot of a window that is over: the row counts it, or the worker that was
\* given it holds none of that window any more.
LEMMA ChargePast ==
    ASSUME TypeOK, OneAtATime, RowsCount, Narrowed, UNCHANGED now,
           req' \in [Requests -> Request], TypeOK',
           NEW r \in Requests, req[r].pc \in Deciding, req'[r].pc \notin Deciding,
           NEW n \in Nat, NextSlot(r, n), NEW k \in Subjects, k = req[r].key,
           NEW c, c # "abort", Charge(r, n, c),
           NEW t \in 0 .. MaxTime, t < WindowStart(now), PastWindow(k, t)
    PROVE  PastWindow(k, t)'
<1>. DEFINE s == req[r].start  W == Cardinality(Workers)
            H == Cardinality(Holding(t))  J == Cardinality(Holding(t)')
<1>1. /\ spent[k][t] \in Nat /\ Counted(k, t) \in Nat
      /\ s \in 0 .. MaxTime /\ MaxRequests \in Nat \ {0}
  BY CountsAreNumbers DEF TypeOK, Request
<1>2. PastWindow(k, t)' <=>
          \/ RowAt(k, t)' /\ spent'[k][t] <= Quota(W - 1) + Counted(k, t)'
          \/ spent'[k][t] + J <= Quota(W) + W - 1
  BY DEF PastWindow, Quota
<1>3. /\ k \in DOMAIN rows'
      /\ rows'[k] = [window_started_at |-> s, request_count |-> n]
      /\ spent'[k][s] = spent[k][s] + 1
      /\ s # t => spent'[k][t] = spent[k][t]
  <2>1. req[r].key \in Subjects
    OBVIOUS
  <2>2. /\ DOMAIN rows' = DOMAIN rows \cup {k}
        /\ rows'[k] = [window_started_at |-> s, request_count |-> n]
        /\ spent'[k][s] = spent[k][s] + 1
        /\ \A j \in Subjects, u \in 0 .. MaxTime :
               j # k \/ u # s => spent'[j][u] = spent[j][u]
    BY <2>1, ChargeWrites
  <2>. QED  BY <2>2
<1>4. s = t => RowAt(k, t)' /\ Counted(k, t)' = n
  BY <1>3 DEF Counted, RowAt
<1>5. W \in Nat \ {0} /\ H \in 0 .. W
  BY WorkersCount
<1>6. /\ J \in 0 .. H /\ J + 1 <= W
      /\ s = t => J + 1 <= H
  BY ChargerCounts
<1>7. /\ Quota(W - 1) \in Nat /\ Quota(W) = Quota(W - 1) + MaxRequests
  BY <1>5, QuotaStep
<1>8. Counted(k, t) <= MaxRequests
  BY <1>1 DEF Counted, RowAt, RowsCount
<1>9. \/ spent[k][t] <= Quota(W - 1) + Counted(k, t)
      \/ spent[k][t] + H <= Quota(W) + W - 1
  BY DEF PastWindow
<1>. HIDE DEF W, H, J
<1>10. CASE s = t
  <2>1. n = Counted(k, t) + 1
    BY <1>10 DEF NextSlot
  <2>. QED  BY <1>1, <1>2, <1>3, <1>4, <1>5, <1>6, <1>7, <1>9, <1>10, <2>1
<1>11. CASE s # t
  BY <1>1, <1>2, <1>3, <1>5, <1>6, <1>7, <1>8, <1>9, <1>11
<1>. QED  BY <1>10, <1>11

\* A slot is charged, or the transaction rolls back.
LEMMA ChargeWindow ==
    ASSUME GateInv, WindowInv, TypeOK', UNCHANGED now,
           NEW r \in Requests, req[r].pc \in Deciding,
           NEW n \in Nat, NextSlot(r, n), NEW c \in Commits, Charge(r, n, c)
    PROVE  WindowInv'
<1>0. TypeOK /\ OneAtATime /\ RowsCount
  BY DEF GateInv, WindowInv
<1>1. /\ req' \in [Requests -> Request]
      /\ \A q \in Requests \ {r} : req'[q] = req[q]
      /\ req'[r].pc \notin Deciding
  BY <1>0, LetInWrites, AnswerWrites
     DEF Charge, Unavailable, Outcomes, Refusals, Deciding
<1>2. Narrowed
  BY <1>1 DEF Narrowed
<1>3. CASE c = "abort"
  BY <1>0, <1>1, <1>2, <1>3, UnchargedWindow DEF Charge
<1>4. CASE c # "abort"
  <2>. DEFINE k == req[r].key  s == req[r].start
  <2>0. k \in Subjects /\ s \in 0 .. MaxTime /\ s <= WindowStart(now)
    BY <1>0 DEF GateInv, DecidingInv, TypeOK, Request, OneAtATime
  <2>1. OneAtATime' /\ NoneNew
    BY <1>0, <1>2, NarrowedIsOneAtATime
  <2>2. /\ DOMAIN rows' = DOMAIN rows \cup {k}
        /\ rows'[k] = [window_started_at |-> s, request_count |-> n]
        /\ \A j \in DOMAIN rows : j # k => rows'[j] = rows[j]
        /\ spent'[k][s] = spent[k][s] + 1
        /\ \A j \in Subjects, t \in 0 .. MaxTime :
              j # k \/ t # s => spent'[j][t] = spent[j][t]
    BY <1>0, <1>4, <2>0, ChargeWrites
  <2>. HIDE DEF k
  <2>3. RowsCount'
    <3>1. \A j \in DOMAIN rows' : rows'[j].request_count <= MaxRequests
      BY <1>0, <2>2 DEF RowsCount, NextSlot
    <3>2. \A j \in Subjects \ DOMAIN rows', t \in 0 .. MaxTime : spent'[j][t] = 0
      BY <1>0, <2>2 DEF RowsCount
    <3>. QED  BY <3>1, <3>2 DEF RowsCount
  <2>4. ASSUME NEW j \in Subjects, NEW t \in 0 .. MaxTime
        PROVE  Allowance(j, t)'
    <3>0. Allowance(j, t)
      BY DEF WindowInv
    <3>1. /\ WindowStart(now)' = WindowStart(now)
          /\ WindowStart(now) \in 0 .. MaxTime
      BY <1>0, WindowStarts DEF WindowStart, TypeOK
    <3>2. CASE j # k
      <4>1. /\ RowAt(j, t)' = RowAt(j, t) /\ Counted(j, t)' = Counted(j, t)
            /\ spent'[j][t] = spent[j][t]
        BY <2>2, <3>2 DEF RowAt, Counted
      <4>. QED  BY <1>0, <1>1, <2>1, <3>0, <4>1, KeepsAllowance
    <3>3. CASE j = k /\ t > WindowStart(now)
      <4>1. spent[k][t] = 0 /\ s # t
        BY <2>0, <3>0, <3>1, <3>3 DEF Allowance
      <4>2. spent'[j][t] = 0
        BY <2>2, <3>3, <4>1
      <4>. QED  BY <3>1, <3>3, <4>2 DEF Allowance
    <3>4. CASE j = k /\ t = WindowStart(now)
      <4>1. CurrentWindow(j, t)
        BY <3>0, <3>4 DEF Allowance
      <4>2. j = req[r].key
        BY <3>4 DEF k
      <4>3. CurrentWindow(j, t)'
        BY <1>0, <1>1, <1>2, <1>4, <3>4, <4>1, <4>2, ChargeCurrent
      <4>. QED  BY <3>1, <3>4, <4>3 DEF Allowance
    <3>5. CASE j = k /\ t < WindowStart(now)
      <4>1. PastWindow(j, t)
        BY <3>0, <3>5 DEF Allowance
      <4>2. j = req[r].key
        BY <3>5 DEF k
      <4>3. PastWindow(j, t)'
        BY <1>0, <1>1, <1>2, <1>4, <3>5, <4>1, <4>2, ChargePast
      <4>. QED  BY <3>1, <3>5, <4>3 DEF Allowance
    <3>. QED  BY <3>1, <3>2, <3>3, <3>4, <3>5
  <2>. QED  BY <2>1, <2>3, <2>4 DEF WindowInv
<1>. QED  BY <1>3, <1>4

\* The answer of a request that was being decided, with no slot charged.
LEMMA AnswerWindow ==
    ASSUME GateInv, WindowInv, NEW r \in Requests, NEW o \in Outcomes,
           Answer(r, o), UNCHANGED <<now, rows, spent>>
    PROVE  WindowInv'
<1>1. TypeOK
  BY DEF GateInv
<1>2. req' \in [Requests -> Request] /\ Narrowed
  BY <1>1, AnswerWrites DEF Narrowed, Deciding
<1>. QED  BY <1>1, <1>2, UnchargedWindow

LEMMA GotoWindow ==
    ASSUME GateInv, WindowInv, NEW r \in Requests, req[r].pc \in Deciding,
           NEW p \in Open, Goto(r, p), UNCHANGED <<now, rows, spent>>
    PROVE  WindowInv'
<1>1. TypeOK
  BY DEF GateInv
<1>2. req' \in [Requests -> Request] /\ Narrowed
  BY <1>1, GotoWrites DEF Narrowed
<1>. QED  BY <1>1, <1>2, UnchargedWindow

\* The row is there: it has a slot left in the window the request read, or not.
LEMMA DecideWindow ==
    ASSUME GateInv, WindowInv, TypeOK', UNCHANGED now,
           NEW r \in Requests, req[r].pc \in Deciding,
           req[r].key \in DOMAIN rows, NEW c \in Commits, Decide(r, c)
    PROVE  WindowInv'
<1>1. CASE Used(r) < MaxRequests /\ Charge(r, Used(r) + 1, c)
  <2>1. Used(r) \in Nat /\ MaxRequests \in Nat
    BY UsedIsSpent, ApiGateAssumption DEF ApiGateAssumption
  <2>2. Used(r) = Counted(req[r].key, req[r].start)
    BY DEF Used, Counted, RowAt
  <2>3. Used(r) + 1 \in Nat /\ NextSlot(r, Used(r) + 1)
    BY <1>1, <2>1, <2>2 DEF NextSlot
  <2>. QED  BY <1>1, <2>3, ChargeWindow
<1>2. CASE Used(r) >= MaxRequests /\ Deny(r, c)
  BY <1>2, AnswerWindow DEF Deny, Unavailable, Outcomes, Refusals
<1>. QED  BY <1>1, <1>2 DEF Decide

LEMMA LimiterWindow ==
    ASSUME GateInv, WindowInv, TypeOK', NEW r \in Requests, NEW c \in Commits,
           Select(r, c) \/ Lock(r, c) \/ Insert(r, c)
    PROVE  WindowInv'
<1>1. CASE Select(r, c)
  BY <1>1, DecideWindow, GotoWindow DEF Select, Deciding, Open
<1>2. CASE Lock(r, c)
  <2>1. CASE req[r].key \in DOMAIN rows /\ Decide(r, c)
    BY <1>2, <2>1, DecideWindow DEF Lock, Deciding
  <2>2. CASE Unavailable(r) /\ UNCHANGED limiter
    BY <1>2, <2>2, AnswerWindow
       DEF Lock, Unavailable, limiter, Outcomes, Refusals
  <2>3. CASE Goto(r, "insert") /\ UNCHANGED <<rows, spent>>
    BY <1>2, <2>3, GotoWindow DEF Lock, Deciding, Open
  <2>. QED  BY <1>2, <2>1, <2>2, <2>3 DEF Lock
<1>3. CASE Insert(r, c)
  <2>1. req[r].pc = "insert" /\ Charge(r, 1, c) /\ now' = now
    BY <1>3 DEF Insert
  <2>2. req[r].key \notin DOMAIN rows
    BY <2>1 DEF GateInv, LockInv
  <2>3. NextSlot(r, 1)
    BY <2>2, ApiGateAssumption
       DEF NextSlot, Counted, RowAt, ApiGateAssumption
  <2>4. req[r].pc \in Deciding
    BY <2>1 DEF Deciding
  <2>. QED  BY <2>1, <2>3, <2>4, ChargeWindow
<1>. QED  BY <1>1, <1>2, <1>3

\* A free worker takes a request of the current window.
LEMMA ArriveWindow ==
    ASSUME GateInv, WindowInv, TypeOK', NEW r \in Requests, NEW w \in Workers,
           NEW a \in Assertions, Arrive(r, w, a)
    PROVE  WindowInv'
<1>0. TypeOK /\ OneAtATime /\ RowsCount
  BY DEF GateInv, WindowInv
<1>1. /\ UNCHANGED <<now, rows, spent>>
      /\ Free(w)
      /\ \A q \in Requests \ {r} : req'[q] = req[q]
      /\ req'[r].worker = w
      /\ req'[r].pc \in Deciding => req'[r].start = WindowStart(now)
      /\ req' \in [Requests -> Request]
  BY <1>0 DEF Arrive, Entry, limiter, TypeOK, Deciding
<1>2. WindowStart(now)' = WindowStart(now) /\ WindowStart(now) \in 0 .. MaxTime
  BY <1>0, <1>1, WindowStarts DEF WindowStart, TypeOK
<1>3. NoneNew
  BY <1>1, <1>2 DEF NoneNew
<1>4. OneAtATime'
  <2>1. \A q \in Requests : req'[q].pc \in Deciding =>
            req'[q].worker \in Workers /\ req'[q].start <= WindowStart(now)
    BY <1>0, <1>1, <1>2 DEF OneAtATime
  <2>2. \A p, q \in Requests :
            (/\ req'[p].pc \in Deciding /\ req'[q].pc \in Deciding
             /\ req'[p].worker = req'[q].worker) => p = q
    BY <1>0, <1>1 DEF OneAtATime, Free
  <2>. QED  BY <1>2, <2>1, <2>2 DEF OneAtATime
<1>5. RowsCount'
  BY <1>0, <1>1 DEF RowsCount
<1>6. ASSUME NEW k \in Subjects, NEW t \in 0 .. MaxTime
      PROVE  Allowance(k, t)'
  <2>1. RowAt(k, t)' = RowAt(k, t) /\ Counted(k, t)' = Counted(k, t)
    BY <1>1 DEF RowAt, Counted
  <2>. QED  BY <1>0, <1>1, <1>3, <2>1, KeepsAllowance DEF WindowInv
<1>. QED  BY <1>4, <1>5, <1>6 DEF WindowInv

\* An answer, and a death, only make room.
LEMMA LeaveWindow ==
    ASSUME GateInv, WindowInv,
           (\E r \in Requests : Finish(r)) \/ (\E w \in Workers : Die(w))
    PROVE  WindowInv'
<1>0. TypeOK
  BY DEF GateInv
<1>1. UNCHANGED <<now, rows, spent>>
  BY DEF Finish, Die, limiter
<1>2. \A r \in Requests : req'[r] = req[r] \/ req'[r] = Idle
  BY <1>0 DEF Finish, Die, TypeOK
<1>3. Narrowed
  BY <1>2 DEF Narrowed, Idle, Deciding
<1>4. req' \in [Requests -> Request]
  <2>1. Idle \in Request
    BY ApiGateAssumption DEF Idle, Request, Outcomes, Open, ApiGateAssumption
  <2>. QED  BY <1>0, <2>1 DEF Finish, Die, TypeOK
<1>. QED  BY <1>0, <1>1, <1>3, <1>4, UnchargedWindow

LEMMA InitWindow == Init => WindowInv
<1>. SUFFICES ASSUME Init PROVE WindowInv  OBVIOUS
<1>1. OneAtATime /\ RowsCount
  BY DEF Init, Idle, OneAtATime, RowsCount, Deciding
<1>2. ASSUME NEW k \in Subjects, NEW t \in 0 .. MaxTime PROVE Allowance(k, t)
  <2>1. spent[k][t] = 0 /\ TypeOK /\ WindowStart(now) \in 0 .. MaxTime
    BY InitGate, WindowStarts DEF Init, GateInv, TypeOK
  <2>2. CurrentWindow(k, t)
    BY <2>1 DEF CurrentWindow
  <2>3. PastWindow(k, t)
    BY <2>1, <2>2, CurrentBecomesPast
  <2>. QED  BY <2>1, <2>2, <2>3 DEF Allowance
<1>. QED  BY <1>1, <1>2 DEF WindowInv

LEMMA NextWindow == GateInv /\ GateInv' /\ WindowInv /\ [Next]_vars => WindowInv'
<1>. SUFFICES ASSUME GateInv, GateInv', WindowInv, [Next]_vars PROVE WindowInv'
  OBVIOUS
<1>0. TypeOK /\ TypeOK'
  BY DEF GateInv
<1>1. CASE Tick
  BY <1>0, <1>1, TickWindow
<1>2. CASE PurgeExpired \/ UNCHANGED vars
  <2>1. UNCHANGED <<now, rows, spent, req>>
    BY <1>2 DEF PurgeExpired, vars, limiter
  <2>2. Narrowed /\ req' \in [Requests -> Request]
    BY <1>0, <2>1 DEF Narrowed, TypeOK
  <2>. QED  BY <1>0, <2>1, <2>2, UnchargedWindow
<1>3. ASSUME NEW w \in Workers, Die(w) PROVE WindowInv'
  BY <1>3, LeaveWindow
<1>4. ASSUME NEW r \in Requests, NEW w \in Workers, NEW a \in Assertions,
             Arrive(r, w, a)
      PROVE  WindowInv'
  BY <1>0, <1>4, ArriveWindow
<1>5. ASSUME NEW r \in Requests, Step(r) PROVE WindowInv'
  BY <1>0, <1>5, LimiterWindow, LeaveWindow DEF Step, Acquire
<1>. QED  BY <1>1, <1>2, <1>3, <1>4, <1>5 DEF Next

\* What the invariant allows of one window is the bound that is promised.
LEMMA AllowanceBound == GateInv /\ WindowInv => WindowAllowance
<1>. SUFFICES ASSUME GateInv, WindowInv, NEW k \in Subjects, NEW t \in 0 .. MaxTime
              PROVE  spent[k][t] <= (MaxRequests + 1) * Cardinality(Workers) - 1
  BY DEF WindowAllowance
<1>. DEFINE W == Cardinality(Workers)  H == Cardinality(Holding(t))
<1>1. TypeOK /\ Allowance(k, t)
  BY DEF GateInv, WindowInv
<1>2. /\ spent[k][t] \in Nat /\ Counted(k, t) \in Nat
      /\ MaxRequests \in Nat \ {0} /\ WindowStart(now) \in 0 .. MaxTime
  BY <1>1, CountsAreNumbers
<1>3. W \in Nat \ {0} /\ H \in 0 .. W
  BY WorkersCount
<1>4. /\ Quota(W - 1) \in Nat /\ Quota(W) = Quota(W - 1) + MaxRequests
      /\ (MaxRequests + 1) * W - 1 = Quota(W) + W - 1
  <2>1. W - 1 \in Nat
    BY <1>3
  <2>2. (MaxRequests + 1) * W = MaxRequests * W + W
    BY <1>2, <1>3
  <2>. QED  BY <1>2, <1>3, <2>1, <2>2, QuotaStep DEF Quota
<1>5. Counted(k, t) <= MaxRequests
  BY <1>2 DEF WindowInv, RowsCount, Counted, RowAt
<1>6. spent[k][t] = 0 \/ PastWindow(k, t)
  BY <1>1, <1>2, CurrentBecomesPast DEF Allowance
<1>7. \/ spent[k][t] = 0
      \/ spent[k][t] <= Quota(W - 1) + Counted(k, t)
      \/ spent[k][t] + H <= Quota(W) + W - 1
  BY <1>6 DEF PastWindow
<1>. HIDE DEF W, H
<1>8. spent[k][t] <= Quota(W) + W - 1
  BY <1>2, <1>3, <1>4, <1>5, <1>7
<1>. QED  BY <1>4, <1>8 DEF W

\* However many workers decide on stale windows, one consumer is given in one
\* window at most the limit for each worker, and one slot for each but one.
THEOREM WindowsAreBounded == Spec => []WindowAllowance
<1>1. Spec => []WindowInv
  BY GateIsInvariant, InitWindow, NextWindow, PTL DEF Spec
<1>. QED  BY <1>1, GateIsInvariant, AllowanceBound, PTL
=============================================================================
