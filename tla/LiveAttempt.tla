---------------------------- MODULE LiveAttempt ----------------------------
(***************************************************************************)
(* The live one-request path: run_live_one_request_composition, the        *)
(* journal-bound coordinator, the durable-marker sender, the session       *)
(* broker, and the slot reconciler, all working on four PostgreSQL tables  *)
(* (first-request slots, live execution journals, request permits, run     *)
(* budgets).                                                               *)
(*                                                                         *)
(* A Composer is one call of run_live_one_request_composition.  A process  *)
(* that restarts is another Composer.  Each call inserts at most one slot, *)
(* one journal and one permit, so a row is named by the Composer that      *)
(* inserted it, and the columns that never change (approval, run, request  *)
(* key) are the constants below.  One database transaction is one action:  *)
(* each of them locks the rows it decides on.  A transaction may also fail *)
(* ("abort") or be committed without the caller learning it ("lost_ack").  *)
(***************************************************************************)
EXTENDS Naturals, FiniteSets

CONSTANTS
    Composer,      \* calls of run_live_one_request_composition
    Reconciler,    \* callers of LiveSlotReconciliationService.reconcile
    Approval,      \* G0 approval fingerprints
    Run,           \* crawl runs with an initialized run budget
    Key,           \* canonical request keys
    Lease,         \* process-local RuntimeSessionLease objects
    ApprovalOf,    \* the approval a composer was given
    RunOf,         \* the run it was given
    KeyOf,         \* the request key of its single planned request
    LeaseOf,       \* the lease of its provider stack
    BoundTo,       \* the approval each run budget was initialized for
    Fault          \* database faults considered, a subset of FaultKind

FaultKind == {"abort", "lost_ack"}

ASSUME ConstantsAssumption ==
    /\ IsFiniteSet(Composer)
    /\ ApprovalOf \in [Composer -> Approval]
    /\ RunOf \in [Composer -> Run]
    /\ KeyOf \in [Composer -> Key]
    /\ LeaseOf \in [Composer -> Lease]
    /\ BoundTo \in [Run -> Approval]
    /\ Fault \subseteq FaultKind

VARIABLES
    slot,       \* AcquisitionFirstRequestSlot.status ("none": no row)
    jnl,        \* AcquisitionLiveExecutionJournal.status
    permit,     \* AcquisitionRequestPermit.status
    inflight,   \* AcquisitionRunBudget.in_flight_count
    stopped,    \* runs whose stop_reason is set
    lease,      \* RuntimeSessionLease state
    sends,      \* requests a composer has put on the wire
    resp,       \* the response it read, as far as the code looks at it
    pc,         \* where the composer is
    report,     \* slot_status of the result it returned
    rpc,        \* where the reconciler is
    rjob,       \* the journal it is reconciling
    rseen       \* the journal state its first transaction returned

db == <<slot, jnl, permit, inflight, stopped>>
rvars == <<rpc, rjob, rseen>>
vars == <<slot, jnl, permit, inflight, stopped, lease, sends, resp, pc,
          report, rpc, rjob, rseen>>

SlotStatus == {"none", "claimed", "completed", "failed"}
JournalStatus == {"none", "claimed", "send_started", "settled", "completed",
                  "failed", "indeterminate"}
Terminal == {"completed", "failed", "indeterminate"}
PermitStatus == {"none", "authorized", "consumed", "transport_failed"}
LeaseState == {"active", "consumed", "burned"}
Response == {"success", "denied", "other"}   \* 2xx, 403 or 429, the rest
Step == {"precheck", "claim", "arm", "journal", "authorize", "fail_journal",
         "recheck", "abandon", "terminalize", "lease", "verify", "reveal",
         "open", "wire", "record", "send_failed", "mark", "recover", "settle",
         "process", "fail_settled", "complete", "resolve_ok", "resolve_fail",
         "done", "crashed"}
Report == {"none", "not_claimed", "claimed", "completed", "failed"}

TypeOK ==
    /\ slot \in [Composer -> SlotStatus]
    /\ jnl \in [Composer -> JournalStatus]
    /\ permit \in [Composer -> PermitStatus]
    /\ inflight \in [Run -> Nat]
    /\ stopped \in SUBSET Run
    /\ lease \in [Lease -> LeaseState]
    /\ sends \in [Composer -> Nat]
    /\ resp \in [Composer -> Response \cup {"none"}]
    /\ pc \in [Composer -> Step]
    /\ report \in [Composer -> Report]
    /\ rpc \in [Reconciler -> {"idle", "permit", "slot"}]
    /\ rjob \in [Reconciler -> Composer \cup {"none"}]
    /\ rseen \in [Reconciler -> Terminal \cup {"none"}]

Init ==
    /\ slot = [c \in Composer |-> "none"]
    /\ jnl = [c \in Composer |-> "none"]
    /\ permit = [c \in Composer |-> "none"]
    /\ inflight = [r \in Run |-> 0]
    /\ stopped = {}
    /\ lease = [l \in Lease |-> "active"]
    /\ sends = [c \in Composer |-> 0]
    /\ resp = [c \in Composer |-> "none"]
    /\ pc = [c \in Composer |-> "precheck"]
    /\ report = [c \in Composer |-> "none"]
    /\ rpc = [r \in Reconciler |-> "idle"]
    /\ rjob = [r \in Reconciler |-> "none"]
    /\ rseen = [r \in Reconciler |-> "none"]

(***************************************************************************)
(* Transactions.  Outcome "ok" is a commit the caller sees, "abort" a      *)
(* transaction that raises and is rolled back, "lost_ack" one that is      *)
(* committed and still raises in the caller.                               *)
(***************************************************************************)
Outcome == {"ok"} \cup Fault

Written(o, old, new) == IF o = "abort" THEN old ELSE new

Goto(c, step) == pc' = [pc EXCEPT ![c] = step]

Return(c, o, step, error) == Goto(c, IF o = "ok" THEN step ELSE error)

Set(f, c, v) == [f EXCEPT ![c] = v]

\* Mutant: the counter is not given back.
ReleaseNothing(c) == inflight

Release(c) == [inflight EXCEPT ![RunOf[c]] = @ - 1]
-----------------------------------------------------------------------------
(* run_live_one_request_composition *)

\* Planning, _precheck and the operator's confirmation.  All of it is
\* process-local except that an expired lease is burned by ensure_active.
Precheck(c) ==
    /\ pc[c] = "precheck"
    /\ \/ /\ lease[LeaseOf[c]] = "active"
          /\ Goto(c, "claim")
          /\ UNCHANGED <<lease, report>>
       \/ /\ Goto(c, "done")
          /\ report' = Set(report, c, "not_claimed")
          /\ \/ UNCHANGED lease
             \/ /\ lease[LeaseOf[c]] = "active"
                /\ lease' = Set(lease, LeaseOf[c], "burned")
    /\ UNCHANGED <<db, sends, resp, rvars>>

\* Mutant: a resolved slot no longer blocks its approval.
SlotNotHeld(c) ==
    /\ BoundTo[RunOf[c]] = ApprovalOf[c]
    /\ \A d \in Composer : ApprovalOf[d] = ApprovalOf[c] => slot[d] # "claimed"

\* FirstRequestSlotService.claim: the run must be bound to the approval, and
\* no slot row of any status may exist for the approval.
SlotFree(c) ==
    /\ BoundTo[RunOf[c]] = ApprovalOf[c]
    /\ \A d \in Composer : ApprovalOf[d] = ApprovalOf[c] => slot[d] = "none"

ClaimSlot(c) ==
    /\ pc[c] = "claim"
    /\ \/ /\ SlotFree(c)
          /\ \E o \in Outcome :
                /\ slot' = Written(o, slot, Set(slot, c, "claimed"))
                /\ Return(c, o, "arm", "done")
                /\ report' = IF o = "ok" THEN report
                             ELSE Set(report, c, "not_claimed")
       \/ /\ ~SlotFree(c)
          /\ Goto(c, "done")
          /\ report' = Set(report, c, "not_claimed")
          /\ UNCHANGED slot
    /\ UNCHANGED <<jnl, permit, inflight, stopped, lease, sends, resp, rvars>>

\* Enablement latch, readiness, endpoint binding, and the two capabilities,
\* each consumed once by this call; any of them may be expired or refused.
Arm(c) ==
    /\ pc[c] = "arm"
    /\ \/ Goto(c, "journal")
       \/ Goto(c, "resolve_fail")
    /\ UNCHANGED <<db, lease, sends, resp, report, rvars>>

\* Mutants: every attempt completes its slot; every attempt fails it.
VerdictCompleted(c) == "completed"
VerdictFailed(c) == "failed"

\* slot_service.complete or fail and the result; a row that is no longer
\* claimed raises, which the composition reports as still claimed.
Verdict(c) == IF pc[c] = "resolve_ok" THEN "completed" ELSE "failed"

ResolveSlot(c) ==
    /\ pc[c] \in {"resolve_ok", "resolve_fail"}
    /\ \/ /\ slot[c] = "claimed"
          /\ \E o \in Outcome :
                /\ slot' = Written(o, slot, Set(slot, c, Verdict(c)))
                /\ report' = Set(report, c, IF o = "ok" THEN Verdict(c)
                                            ELSE "claimed")
       \/ /\ slot[c] # "claimed"
          /\ report' = Set(report, c, "claimed")
          /\ UNCHANGED slot
    /\ Goto(c, "done")
    /\ UNCHANGED <<jnl, permit, inflight, stopped, lease, sends, resp, rvars>>
-----------------------------------------------------------------------------
(* JournalBoundLiveAttemptCoordinator.execute *)

\* LiveExecutionJournalService.claim
ClaimJournal(c) ==
    /\ pc[c] = "journal"
    /\ \/ /\ slot[c] = "claimed"
          /\ jnl[c] = "none"
          /\ \E o \in Outcome :
                /\ jnl' = Written(o, jnl, Set(jnl, c, "claimed"))
                /\ Return(c, o, "authorize", "resolve_fail")
       \/ /\ ~(slot[c] = "claimed" /\ jnl[c] = "none")
          /\ Goto(c, "resolve_fail")
          /\ UNCHANGED jnl
    /\ UNCHANGED <<slot, permit, inflight, stopped, lease, sends, resp,
                   report, rvars>>

\* A permit for the same logical request already exists in this run.
DuplicatePermit(c) ==
    \E d \in Composer : /\ permit[d] # "none"
                        /\ RunOf[d] = RunOf[c]
                        /\ KeyOf[d] = KeyOf[c]

\* Mutant: the journal's status is not checked.
MayStartAny(c) ==
    /\ BoundTo[RunOf[c]] = ApprovalOf[c]
    /\ ~DuplicatePermit(c)
    /\ RunOf[c] \notin stopped
    /\ slot[c] = "claimed"

\* authorize_and_start_live_send grants: the permit, the in-flight counter
\* and the journal's send_started marker commit together.
MayStart(c) ==
    /\ BoundTo[RunOf[c]] = ApprovalOf[c]
    /\ ~DuplicatePermit(c)
    /\ RunOf[c] \notin stopped
    /\ jnl[c] = "claimed"
    /\ slot[c] = "claimed"

StartSend(c) ==
    /\ pc[c] = "authorize"
    /\ MayStart(c)
    /\ \E o \in Outcome :
          /\ permit' = Written(o, permit, Set(permit, c, "authorized"))
          /\ inflight' = Written(o, inflight,
                                 [inflight EXCEPT ![RunOf[c]] = @ + 1])
          /\ jnl' = Written(o, jnl, Set(jnl, c, "send_started"))
          /\ Return(c, o, "recheck", "fail_journal")
    /\ UNCHANGED <<slot, stopped, lease, sends, resp, report, rvars>>

\* ... or raises: a duplicate, a binding that no longer holds, a limit that
\* defers, or a limit that commits the run's stop before raising.  When a
\* limit is reached is RequestBudget's subject, here it may be at any time.
RefuseSend(c) ==
    /\ pc[c] = "authorize"
    /\ \/ UNCHANGED stopped
       \/ /\ ~DuplicatePermit(c)
          /\ stopped' = stopped \cup {RunOf[c]}
    /\ Goto(c, "fail_journal")
    /\ UNCHANGED <<slot, jnl, permit, inflight, lease, sends, resp, report,
                   rvars>>

\* journals.fail(permit_authorization_failed); it raises when the journal is
\* neither claimed nor settled, and either way execute ends here.
Failable(c) == jnl[c] \in {"claimed", "settled"}

FailJournal(c) ==
    /\ pc[c] = "fail_journal"
    /\ \/ /\ Failable(c)
          /\ \E o \in Outcome : jnl' = Written(o, jnl, Set(jnl, c, "failed"))
       \/ /\ ~Failable(c)
          /\ UNCHANGED jnl
    /\ Goto(c, "resolve_fail")
    /\ UNCHANGED <<slot, permit, inflight, stopped, lease, sends, resp,
                   report, rvars>>

\* journals.get before the send: only a send_started journal may go on.
Recheck(c) ==
    /\ pc[c] = "recheck"
    /\ \/ Goto(c, IF jnl[c] = "send_started" THEN "lease" ELSE "abandon")
       \/ /\ Fault # {}
          /\ Goto(c, "resolve_fail")
    /\ UNCHANGED <<db, lease, sends, resp, report, rvars>>

\* record_transport_failure, whose exceptions _consume_failed_permit drops.
TransportFailure(c) ==
    \/ /\ permit[c] = "authorized"
       /\ inflight[RunOf[c]] >= 1
       /\ \E o \in Outcome :
             /\ permit' = Written(o, permit, Set(permit, c, "transport_failed"))
             /\ inflight' = Written(o, inflight, Release(c))
    \/ /\ ~(permit[c] = "authorized" /\ inflight[RunOf[c]] >= 1)
       /\ UNCHANGED <<permit, inflight>>

Abandon(c) ==
    /\ pc[c] = "abandon"
    /\ TransportFailure(c)
    /\ Goto(c, "terminalize")
    /\ UNCHANGED <<slot, jnl, stopped, lease, sends, resp, report, rvars>>

\* _terminalize_before_send: read the journal, then pick the transition.
Terminalize(c) ==
    /\ pc[c] = "terminalize"
    /\ \/ Goto(c, IF jnl[c] = "claimed" THEN "fail_journal"
                  ELSE IF jnl[c] = "send_started" THEN "mark" ELSE "recover")
       \/ /\ Fault # {}
          /\ Goto(c, "resolve_fail")
    /\ UNCHANGED <<db, lease, sends, resp, report, rvars>>
-----------------------------------------------------------------------------
(* DurableMarkerExternalSender.send and ExternalSessionBroker.fetch *)

\* The sender is built for this call and burned on entry; then the lease is
\* checked, which burns it outside its window.
CheckLease(c) ==
    /\ pc[c] = "lease"
    /\ \/ /\ lease[LeaseOf[c]] = "active"
          /\ Goto(c, "verify")
          /\ UNCHANGED lease
       \/ /\ lease[LeaseOf[c]] = "active"
          /\ Goto(c, "send_failed")
          /\ lease' = Set(lease, LeaseOf[c], "burned")
       \/ /\ lease[LeaseOf[c]] # "active"
          /\ Goto(c, "send_failed")
          /\ UNCHANGED lease
    /\ UNCHANGED <<db, sends, resp, report, rvars>>

\* _verify_durable_marker: one transaction over journal, permit, slot, budget.
MarkerValid(c) ==
    /\ jnl[c] = "send_started"
    /\ permit[c] = "authorized"
    /\ slot[c] = "claimed"

VerifyMarker(c) ==
    /\ pc[c] = "verify"
    /\ \/ Goto(c, IF MarkerValid(c) THEN "reveal" ELSE "send_failed")
       \/ /\ Fault # {}
          /\ Goto(c, "send_failed")
    /\ UNCHANGED <<db, lease, sends, resp, report, rvars>>

\* The broker's first capability check and RuntimeSession.reveal_for_request,
\* which burns the lease before it validates window and scope.
Reveal(c) ==
    /\ pc[c] = "reveal"
    /\ \/ /\ lease[LeaseOf[c]] = "active"
          /\ lease' = Set(lease, LeaseOf[c], "consumed")
          /\ Goto(c, "open")
       \/ /\ lease[LeaseOf[c]] = "active"
          /\ lease' = Set(lease, LeaseOf[c], "burned")
          /\ Goto(c, "send_failed")
       \/ /\ UNCHANGED lease
          /\ Goto(c, "send_failed")
    /\ UNCHANGED <<db, sends, resp, report, rvars>>

\* The second capability check, then the request goes out.
OpenRequest(c) ==
    /\ pc[c] = "open"
    /\ \/ /\ sends' = Set(sends, c, sends[c] + 1)
          /\ Goto(c, "wire")
       \/ /\ UNCHANGED sends
          /\ Goto(c, "send_failed")
    /\ UNCHANGED <<db, lease, resp, report, rvars>>

\* The response is read, or the transport raises.
ReadResponse(c) ==
    /\ pc[c] = "wire"
    /\ \/ /\ \E k \in Response : resp' = Set(resp, c, k)
          /\ Goto(c, "record")
       \/ /\ UNCHANGED resp
          /\ Goto(c, "send_failed")
    /\ UNCHANGED <<db, lease, sends, report, rvars>>
-----------------------------------------------------------------------------
(* Settlement, in JournalBoundLiveAttemptCoordinator.execute again *)

\* safety.record_response; two denials in a row stop the run, and the run
\* may have had one before (RequestBudget keeps the count).
RecordResponse(c) ==
    /\ pc[c] = "record"
    /\ \/ /\ permit[c] = "authorized"
          /\ inflight[RunOf[c]] >= 1
          /\ \E o \in Outcome :
                /\ permit' = Written(o, permit, Set(permit, c, "consumed"))
                /\ inflight' = Written(o, inflight, Release(c))
                /\ \/ UNCHANGED stopped
                   \/ /\ resp[c] = "denied"
                      /\ stopped' = Written(o, stopped, stopped \cup {RunOf[c]})
                /\ Return(c, o, "settle", "mark")
       \/ /\ ~(permit[c] = "authorized" /\ inflight[RunOf[c]] >= 1)
          /\ Goto(c, "mark")
          /\ UNCHANGED <<permit, inflight, stopped>>
    /\ UNCHANGED <<slot, jnl, lease, sends, resp, report, rvars>>

\* The sender raised: the permit is consumed as failed, the effect unknown.
SendFailed(c) ==
    /\ pc[c] = "send_failed"
    /\ TransportFailure(c)
    /\ Goto(c, "mark")
    /\ UNCHANGED <<slot, jnl, stopped, lease, sends, resp, report, rvars>>

\* _mark_indeterminate: a journal error falls back to recovery, any other
\* exception leaves execute.
MarkIndeterminate(c) ==
    /\ pc[c] = "mark"
    /\ \/ /\ jnl[c] = "send_started"
          /\ \E o \in Outcome :
                jnl' = Written(o, jnl, Set(jnl, c, "indeterminate"))
          /\ Goto(c, "resolve_fail")
       \/ /\ jnl[c] # "send_started"
          /\ Goto(c, "recover")
          /\ UNCHANGED jnl
    /\ UNCHANGED <<slot, permit, inflight, stopped, lease, sends, resp,
                   report, rvars>>

\* Mutants: a started send is written off, may be sent again, is left open.
RecoveredFailed(state) == IF state \in Terminal THEN state ELSE "failed"
RecoveredOpen(state) == IF state = "claimed" THEN "failed" ELSE state

\* recover_without_resend: where an unfinished journal goes.
Recovered(state) ==
    CASE state \in Terminal -> state
      [] state = "send_started" -> "indeterminate"
      [] OTHER -> "failed"

Recover(c) ==
    /\ pc[c] = "recover"
    /\ \E o \in Outcome :
          jnl' = Written(o, jnl, Set(jnl, c, Recovered(jnl[c])))
    /\ Goto(c, "resolve_fail")
    /\ UNCHANGED <<slot, permit, inflight, stopped, lease, sends, resp,
                   report, rvars>>

\* journals.settle
Settle(c) ==
    /\ pc[c] = "settle"
    /\ \/ /\ jnl[c] = "send_started"
          /\ permit[c] = "consumed"
          /\ \E o \in Outcome :
                /\ jnl' = Written(o, jnl, Set(jnl, c, "settled"))
                /\ Return(c, o, "process", "resolve_fail")
       \/ /\ ~(jnl[c] = "send_started" /\ permit[c] = "consumed")
          /\ Goto(c, "mark")
          /\ UNCHANGED jnl
    /\ UNCHANGED <<slot, permit, inflight, stopped, lease, sends, resp,
                   report, rvars>>

\* A 2xx response is parsed by _PinnedSettledResponseProcessor; metadata that
\* breaks the policy also stops the run (signal_schema_drift).
Process(c) ==
    /\ pc[c] = "process"
    /\ \/ /\ resp[c] = "success"
          /\ Goto(c, "complete")
          /\ UNCHANGED stopped
       \/ /\ resp[c] = "success"
          /\ Goto(c, "fail_settled")
          /\ \/ UNCHANGED stopped
             \/ stopped' = stopped \cup {RunOf[c]}
       \/ /\ resp[c] # "success"
          /\ Goto(c, "fail_settled")
          /\ UNCHANGED stopped
    /\ UNCHANGED <<slot, jnl, permit, inflight, lease, sends, resp, report,
                   rvars>>

\* journals.fail(non_success_response or response_processing_failed)
FailSettled(c) ==
    /\ pc[c] = "fail_settled"
    /\ \/ /\ Failable(c)
          /\ \E o \in Outcome : jnl' = Written(o, jnl, Set(jnl, c, "failed"))
          /\ Goto(c, "resolve_fail")
       \/ /\ ~Failable(c)
          /\ Goto(c, "recover")
          /\ UNCHANGED jnl
    /\ UNCHANGED <<slot, permit, inflight, stopped, lease, sends, resp,
                   report, rvars>>

\* journals.complete; only its result COMPLETED lets the executor hand the
\* response on, and so the composition complete the slot.
CompleteJournal(c) ==
    /\ pc[c] = "complete"
    /\ \/ /\ jnl[c] = "settled"
          /\ \E o \in Outcome :
                /\ jnl' = Written(o, jnl, Set(jnl, c, "completed"))
                /\ Return(c, o, "resolve_ok", "resolve_fail")
       \/ /\ jnl[c] # "settled"
          /\ Goto(c, "recover")
          /\ UNCHANGED jnl
    /\ UNCHANGED <<slot, permit, inflight, stopped, lease, sends, resp,
                   report, rvars>>

\* The process dies between two steps and loses what it knew.
Crash(c) ==
    /\ pc[c] \notin {"precheck", "done", "crashed"}
    /\ Goto(c, "crashed")
    /\ UNCHANGED <<db, lease, sends, resp, report, rvars>>
-----------------------------------------------------------------------------
(* LiveSlotReconciliationService.reconcile *)

RGoto(r, step) == rpc' = [rpc EXCEPT ![r] = step]

\* recover_without_resend on any existing journal, in any state.
ReconcileJournal(r, c) ==
    /\ rpc[r] = "idle"
    /\ jnl[c] # "none"
    /\ \E o \in Outcome :
          /\ jnl' = Written(o, jnl, Set(jnl, c, Recovered(jnl[c])))
          /\ RGoto(r, IF o = "ok" THEN "permit" ELSE "idle")
          /\ rjob' = IF o = "ok" THEN Set(rjob, r, c) ELSE rjob
          /\ rseen' = IF o = "ok" THEN Set(rseen, r, Recovered(jnl[c]))
                      ELSE rseen
    /\ UNCHANGED <<slot, permit, inflight, stopped, lease, sends, resp, pc,
                   report>>

\* Forget the job: reconcile returned or raised.
ROver(r) ==
    /\ RGoto(r, "idle")
    /\ rjob' = Set(rjob, r, "none")
    /\ rseen' = Set(rseen, r, "none")

\* _consume_uncertain_permit: the journal carries a permit id exactly when
\* its permit row exists, they commit together in StartSend.
Uncertain(r) ==
    /\ rseen[r] \in {"failed", "indeterminate"}
    /\ permit[rjob[r]] = "authorized"

ConsumeUncertainPermit(r) ==
    /\ rpc[r] = "permit"
    /\ \/ /\ Uncertain(r)
          /\ inflight[RunOf[rjob[r]]] >= 1
          /\ \E o \in Outcome :
                /\ permit' = Written(o, permit,
                                     Set(permit, rjob[r], "transport_failed"))
                /\ inflight' = Written(o, inflight, Release(rjob[r]))
                /\ IF o = "ok" THEN RGoto(r, "slot") /\ UNCHANGED <<rjob, rseen>>
                   ELSE ROver(r)
       \/ /\ ~(Uncertain(r) /\ inflight[RunOf[rjob[r]]] >= 1)
          /\ IF Uncertain(r) THEN ROver(r)
             ELSE RGoto(r, "slot") /\ UNCHANGED <<rjob, rseen>>
          /\ UNCHANGED <<permit, inflight>>
    /\ UNCHANGED <<slot, jnl, stopped, lease, sends, resp, pc, report>>

\* slots.complete or fail; a slot that is terminal already stays as it is.
ReconcileSlot(r) ==
    /\ rpc[r] = "slot"
    /\ \/ /\ slot[rjob[r]] = "claimed"
          /\ \E o \in Outcome :
                slot' = Written(o, slot,
                                Set(slot, rjob[r],
                                    IF rseen[r] = "completed" THEN "completed"
                                    ELSE "failed"))
       \/ /\ slot[rjob[r]] # "claimed"
          /\ UNCHANGED slot
    /\ ROver(r)
    /\ UNCHANGED <<jnl, permit, inflight, stopped, lease, sends, resp, pc,
                   report>>

RCrash(r) ==
    /\ rpc[r] # "idle"
    /\ ROver(r)
    /\ UNCHANGED <<db, lease, sends, resp, pc, report>>
-----------------------------------------------------------------------------
Attempt(c) ==
    \/ Precheck(c) \/ ClaimSlot(c) \/ Arm(c) \/ ClaimJournal(c)
    \/ StartSend(c) \/ RefuseSend(c) \/ FailJournal(c) \/ Recheck(c)
    \/ Abandon(c) \/ Terminalize(c) \/ CheckLease(c) \/ VerifyMarker(c)
    \/ Reveal(c) \/ OpenRequest(c) \/ ReadResponse(c) \/ RecordResponse(c)
    \/ SendFailed(c) \/ MarkIndeterminate(c) \/ Recover(c) \/ Settle(c)
    \/ Process(c) \/ FailSettled(c) \/ CompleteJournal(c) \/ ResolveSlot(c)

Reconcile(r) ==
    \/ \E c \in Composer : ReconcileJournal(r, c)
    \/ ConsumeUncertainPermit(r)
    \/ ReconcileSlot(r)

Next ==
    \/ \E c \in Composer : Attempt(c) \/ Crash(c)
    \/ \E r \in Reconciler : Reconcile(r) \/ RCrash(r)

Spec == Init /\ [][Next]_vars

\* Mutant: the report leaves out the journals of settled responses.
UnsettledAttempts ==
    {c \in Composer : jnl[c] \in {"claimed", "send_started"}}

\* build_live_attempt_operator_report, what it lists for the operator:
\* journals that are not terminal, and claimed slots that have no journal.  A
\* claimed slot whose journal is terminal is on neither list.
UnresolvedAttempts ==
    {c \in Composer : jnl[c] \in {"claimed", "send_started", "settled"}}

OrphanClaimedSlots ==
    {c \in Composer : slot[c] = "claimed" /\ jnl[c] = "none"}

\* A live composer, and a reconciler that has begun, go on until they return
\* or die.  Operators keep reconciling the journals the report lists, and
\* those only: a reconciler may be called for any journal, but nothing makes
\* anybody do so once the journal is terminal.
FairSpec ==
    /\ Spec
    /\ \A c \in Composer : WF_vars(Attempt(c))
    /\ \A r \in Reconciler :
          WF_vars(ConsumeUncertainPermit(r) \/ ReconcileSlot(r))
    /\ \A c \in Composer :
          SF_vars(/\ c \in UnresolvedAttempts
                  /\ \E r \in Reconciler : ReconcileJournal(r, c))
-----------------------------------------------------------------------------
(* Properties *)

\* One approval puts at most one request on the wire, whatever number of
\* processes compose it, crash, restart or are reconciled meanwhile ("Execute
\* at most one injected send", live_attempt_coordinator.py:105).
AtMostOneSend ==
    \A c, d \in Composer :
        /\ sends[c] <= 1
        /\ (sends[c] > 0 /\ sends[d] > 0 /\ ApprovalOf[c] = ApprovalOf[d])
              => c = d

\* One runtime session lease carries at most one request, also when attempts
\* for different approvals share it in one process.
OneSendPerLease ==
    \A c, d \in Composer :
        (sends[c] > 0 /\ sends[d] > 0 /\ LeaseOf[c] = LeaseOf[d]) => c = d

\* A request whose effect is unknown is never written off as a plain failure:
\* a journal that failed after its request went out has a consumed permit and
\* so a response that was read.  Everything else ends indeterminate.
FailedMeansKnown ==
    \A c \in Composer :
        (sends[c] > 0 /\ jnl[c] = "failed")
            => (permit[c] = "consumed" /\ resp[c] # "none")

\* A request that went out has left a durable trace: its journal is past
\* claimed and its permit exists, so recovery can never take it for unsent.
SendLeavesTrace ==
    \A c \in Composer :
        sends[c] > 0 => jnl[c] \notin {"none", "claimed"} /\ permit[c] # "none"

\* A slot is completed, by the composition or by the reconciler, only for a
\* 2xx response that was sent for, consumed, settled and parsed.
CompletedMeansSuccess ==
    \A c \in Composer :
        slot[c] = "completed" =>
            /\ jnl[c] = "completed"
            /\ permit[c] = "consumed"
            /\ resp[c] = "success"
            /\ sends[c] = 1

InFlight(r) == {c \in Composer : RunOf[c] = r /\ permit[c] = "authorized"}

\* in_flight_count of a run is the number of its authorized permits, through
\* every race between the coordinator and the reconciler to consume one.
InFlightCount ==
    \A r \in Run : inflight[r] = Cardinality(InFlight(r))

\* The returned slot_status never hides an attempt: "not_claimed" means no
\* journal and no request, a terminal status is the one in the table.
ReportHonest ==
    \A c \in Composer :
        /\ report[c] = "not_claimed" => (jnl[c] = "none" /\ sends[c] = 0)
        /\ report[c] \in {"completed", "failed"} => slot[c] = report[c]

\* A slot given up as failed has no journal that completed or is still open.
\* It needs every commit to be acknowledged.
FailedSlotIsFinal ==
    \A c \in Composer :
        slot[c] = "failed" => jnl[c] \in {"none", "failed", "indeterminate"}

\* The transitions of the tables' status columns.  "Completed, failed and
\* indeterminate rows can never return to a sendable state"
\* (live-execution-journal.md:18); slots and permits are spent for ever.
JournalMoves == {<<"none", "claimed">>, <<"claimed", "send_started">>,
                 <<"claimed", "failed">>, <<"send_started", "settled">>,
                 <<"send_started", "indeterminate">>, <<"settled", "completed">>,
                 <<"settled", "failed">>}
SlotMoves == {<<"none", "claimed">>, <<"claimed", "completed">>,
              <<"claimed", "failed">>}
PermitMoves == {<<"none", "authorized">>, <<"authorized", "consumed">>,
                <<"authorized", "transport_failed">>}

OneWay ==
    [][\A c \in Composer :
          /\ jnl'[c] # jnl[c] => <<jnl[c], jnl'[c]>> \in JournalMoves
          /\ slot'[c] # slot[c] => <<slot[c], slot'[c]>> \in SlotMoves
          /\ permit'[c] # permit[c] => <<permit[c], permit'[c]>> \in PermitMoves]_vars

\* The live path implements the abstract at-most-once promise.
Promise == INSTANCE OneShot WITH
    Caller <- Composer,
    ApprovalGiven <- ApprovalOf,
    owners <- {c \in Composer : slot[c] # "none"},
    sent <- sends,
    verdict <- [c \in Composer |-> IF slot[c] \in {"completed", "failed"}
                                   THEN slot[c] ELSE "open"]

ImplementsOneShot == Promise!OSpec

\* Every journal that was ever claimed becomes terminal, so leaves the
\* operator's report, whoever died in whatever step; and unless the process
\* that made the attempt died, its slot is terminal too and no permit of it is
\* in flight.  (After a death the slot may stay claimed: see the README.)
JournalsAreResolved ==
    \A c \in Composer :
        jnl[c] # "none" ~>
            /\ jnl[c] \in Terminal
            /\ pc[c] # "crashed" => slot[c] # "claimed" /\ permit[c] # "authorized"

\* A slot stays claimed for ever only after a death of its process, and then
\* in one of two places: before the journal was claimed, where the report
\* lists it, or behind a journal that is terminal already, where no list has
\* it (PROJECT_STATUS.md:175 "maps every unfinished or terminal journal to a
\* permanent slot terminal state" is about a reconciler somebody calls).
ClaimedSlotsAreAccounted ==
    \A c \in Composer :
        slot[c] = "claimed" ~>
            \/ slot[c] # "claimed"
            \/ pc[c] = "crashed" /\ (c \in OrphanClaimedSlots \/ jnl[c] \in Terminal)
-----------------------------------------------------------------------------
(* The inductive invariant behind the safety properties *)

\* Where a composer has not yet recorded a response, has not yet sent, holds a
\* permit, has read a response, has a journal.
BeforeRecord == Step \ {"settle", "process", "fail_settled", "complete",
                        "mark", "recover", "resolve_ok", "resolve_fail",
                        "done", "crashed"}
BeforeSend == {"precheck", "claim", "arm", "journal", "authorize",
               "fail_journal", "recheck", "abandon", "terminalize", "lease",
               "verify", "reveal", "open"}
HoldsPermit == {"recheck", "lease", "verify", "reveal", "open"}
AfterResponse == {"record", "settle", "process", "fail_settled", "complete"}
InExecute == Step \ {"precheck", "claim", "arm", "journal", "resolve_ok",
                     "resolve_fail", "done", "crashed"}

\* What the tables say of one another: slot before journal, permit with the
\* send marker, consumed permit before settlement.
TablesInv(c) ==
    /\ jnl[c] # "none" => slot[c] # "none"
    /\ jnl[c] \in {"none", "claimed"} => permit[c] = "none"
    /\ jnl[c] \in {"send_started", "indeterminate"} => permit[c] # "none"
    /\ jnl[c] \in {"settled", "completed"} => permit[c] = "consumed"
    /\ jnl[c] = "failed" => permit[c] \in {"none", "consumed"}
    /\ permit[c] = "consumed" => resp[c] # "none" /\ sends[c] = 1
    /\ jnl[c] = "completed" => resp[c] = "success"
    /\ slot[c] = "completed" => jnl[c] = "completed"

\* How far a composer's own step is reflected in the tables.
ProgressInv(c) ==
    /\ pc[c] \in {"precheck", "claim"} => slot[c] = "none"
    /\ pc[c] \in {"precheck", "claim", "arm", "journal"} => jnl[c] = "none"
    /\ pc[c] \in InExecute => jnl[c] # "none"
    /\ pc[c] \in BeforeRecord => permit[c] # "consumed"
    /\ pc[c] \in BeforeSend => sends[c] = 0
    /\ pc[c] \in HoldsPermit => permit[c] # "none"
    /\ pc[c] \in AfterResponse \cup {"wire"} => sends[c] = 1
    /\ pc[c] \in AfterResponse => resp[c] # "none"
    /\ pc[c] = "complete" => resp[c] = "success"
    /\ pc[c] = "resolve_ok" => jnl[c] = "completed"
    /\ sends[c] <= 1
    /\ sends[c] > 0 => permit[c] # "none"
    /\ report[c] # "none" => pc[c] = "done"

OneSlotPerApproval ==
    \A c, d \in Composer :
        (slot[c] # "none" /\ slot[d] # "none" /\ ApprovalOf[c] = ApprovalOf[d])
            => c = d

\* The composer that spent a lease: it revealed the session.
Spender(c) == pc[c] = "open" \/ sends[c] > 0

LeaseInv ==
    \A c, d \in Composer :
        Spender(c) =>
            /\ lease[LeaseOf[c]] = "consumed"
            /\ (Spender(d) /\ LeaseOf[c] = LeaseOf[d]) => c = d

\* What a reconciler learned in its first transaction stays true.
ReconcilerInv ==
    \A r \in Reconciler :
        rpc[r] # "idle" => /\ rjob[r] \in Composer
                           /\ rseen[r] \in Terminal
                           /\ jnl[rjob[r]] = rseen[r]

IInv ==
    /\ TypeOK
    /\ \A c \in Composer : TablesInv(c) /\ ProgressInv(c)
    /\ OneSlotPerApproval
    /\ LeaseInv
    /\ ReconcilerInv
    /\ ReportHonest

\* With every commit acknowledged, who gives up an attempt has seen its journal
\* end without success, and only the completing call and what comes after it
\* see a completed one.
Unsuccessful == {"none", "failed", "indeterminate"}

AckInv(c) ==
    /\ slot[c] = "failed" => jnl[c] \in Unsuccessful
    /\ pc[c] = "resolve_fail" => jnl[c] \in Unsuccessful
    /\ pc[c] \in {"authorize", "fail_journal"} => jnl[c] \in {"claimed", "failed"}
    /\ jnl[c] = "completed" => pc[c] \in {"resolve_ok", "done", "crashed"}

AllAckInv == \A c \in Composer : AckInv(c)
=============================================================================
