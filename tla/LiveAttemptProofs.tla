------------------------- MODULE LiveAttemptProofs -------------------------
(***************************************************************************)
(* Proofs about LiveAttempt, for every finite set of composers and every   *)
(* choice of the other constants and of the database faults.  IInv is      *)
(* inductive; the safety properties and the refinement of OneShot follow   *)
(* from it.                                                                *)
(***************************************************************************)
EXTENDS LiveAttempt, FiniteSetTheorems, TLAPS

\* Where recover_without_resend takes a journal: terminal states stay, a
\* started send becomes indeterminate, the rest fails.
LEMMA RecoveredCases ==
    ASSUME NEW s \in JournalStatus
    PROVE  /\ Recovered(s) \in Terminal
           /\ s \in Terminal => Recovered(s) = s
           /\ s = "send_started" => Recovered(s) = "indeterminate"
           /\ s \notin Terminal \cup {"send_started"} => Recovered(s) = "failed"
BY DEF Recovered, JournalStatus, Terminal

\* Giving back an in-flight place keeps the counters natural numbers, because
\* every consumer checks in_flight_count >= 1 first.
LEMMA ReleaseType ==
    ASSUME TypeOK, NEW c \in Composer, inflight[RunOf[c]] >= 1
    PROVE  Release(c) \in [Run -> Nat]
<1>1. RunOf[c] \in Run
  BY ConstantsAssumption DEF ConstantsAssumption
<1>. QED
  BY <1>1 DEF TypeOK, Release

\* Every step keeps the tables, the leases and the program counters typed.
LEMMA TypeStep == TypeOK /\ ReconcilerInv /\ [Next]_vars => TypeOK'
<1> SUFFICES ASSUME TypeOK, ReconcilerInv, [Next]_vars PROVE TypeOK'
  OBVIOUS
<1> USE ConstantsAssumption DEF ConstantsAssumption, TypeOK, SlotStatus,
        JournalStatus, Terminal, PermitStatus, LeaseState, Response, Step,
        Report, db, rvars, Written, Goto, Return, Set
<1>1. ASSUME NEW c \in Composer, Precheck(c) PROVE TypeOK'
  BY <1>1 DEF Precheck
<1>2. ASSUME NEW c \in Composer, ClaimSlot(c) PROVE TypeOK'
  BY <1>2 DEF ClaimSlot
<1>3. ASSUME NEW c \in Composer, Arm(c) PROVE TypeOK'
  <2>1. CASE Goto(c, "journal")
    BY <1>3, <2>1 DEF Arm
  <2>2. CASE Goto(c, "resolve_fail")
    BY <1>3, <2>2 DEF Arm
  <2>. QED
    BY <1>3, <2>1, <2>2 DEF Arm
<1>4. ASSUME NEW c \in Composer, ClaimJournal(c) PROVE TypeOK'
  BY <1>4 DEF ClaimJournal
<1>5. ASSUME NEW c \in Composer, StartSend(c) PROVE TypeOK'
  BY <1>5 DEF StartSend
<1>6. ASSUME NEW c \in Composer, RefuseSend(c) PROVE TypeOK'
  BY <1>6 DEF RefuseSend
<1>7. ASSUME NEW c \in Composer, FailJournal(c) PROVE TypeOK'
  BY <1>7 DEF FailJournal
<1>8. ASSUME NEW c \in Composer, Recheck(c) PROVE TypeOK'
  BY <1>8 DEF Recheck
<1>9. ASSUME NEW c \in Composer, Abandon(c) PROVE TypeOK'
  BY <1>9, ReleaseType DEF Abandon, TransportFailure
<1>10. ASSUME NEW c \in Composer, Terminalize(c) PROVE TypeOK'
  BY <1>10 DEF Terminalize
<1>11. ASSUME NEW c \in Composer, CheckLease(c) PROVE TypeOK'
  BY <1>11 DEF CheckLease
<1>12. ASSUME NEW c \in Composer, VerifyMarker(c) PROVE TypeOK'
  <2>1. CASE Goto(c, "reveal")
    BY <1>12, <2>1 DEF VerifyMarker
  <2>2. CASE Goto(c, "send_failed")
    BY <1>12, <2>2 DEF VerifyMarker
  <2>3. Goto(c, "reveal") \/ Goto(c, "send_failed")
    <3>1. CASE MarkerValid(c)
      BY <1>12, <3>1 DEF VerifyMarker
    <3>2. CASE ~MarkerValid(c)
      BY <1>12, <3>2 DEF VerifyMarker
    <3>. QED
      BY <3>1, <3>2
  <2>. QED
    BY <2>1, <2>2, <2>3
<1>13. ASSUME NEW c \in Composer, Reveal(c) PROVE TypeOK'
  BY <1>13 DEF Reveal
<1>14. ASSUME NEW c \in Composer, OpenRequest(c) PROVE TypeOK'
  BY <1>14 DEF OpenRequest
<1>15. ASSUME NEW c \in Composer, ReadResponse(c) PROVE TypeOK'
  BY <1>15 DEF ReadResponse
<1>16. ASSUME NEW c \in Composer, RecordResponse(c) PROVE TypeOK'
  <2>1. inflight[RunOf[c]] >= 1 => Release(c) \in [Run -> Nat]
    BY ReleaseType
  <2>2. RunOf[c] \in Run
    OBVIOUS
  <2>. QED
    BY <1>16, <2>1, <2>2 DEF RecordResponse
<1>17. ASSUME NEW c \in Composer, SendFailed(c) PROVE TypeOK'
  BY <1>17, ReleaseType DEF SendFailed, TransportFailure
<1>18. ASSUME NEW c \in Composer, MarkIndeterminate(c) PROVE TypeOK'
  BY <1>18 DEF MarkIndeterminate
<1>19. ASSUME NEW c \in Composer, Recover(c) PROVE TypeOK'
  BY <1>19, RecoveredCases DEF Recover
<1>20. ASSUME NEW c \in Composer, Settle(c) PROVE TypeOK'
  BY <1>20 DEF Settle
<1>21. ASSUME NEW c \in Composer, Process(c) PROVE TypeOK'
  BY <1>21 DEF Process
<1>22. ASSUME NEW c \in Composer, FailSettled(c) PROVE TypeOK'
  BY <1>22 DEF FailSettled
<1>23. ASSUME NEW c \in Composer, CompleteJournal(c) PROVE TypeOK'
  BY <1>23 DEF CompleteJournal
<1>24. ASSUME NEW c \in Composer, ResolveSlot(c) PROVE TypeOK'
  BY <1>24 DEF ResolveSlot, Verdict
<1>25. ASSUME NEW c \in Composer, Crash(c) PROVE TypeOK'
  BY <1>25 DEF Crash
<1>26. ASSUME NEW r \in Reconciler, NEW c \in Composer,
             ReconcileJournal(r, c)
      PROVE  TypeOK'
  BY <1>26, RecoveredCases DEF ReconcileJournal, RGoto
<1>27. ASSUME NEW r \in Reconciler, ConsumeUncertainPermit(r) PROVE TypeOK'
  <2>1. rjob[r] \in Composer
    BY <1>27 DEF ConsumeUncertainPermit, ReconcilerInv
  <2>2. inflight[RunOf[rjob[r]]] >= 1 => Release(rjob[r]) \in [Run -> Nat]
    BY <2>1, ReleaseType
  <2>. QED
    BY <1>27, <2>1, <2>2 DEF ConsumeUncertainPermit, Uncertain, ROver, RGoto
<1>28. ASSUME NEW r \in Reconciler, ReconcileSlot(r) PROVE TypeOK'
  BY <1>28 DEF ReconcileSlot, ROver, RGoto
<1>29. ASSUME NEW r \in Reconciler, RCrash(r) PROVE TypeOK'
  BY <1>29 DEF RCrash, ROver, RGoto
<1>30. CASE UNCHANGED vars
  BY <1>30 DEF vars
<1>. QED
  BY <1>1, <1>2, <1>3, <1>4, <1>5, <1>6, <1>7, <1>8, <1>9, <1>10, <1>11,
     <1>12, <1>13, <1>14, <1>15, <1>16, <1>17, <1>18, <1>19, <1>20, <1>21,
     <1>22, <1>23, <1>24, <1>25, <1>26, <1>27, <1>28, <1>29, <1>30 DEF Next,
     Attempt, Reconcile

\* Init satisfies the invariant.
LEMMA InvInit == Init => IInv
BY ConstantsAssumption
   DEF ConstantsAssumption, Init, IInv, TypeOK, SlotStatus, JournalStatus,
       PermitStatus, LeaseState, Step, Report, TablesInv, ProgressInv,
       OneSlotPerApproval, LeaseInv, Spender, ReconcilerInv, ReportHonest,
       BeforeRecord, BeforeSend, HoldsPermit, AfterResponse, InExecute

\* Every step preserves it: one case per action, under it the parts the
\* action can disturb.
LEMMA InvStep == IInv /\ [Next]_vars => IInv'
<1> SUFFICES ASSUME IInv, [Next]_vars PROVE IInv'
  OBVIOUS
<1> TypeOK'
  BY TypeStep DEF IInv
<1> USE ConstantsAssumption DEF ConstantsAssumption, IInv, TypeOK, SlotStatus,
        JournalStatus, Terminal, PermitStatus, LeaseState, Response, Step,
        Report, db, rvars, Written, Goto, Return, Set, BeforeRecord,
        BeforeSend, HoldsPermit, AfterResponse, InExecute, TablesInv,
        ProgressInv, OneSlotPerApproval, LeaseInv, Spender, ReconcilerInv,
        ReportHonest
<1>1. ASSUME NEW c \in Composer, Precheck(c) PROVE IInv'
  <2>1. \A d \in Composer : ProgressInv(d)'
    BY <1>1 DEF Precheck
  <2>2. LeaseInv'
    BY <1>1 DEF Precheck
  <2>. QED
    BY <1>1, <2>1, <2>2 DEF Precheck
<1>2. ASSUME NEW c \in Composer, ClaimSlot(c) PROVE IInv'
  <2>1. \A d \in Composer : TablesInv(d)'
    BY <1>2 DEF ClaimSlot, SlotFree
  <2>2. \A d \in Composer : ProgressInv(d)'
    BY <1>2 DEF ClaimSlot, SlotFree
  <2>3. OneSlotPerApproval'
    BY <1>2 DEF ClaimSlot, SlotFree
  <2>4. ReportHonest'
    BY <1>2 DEF ClaimSlot, SlotFree
  <2>. QED
    BY <1>2, <2>1, <2>2, <2>3, <2>4 DEF ClaimSlot, SlotFree
<1>3. ASSUME NEW c \in Composer, Arm(c) PROVE IInv'
  <2>1. \A d \in Composer : ProgressInv(d)'
    BY <1>3 DEF Arm
  <2>. QED
    BY <1>3, <2>1 DEF Arm
<1>4. ASSUME NEW c \in Composer, ClaimJournal(c) PROVE IInv'
  <2>1. \A d \in Composer : TablesInv(d)'
    BY <1>4 DEF ClaimJournal
  <2>2. \A d \in Composer : ProgressInv(d)'
    BY <1>4 DEF ClaimJournal
  <2>3. ReconcilerInv'
    BY <1>4 DEF ClaimJournal
  <2>4. ReportHonest'
    <3>1. report[c] = "none" /\ UNCHANGED <<slot, sends, report>>
      BY <1>4 DEF ClaimJournal
    <3>2. \A d \in Composer \ {c} : jnl'[d] = jnl[d]
      BY <1>4 DEF ClaimJournal
    <3>. QED
      BY <3>1, <3>2
  <2>. QED
    BY <1>4, <2>1, <2>2, <2>3, <2>4 DEF ClaimJournal
<1>5. ASSUME NEW c \in Composer, StartSend(c) PROVE IInv'
  <2>1. \A d \in Composer : TablesInv(d)'
    BY <1>5 DEF StartSend, MayStart
  <2>2. \A d \in Composer : ProgressInv(d)'
    BY <1>5 DEF StartSend, MayStart
  <2>3. ReconcilerInv'
    BY <1>5 DEF StartSend, MayStart
  <2>4. ReportHonest'
    BY <1>5 DEF StartSend, MayStart
  <2>. QED
    BY <1>5, <2>1, <2>2, <2>3, <2>4 DEF StartSend, MayStart
<1>6. ASSUME NEW c \in Composer, RefuseSend(c) PROVE IInv'
  <2>1. \A d \in Composer : ProgressInv(d)'
    BY <1>6 DEF RefuseSend
  <2>. QED
    BY <1>6, <2>1 DEF RefuseSend
<1>7. ASSUME NEW c \in Composer, FailJournal(c) PROVE IInv'
  <2>1. \A d \in Composer : TablesInv(d)'
    BY <1>7 DEF FailJournal, Failable
  <2>2. \A d \in Composer : ProgressInv(d)'
    BY <1>7 DEF FailJournal, Failable
  <2>3. ReconcilerInv'
    BY <1>7 DEF FailJournal, Failable
  <2>4. ReportHonest'
    BY <1>7 DEF FailJournal, Failable
  <2>. QED
    BY <1>7, <2>1, <2>2, <2>3, <2>4 DEF FailJournal, Failable
<1>8. ASSUME NEW c \in Composer, Recheck(c) PROVE IInv'
  <2>1. \A d \in Composer : ProgressInv(d)'
    BY <1>8 DEF Recheck
  <2>. QED
    BY <1>8, <2>1 DEF Recheck
<1>9. ASSUME NEW c \in Composer, Abandon(c) PROVE IInv'
  <2>1. \A d \in Composer : TablesInv(d)'
    BY <1>9 DEF Abandon, TransportFailure
  <2>2. \A d \in Composer : ProgressInv(d)'
    BY <1>9 DEF Abandon, TransportFailure
  <2>. QED
    BY <1>9, <2>1, <2>2 DEF Abandon, TransportFailure
<1>10. ASSUME NEW c \in Composer, Terminalize(c) PROVE IInv'
  <2>1. \A d \in Composer : ProgressInv(d)'
    BY <1>10 DEF Terminalize
  <2>. QED
    BY <1>10, <2>1 DEF Terminalize
<1>11. ASSUME NEW c \in Composer, CheckLease(c) PROVE IInv'
  <2>1. \A d \in Composer : ProgressInv(d)'
    BY <1>11 DEF CheckLease
  <2>2. LeaseInv'
    BY <1>11 DEF CheckLease
  <2>. QED
    BY <1>11, <2>1, <2>2 DEF CheckLease
<1>12. ASSUME NEW c \in Composer, VerifyMarker(c) PROVE IInv'
  <2>1. \A d \in Composer : ProgressInv(d)'
    BY <1>12 DEF VerifyMarker, MarkerValid
  <2>. QED
    BY <1>12, <2>1 DEF VerifyMarker, MarkerValid
<1>13. ASSUME NEW c \in Composer, Reveal(c) PROVE IInv'
  <2>1. \A d \in Composer : ProgressInv(d)'
    BY <1>13 DEF Reveal
  <2>2. LeaseInv'
    BY <1>13 DEF Reveal
  <2>. QED
    BY <1>13, <2>1, <2>2 DEF Reveal
<1>14. ASSUME NEW c \in Composer, OpenRequest(c) PROVE IInv'
  <2>1. \A d \in Composer : TablesInv(d)'
    BY <1>14 DEF OpenRequest
  <2>2. \A d \in Composer : ProgressInv(d)'
    BY <1>14 DEF OpenRequest
  <2>3. LeaseInv'
    BY <1>14 DEF OpenRequest
  <2>4. ReportHonest'
    BY <1>14 DEF OpenRequest
  <2>. QED
    BY <1>14, <2>1, <2>2, <2>3, <2>4 DEF OpenRequest
<1>15. ASSUME NEW c \in Composer, ReadResponse(c) PROVE IInv'
  <2>0. permit[c] # "consumed" /\ jnl[c] # "completed"
    BY <1>15 DEF ReadResponse
  <2>1. \A d \in Composer : TablesInv(d)'
    BY <1>15, <2>0 DEF ReadResponse
  <2>2. \A d \in Composer : ProgressInv(d)'
    BY <1>15 DEF ReadResponse
  <2>. QED
    BY <1>15, <2>1, <2>2 DEF ReadResponse
<1>16. ASSUME NEW c \in Composer, RecordResponse(c) PROVE IInv'
  <2>1. \A d \in Composer : TablesInv(d)'
    BY <1>16 DEF RecordResponse
  <2>2. \A d \in Composer : ProgressInv(d)'
    BY <1>16 DEF RecordResponse
  <2>. QED
    BY <1>16, <2>1, <2>2 DEF RecordResponse
<1>17. ASSUME NEW c \in Composer, SendFailed(c) PROVE IInv'
  <2>1. \A d \in Composer : TablesInv(d)'
    BY <1>17 DEF SendFailed, TransportFailure
  <2>2. \A d \in Composer : ProgressInv(d)'
    BY <1>17 DEF SendFailed, TransportFailure
  <2>. QED
    BY <1>17, <2>1, <2>2 DEF SendFailed, TransportFailure
<1>18. ASSUME NEW c \in Composer, MarkIndeterminate(c) PROVE IInv'
  <2>1. \A d \in Composer : TablesInv(d)'
    BY <1>18 DEF MarkIndeterminate
  <2>2. \A d \in Composer : ProgressInv(d)'
    BY <1>18 DEF MarkIndeterminate
  <2>3. ReconcilerInv'
    BY <1>18 DEF MarkIndeterminate
  <2>4. ReportHonest'
    BY <1>18 DEF MarkIndeterminate
  <2>. QED
    BY <1>18, <2>1, <2>2, <2>3, <2>4 DEF MarkIndeterminate
<1>19. ASSUME NEW c \in Composer, Recover(c) PROVE IInv'
  <2>1. \A d \in Composer : TablesInv(d)'
    BY <1>19, RecoveredCases DEF Recover
  <2>2. \A d \in Composer : ProgressInv(d)'
    BY <1>19, RecoveredCases DEF Recover
  <2>3. ReconcilerInv'
    BY <1>19, RecoveredCases DEF Recover
  <2>4. ReportHonest'
    BY <1>19, RecoveredCases DEF Recover
  <2>. QED
    BY <1>19, <2>1, <2>2, <2>3, <2>4 DEF Recover
<1>20. ASSUME NEW c \in Composer, Settle(c) PROVE IInv'
  <2>1. \A d \in Composer : TablesInv(d)'
    BY <1>20 DEF Settle
  <2>2. \A d \in Composer : ProgressInv(d)'
    BY <1>20 DEF Settle
  <2>3. ReconcilerInv'
    BY <1>20 DEF Settle
  <2>4. ReportHonest'
    BY <1>20 DEF Settle
  <2>. QED
    BY <1>20, <2>1, <2>2, <2>3, <2>4 DEF Settle
<1>21. ASSUME NEW c \in Composer, Process(c) PROVE IInv'
  <2>1. \A d \in Composer : ProgressInv(d)'
    BY <1>21 DEF Process
  <2>. QED
    BY <1>21, <2>1 DEF Process
<1>22. ASSUME NEW c \in Composer, FailSettled(c) PROVE IInv'
  <2>1. \A d \in Composer : TablesInv(d)'
    BY <1>22 DEF FailSettled, Failable
  <2>2. \A d \in Composer : ProgressInv(d)'
    BY <1>22 DEF FailSettled, Failable
  <2>3. ReconcilerInv'
    BY <1>22 DEF FailSettled, Failable
  <2>4. ReportHonest'
    BY <1>22 DEF FailSettled, Failable
  <2>. QED
    BY <1>22, <2>1, <2>2, <2>3, <2>4 DEF FailSettled, Failable
<1>23. ASSUME NEW c \in Composer, CompleteJournal(c) PROVE IInv'
  <2>1. \A d \in Composer : TablesInv(d)'
    BY <1>23 DEF CompleteJournal
  <2>2. \A d \in Composer : ProgressInv(d)'
    BY <1>23 DEF CompleteJournal
  <2>3. ReconcilerInv'
    BY <1>23 DEF CompleteJournal
  <2>4. ReportHonest'
    BY <1>23 DEF CompleteJournal
  <2>. QED
    BY <1>23, <2>1, <2>2, <2>3, <2>4 DEF CompleteJournal
<1>24. ASSUME NEW c \in Composer, ResolveSlot(c) PROVE IInv'
  <2>1. \A d \in Composer : TablesInv(d)'
    BY <1>24 DEF ResolveSlot, Verdict
  <2>2. \A d \in Composer : ProgressInv(d)'
    BY <1>24 DEF ResolveSlot, Verdict
  <2>3. OneSlotPerApproval'
    BY <1>24 DEF ResolveSlot, Verdict
  <2>4. ReportHonest'
    BY <1>24 DEF ResolveSlot, Verdict
  <2>. QED
    BY <1>24, <2>1, <2>2, <2>3, <2>4 DEF ResolveSlot, Verdict
<1>25. ASSUME NEW c \in Composer, Crash(c) PROVE IInv'
  <2>1. \A d \in Composer : ProgressInv(d)'
    BY <1>25 DEF Crash
  <2>. QED
    BY <1>25, <2>1 DEF Crash
<1>26. ASSUME NEW r \in Reconciler, NEW c \in Composer,
             ReconcileJournal(r, c)
      PROVE  IInv'
  <2>1. \A d \in Composer : TablesInv(d)'
    BY <1>26, RecoveredCases DEF ReconcileJournal, RGoto
  <2>2. \A d \in Composer : ProgressInv(d)'
    BY <1>26, RecoveredCases DEF ReconcileJournal, RGoto
  <2>3. ReconcilerInv'
    BY <1>26, RecoveredCases DEF ReconcileJournal, RGoto
  <2>4. ReportHonest'
    BY <1>26, RecoveredCases DEF ReconcileJournal, RGoto
  <2>. QED
    BY <1>26, <2>1, <2>2, <2>3, <2>4 DEF ReconcileJournal, RGoto
<1>27. ASSUME NEW r \in Reconciler, ConsumeUncertainPermit(r) PROVE IInv'
  <2>1. \A d \in Composer : TablesInv(d)'
    BY <1>27 DEF ConsumeUncertainPermit, Uncertain, ROver, RGoto
  <2>2. \A d \in Composer : ProgressInv(d)'
    BY <1>27 DEF ConsumeUncertainPermit, Uncertain, ROver, RGoto
  <2>3. ReconcilerInv'
    BY <1>27 DEF ConsumeUncertainPermit, Uncertain, ROver, RGoto
  <2>. QED
    BY <1>27, <2>1, <2>2, <2>3 DEF ConsumeUncertainPermit, Uncertain, ROver, RGoto
<1>28. ASSUME NEW r \in Reconciler, ReconcileSlot(r) PROVE IInv'
  <2>1. \A d \in Composer : TablesInv(d)'
    BY <1>28 DEF ReconcileSlot, ROver, RGoto
  <2>2. \A d \in Composer : ProgressInv(d)'
    BY <1>28 DEF ReconcileSlot, ROver, RGoto
  <2>3. OneSlotPerApproval'
    BY <1>28 DEF ReconcileSlot, ROver, RGoto
  <2>4. ReconcilerInv'
    BY <1>28 DEF ReconcileSlot, ROver, RGoto
  <2>5. ReportHonest'
    BY <1>28 DEF ReconcileSlot, ROver, RGoto
  <2>. QED
    BY <1>28, <2>1, <2>2, <2>3, <2>4, <2>5 DEF ReconcileSlot, ROver, RGoto
<1>29. ASSUME NEW r \in Reconciler, RCrash(r) PROVE IInv'
  <2>1. ReconcilerInv'
    BY <1>29 DEF RCrash, ROver, RGoto
  <2>. QED
    BY <1>29, <2>1 DEF RCrash, ROver, RGoto
<1>30. CASE UNCHANGED vars
  BY <1>30 DEF vars
<1>. QED
  BY <1>1, <1>2, <1>3, <1>4, <1>5, <1>6, <1>7, <1>8, <1>9, <1>10, <1>11,
     <1>12, <1>13, <1>14, <1>15, <1>16, <1>17, <1>18, <1>19, <1>20, <1>21,
     <1>22, <1>23, <1>24, <1>25, <1>26, <1>27, <1>28, <1>29, <1>30 DEF Next,
     Attempt, Reconcile

\* IInv holds in every reachable state.
LEMMA InvHolds == Spec => []IInv
BY InvInit, InvStep, PTL DEF Spec
-----------------------------------------------------------------------------
\* Tables, leases, program counters and counters keep their types, and so the
\* in-flight counters never go below zero.
THEOREM TypeCorrect == Spec => []TypeOK
<1>1. IInv => TypeOK
  BY DEF IInv
<1>. QED
  BY <1>1, InvHolds, PTL

\* One approval sends at most once: a send needs the permit, the permit the
\* journal, the journal the slot, and an approval has one slot.
THEOREM SendsAtMostOnce == Spec => []AtMostOneSend
<1>1. IInv => AtMostOneSend
  <2> SUFFICES ASSUME IInv, NEW c \in Composer, NEW d \in Composer
               PROVE  /\ sends[c] <= 1
                      /\ (sends[c] > 0 /\ sends[d] > 0
                             /\ ApprovalOf[c] = ApprovalOf[d]) => c = d
    BY DEF AtMostOneSend
  <2>1. \A e \in Composer : sends[e] > 0 => slot[e] # "none"
    BY DEF IInv, TablesInv, ProgressInv
  <2>. QED
    BY <2>1 DEF IInv, ProgressInv, OneSlotPerApproval
<1>. QED
  BY <1>1, InvHolds, PTL

\* One lease carries at most one request, in whichever process.
THEOREM LeaseCarriesOneSend == Spec => []OneSendPerLease
<1>1. IInv => OneSendPerLease
  BY DEF IInv, OneSendPerLease, LeaseInv, Spender
<1>. QED
  BY <1>1, InvHolds, PTL

\* A journal that failed after its request went out has a known response;
\* recovery writes every other started send down as indeterminate.
THEOREM FailureIsKnown == Spec => []FailedMeansKnown
<1>1. IInv => FailedMeansKnown
  BY DEF IInv, FailedMeansKnown, TablesInv, ProgressInv
<1>. QED
  BY <1>1, InvHolds, PTL

\* A request on the wire has its marker and its permit in the database.
THEOREM SendIsTraced == Spec => []SendLeavesTrace
<1>1. IInv => SendLeavesTrace
  BY DEF IInv, SendLeavesTrace, TablesInv, ProgressInv
<1>. QED
  BY <1>1, InvHolds, PTL

\* A completed slot stands for a request that was sent, answered with 2xx,
\* consumed, settled and parsed, whoever completed it.
THEOREM CompletionIsEarned == Spec => []CompletedMeansSuccess
<1>1. IInv => CompletedMeansSuccess
  BY DEF IInv, CompletedMeansSuccess, TablesInv
<1>. QED
  BY <1>1, InvHolds, PTL

\* The result of the composition never hides an attempt.
THEOREM ReportIsHonest == Spec => []ReportHonest
<1>1. IInv => ReportHonest
  BY DEF IInv
<1>. QED
  BY <1>1, InvHolds, PTL
-----------------------------------------------------------------------------
\* What a step may do to the slots and to the wire: only ClaimSlot,
\* ResolveSlot, ReconcileSlot and OpenRequest touch them.
LEMMA QuietStep ==
    ASSUME [Next]_vars,
           ~\E c \in Composer : ClaimSlot(c) \/ ResolveSlot(c) \/ OpenRequest(c),
           ~\E r \in Reconciler : ReconcileSlot(r)
    PROVE  UNCHANGED <<slot, sends>>
<1>1. CASE UNCHANGED vars
  BY <1>1 DEF vars
<1>2. ASSUME NEW c \in Composer, Attempt(c) \/ Crash(c)
      PROVE  UNCHANGED <<slot, sends>>
  BY <1>2
     DEF Attempt, db,
         Precheck, Arm, ClaimJournal, StartSend, RefuseSend, FailJournal,
         Recheck, Abandon, Terminalize, CheckLease, VerifyMarker, Reveal,
         ReadResponse, RecordResponse, SendFailed, MarkIndeterminate,
         Recover, Settle, Process, FailSettled, CompleteJournal, Crash
<1>3. ASSUME NEW r \in Reconciler, Reconcile(r) \/ RCrash(r)
      PROVE  UNCHANGED <<slot, sends>>
  BY <1>3 DEF Reconcile, RCrash, ReconcileJournal, ConsumeUncertainPermit, db
<1>. QED
  BY <1>1, <1>2, <1>3 DEF Next

\* Every step of the live path is a step of the abstract promise, or stutters.
LEMMA PromiseStep ==
    IInv /\ [Next]_vars => [Promise!ONext]_(Promise!ovars)
<1> SUFFICES ASSUME IInv, [Next]_vars
             PROVE  [Promise!ONext]_(Promise!ovars)
  OBVIOUS
<1> USE DEF IInv, TypeOK, SlotStatus, Written, Set, Promise!ovars
<1>1. ASSUME NEW c \in Composer, ClaimSlot(c)
      PROVE  [Promise!Spend(c)]_(Promise!ovars)
  <2>1. slot[c] = "none"
    BY <1>1 DEF ClaimSlot, ProgressInv
  <2>2. CASE UNCHANGED slot
    BY <1>1, <2>2 DEF ClaimSlot
  <2>3. CASE SlotFree(c) /\ slot' = [slot EXCEPT ![c] = "claimed"]
    BY <1>1, <2>1, <2>3 DEF ClaimSlot, SlotFree, Promise!Spend
  <2>. QED
    BY <1>1, <2>2, <2>3 DEF ClaimSlot
<1>2. ASSUME NEW c \in Composer, OpenRequest(c)
      PROVE  [Promise!SendOnce(c)]_(Promise!ovars)
  <2>1. sends[c] = 0 /\ slot[c] # "none"
    BY <1>2 DEF OpenRequest, ProgressInv, TablesInv, BeforeSend, HoldsPermit
  <2>. QED
    BY <1>2, <2>1 DEF OpenRequest, db, Promise!SendOnce
<1>3. ASSUME NEW c \in Composer, NEW v \in {"completed", "failed"},
             slot[c] = "claimed", v = "completed" => jnl[c] = "completed",
             slot' = [slot EXCEPT ![c] = v], UNCHANGED sends
      PROVE  Promise!Judge(c, v)
  <2>1. v = "completed" => sends[c] = 1
    BY <1>3 DEF TablesInv
  <2>. QED
    BY <1>3, <2>1 DEF Promise!Judge
<1>4. ASSUME NEW c \in Composer, ResolveSlot(c)
      PROVE  [\E v \in {"completed", "failed"} : Promise!Judge(c, v)]_(Promise!ovars)
  <2>1. CASE UNCHANGED slot
    BY <1>4, <2>1 DEF ResolveSlot
  <2>2. CASE slot[c] = "claimed" /\ slot' = [slot EXCEPT ![c] = Verdict(c)]
    BY <1>3, <1>4, <2>2 DEF ResolveSlot, Verdict, ProgressInv
  <2>. QED
    BY <1>4, <2>1, <2>2 DEF ResolveSlot
<1>5. ASSUME NEW r \in Reconciler, ReconcileSlot(r)
      PROVE  [Promise!ONext]_(Promise!ovars)
  <2>1. rjob[r] \in Composer /\ jnl[rjob[r]] = rseen[r]
    BY <1>5 DEF ReconcileSlot, ReconcilerInv
  <2>2. CASE UNCHANGED slot
    BY <1>5, <2>2 DEF ReconcileSlot
  <2>3. CASE slot[rjob[r]] = "claimed"
             /\ slot' = [slot EXCEPT ![rjob[r]] =
                            IF rseen[r] = "completed" THEN "completed"
                            ELSE "failed"]
    <3>1. \E v \in {"completed", "failed"} : Promise!Judge(rjob[r], v)
      BY <1>3, <1>5, <2>1, <2>3 DEF ReconcileSlot
    <3>. QED
      BY <2>1, <3>1 DEF Promise!ONext
  <2>. QED
    BY <1>5, <2>2, <2>3 DEF ReconcileSlot
<1>. QED
  BY <1>1, <1>2, <1>4, <1>5, QuietStep DEF Promise!ONext

\* The live path implements OneShot: crashes, retries of the reconciler and
\* lost acknowledgements included, it spends an approval once, sends at most
\* once for it and judges it once.
THEOREM RefinesOneShot == Spec => ImplementsOneShot
<1>1. Init => Promise!OInit
  BY DEF Init, Promise!OInit
<1>. QED
  BY <1>1, InvHolds, PromiseStep, PTL
     DEF Spec, ImplementsOneShot, Promise!OSpec
-----------------------------------------------------------------------------
\* Which actions move a permit, and how: StartSend grants one, and three
\* callers consume one.
Grant(c) ==
    /\ permit' = [permit EXCEPT ![c] = "authorized"]
    /\ inflight' = [inflight EXCEPT ![RunOf[c]] = @ + 1]

Consume(c, v) ==
    /\ permit[c] = "authorized"
    /\ permit' = [permit EXCEPT ![c] = v]
    /\ inflight' = Release(c)

Spent == {"consumed", "transport_failed"}

LEMMA PermitStep ==
    ASSUME IInv, [Next]_vars
    PROVE  \/ UNCHANGED <<permit, inflight>>
           \/ \E c \in Composer : permit[c] = "none" /\ Grant(c)
           \/ \E c \in Composer, v \in Spent : Consume(c, v)
<1> DEFINE Goal == \/ UNCHANGED <<permit, inflight>>
                   \/ \E c \in Composer : permit[c] = "none" /\ Grant(c)
                   \/ \E c \in Composer, v \in Spent : Consume(c, v)
<1> USE DEF Written, Set, db, rvars
<1>1. ASSUME NEW c \in Composer, StartSend(c) PROVE Goal
  <2>1. permit[c] = "none"
    BY <1>1 DEF StartSend, MayStart, IInv, TablesInv
  <2>. QED
    BY <1>1, <2>1 DEF StartSend, Grant
<1>2. ASSUME NEW c \in Composer, RecordResponse(c) PROVE Goal
  BY <1>2 DEF RecordResponse, Consume, Spent
<1>3. ASSUME NEW c \in Composer, Abandon(c) \/ SendFailed(c) PROVE Goal
  BY <1>3 DEF Abandon, SendFailed, TransportFailure, Consume, Spent
<1>4. ASSUME NEW r \in Reconciler, ConsumeUncertainPermit(r) PROVE Goal
  <2>1. rjob[r] \in Composer
    BY <1>4 DEF ConsumeUncertainPermit, IInv, ReconcilerInv
  <2>. QED
    BY <1>4, <2>1 DEF ConsumeUncertainPermit, Uncertain, Consume, Spent
<1>5. ASSUME NEW c \in Composer, Attempt(c) \/ Crash(c),
             ~StartSend(c), ~RecordResponse(c), ~Abandon(c), ~SendFailed(c)
      PROVE  UNCHANGED <<permit, inflight>>
  BY <1>5
     DEF Attempt, Precheck, ClaimSlot, Arm, ClaimJournal, RefuseSend,
         FailJournal, Recheck, Terminalize, CheckLease, VerifyMarker, Reveal,
         OpenRequest, ReadResponse, MarkIndeterminate, Recover, Settle,
         Process, FailSettled, CompleteJournal, ResolveSlot, Crash
<1>6. ASSUME NEW r \in Reconciler, Reconcile(r) \/ RCrash(r),
             ~ConsumeUncertainPermit(r)
      PROVE  UNCHANGED <<permit, inflight>>
  BY <1>6 DEF Reconcile, RCrash, ReconcileJournal, ReconcileSlot
<1>7. CASE UNCHANGED vars
  BY <1>7 DEF vars
<1>. QED
  BY <1>1, <1>2, <1>3, <1>4, <1>5, <1>6, <1>7 DEF Next

\* in_flight_count is exact in every reachable state: nothing leaks a place
\* and nothing gives one back twice, however coordinator and reconciler race.
THEOREM InFlightIsExact == Spec => []InFlightCount
<1>1. Init => InFlightCount
  <2> SUFFICES ASSUME Init, NEW r \in Run
               PROVE  inflight[r] = Cardinality(InFlight(r))
    BY DEF InFlightCount
  <2>1. InFlight(r) = {}
    BY DEF Init, InFlight
  <2>. QED
    BY <2>1, FS_EmptySet DEF Init
<1>2. IInv /\ InFlightCount /\ [Next]_vars => InFlightCount'
  <2> SUFFICES ASSUME IInv, InFlightCount, [Next]_vars, NEW r \in Run
               PROVE  inflight'[r] = Cardinality(InFlight(r)')
    BY DEF InFlightCount
  <2>1. /\ RunOf \in [Composer -> Run]
        /\ IsFiniteSet(InFlight(r))
        /\ inflight[r] = Cardinality(InFlight(r))
    BY ConstantsAssumption, FS_Subset
       DEF ConstantsAssumption, InFlight, InFlightCount
  <2>2. inflight \in [Run -> Nat] /\ permit \in [Composer -> PermitStatus]
    BY DEF IInv, TypeOK
  <2>3. CASE UNCHANGED <<permit, inflight>>
    BY <2>1, <2>3 DEF InFlight
  <2>4. ASSUME NEW c \in Composer, permit[c] = "none", Grant(c)
        PROVE  inflight'[r] = Cardinality(InFlight(r)')
    <3>1. InFlight(r)' = IF RunOf[c] = r THEN InFlight(r) \cup {c}
                         ELSE InFlight(r)
      BY <2>2, <2>4 DEF InFlight, Grant
    <3>2. c \notin InFlight(r)
      BY <2>4 DEF InFlight
    <3>3. Cardinality(InFlight(r) \cup {c}) = Cardinality(InFlight(r)) + 1
      BY <2>1, <3>2, FS_AddElement
    <3>4. inflight'[r] = IF RunOf[c] = r THEN inflight[r] + 1 ELSE inflight[r]
      BY <2>1, <2>2, <2>4 DEF Grant
    <3>. QED
      BY <2>1, <3>1, <3>3, <3>4
  <2>5. ASSUME NEW c \in Composer, NEW v \in Spent, Consume(c, v)
        PROVE  inflight'[r] = Cardinality(InFlight(r)')
    <3>1. InFlight(r)' = IF RunOf[c] = r THEN InFlight(r) \ {c}
                         ELSE InFlight(r)
      BY <2>2, <2>5 DEF InFlight, Consume, Spent
    <3>2. RunOf[c] = r => c \in InFlight(r)
      BY <2>5 DEF InFlight, Consume
    <3>3. RunOf[c] = r =>
             Cardinality(InFlight(r) \ {c}) = Cardinality(InFlight(r)) - 1
      BY <2>1, <3>2, FS_RemoveElement
    <3>4. inflight'[r] = IF RunOf[c] = r THEN inflight[r] - 1 ELSE inflight[r]
      BY <2>1, <2>2, <2>5 DEF Consume, Release
    <3>. QED
      BY <2>1, <3>1, <3>3, <3>4
  <2>. QED
    BY <2>3, <2>4, <2>5, PermitStep
<1>. QED
  BY <1>1, <1>2, InvHolds, PTL DEF Spec
-----------------------------------------------------------------------------
\* Journals only move along the documented transitions.
LEMMA JournalStep ==
    ASSUME IInv, [Next]_vars, NEW d \in Composer, jnl'[d] # jnl[d]
    PROVE  <<jnl[d], jnl'[d]>> \in JournalMoves
<1> DEFINE Goal == <<jnl[d], jnl'[d]>> \in JournalMoves
<1> USE DEF Written, Set, db, rvars, JournalMoves, IInv, TypeOK, JournalStatus
<1>1. ASSUME NEW c \in Composer,
             \/ ClaimJournal(c) \/ StartSend(c) \/ FailJournal(c)
             \/ MarkIndeterminate(c) \/ Settle(c) \/ FailSettled(c)
             \/ CompleteJournal(c)
      PROVE  Goal
  BY <1>1 DEF ClaimJournal, StartSend, MayStart, FailJournal, Failable,
              MarkIndeterminate, Settle, FailSettled, CompleteJournal
<1>2. ASSUME NEW c \in Composer, jnl[c] # "none",
             \E o \in Outcome :
                jnl' = Written(o, jnl, Set(jnl, c, Recovered(jnl[c])))
      PROVE  Goal
  BY <1>2, RecoveredCases DEF Terminal
<1>3. ASSUME NEW c \in Composer, Recover(c) PROVE Goal
  <2>1. jnl[c] # "none"
    BY <1>3 DEF Recover, ProgressInv, InExecute, Step
  <2>. QED
    BY <1>2, <1>3, <2>1 DEF Recover
<1>4. ASSUME NEW r \in Reconciler, NEW c \in Composer, ReconcileJournal(r, c)
      PROVE  Goal
  BY <1>2, <1>4 DEF ReconcileJournal
<1>5. ASSUME NEW c \in Composer, Attempt(c) \/ Crash(c),
             ~ClaimJournal(c), ~StartSend(c), ~FailJournal(c),
             ~MarkIndeterminate(c), ~Settle(c), ~FailSettled(c),
             ~CompleteJournal(c), ~Recover(c)
      PROVE  UNCHANGED jnl
  BY <1>5
     DEF Attempt, Precheck, ClaimSlot, Arm, RefuseSend, Recheck, Abandon,
         Terminalize, CheckLease, VerifyMarker, Reveal, OpenRequest,
         ReadResponse, RecordResponse, SendFailed, Process, ResolveSlot, Crash
<1>6. ASSUME NEW r \in Reconciler,
             ConsumeUncertainPermit(r) \/ ReconcileSlot(r) \/ RCrash(r)
      PROVE  UNCHANGED jnl
  BY <1>6 DEF ConsumeUncertainPermit, ReconcileSlot, RCrash
<1>7. ~UNCHANGED jnl
  OBVIOUS
<1>8. ~UNCHANGED vars
  BY <1>7 DEF vars
<1>. QED
  BY <1>1, <1>3, <1>4, <1>5, <1>6, <1>7, <1>8 DEF Next, Reconcile

\* A slot is claimed once and resolved once.
LEMMA SlotStep ==
    ASSUME IInv, [Next]_vars, NEW d \in Composer, slot'[d] # slot[d]
    PROVE  <<slot[d], slot'[d]>> \in SlotMoves
<1> USE DEF Written, Set, SlotMoves, IInv, TypeOK
<1>1. ASSUME NEW c \in Composer, ClaimSlot(c) \/ ResolveSlot(c) \/ OpenRequest(c)
      PROVE  <<slot[d], slot'[d]>> \in SlotMoves
  BY <1>1 DEF ClaimSlot, ProgressInv, ResolveSlot, Verdict, OpenRequest, db
<1>2. ASSUME NEW r \in Reconciler, ReconcileSlot(r)
      PROVE  <<slot[d], slot'[d]>> \in SlotMoves
  BY <1>2 DEF ReconcileSlot
<1>. QED
  BY <1>1, <1>2, QuietStep

\* No status column ever goes back: a spent slot, a terminal journal and a
\* consumed permit stay as they are.
THEOREM StatusesAreOneWay == Spec => OneWay
<1>1. ASSUME IInv, [Next]_vars, NEW c \in Composer, permit'[c] # permit[c]
      PROVE  <<permit[c], permit'[c]>> \in PermitMoves
  BY <1>1, PermitStep DEF Grant, Consume, Spent, PermitMoves, IInv, TypeOK
<1>2. IInv /\ [Next]_vars =>
         [\A c \in Composer :
            /\ jnl'[c] # jnl[c] => <<jnl[c], jnl'[c]>> \in JournalMoves
            /\ slot'[c] # slot[c] => <<slot[c], slot'[c]>> \in SlotMoves
            /\ permit'[c] # permit[c] =>
                  <<permit[c], permit'[c]>> \in PermitMoves]_vars
  BY <1>1, JournalStep, SlotStep
<1>. QED
  BY <1>2, InvHolds, PTL DEF Spec, OneWay
-----------------------------------------------------------------------------
(* A slot given up as failed, when every commit is acknowledged *)

\* A step of one composer that leaves its slot and journal alone, is not its
\* last and gives nothing up.
LEMMA QuietAck ==
    ASSUME NEW c \in Composer, AckInv(c),
           slot'[c] = slot[c], jnl'[c] = jnl[c],
           pc[c] \notin {"resolve_ok", "done", "crashed"},
           pc'[c] \notin {"resolve_fail", "authorize", "fail_journal"}
    PROVE  AckInv(c)'
BY DEF AckInv

\* What a composer's own step makes of its attempt.
LEMMA AttemptAck ==
    ASSUME Fault = {}, IInv, NEW c \in Composer, AckInv(c), Attempt(c) \/ Crash(c)
    PROVE  AckInv(c)'
<1> USE DEF db, rvars, Written, Goto, Return, Set, Outcome
<1>a. TypeOK /\ TablesInv(c) /\ ProgressInv(c)
  BY DEF IInv
<1>b. /\ pc \in [Composer -> Step] /\ jnl \in [Composer -> JournalStatus]
      /\ slot \in [Composer -> SlotStatus]
  BY <1>a DEF TypeOK
<1>o. Outcome = {"ok"}
  OBVIOUS
<1> DEFINE Quiet == /\ slot'[c] = slot[c] /\ jnl'[c] = jnl[c]
                    /\ pc[c] \notin {"resolve_ok", "done", "crashed"}
                    /\ pc'[c] \notin {"resolve_fail", "authorize", "fail_journal"}
<1>q. Quiet => AckInv(c)'
  BY QuietAck
<1>1. CASE \/ Precheck(c) \/ Recheck(c) \/ Abandon(c) \/ SendFailed(c)
           \/ CheckLease(c) \/ VerifyMarker(c) \/ Reveal(c)
           \/ OpenRequest(c) \/ ReadResponse(c)
  <2>1. Quiet
    BY <1>1, <1>b DEF Precheck, Recheck, Abandon, SendFailed, CheckLease,
       VerifyMarker, Reveal, OpenRequest, ReadResponse
  <2> QED BY <2>1, <1>q
<1>2. CASE RecordResponse(c) \/ Process(c)
  <2>1. Quiet
    BY <1>2, <1>b DEF RecordResponse, Process
  <2> QED BY <2>1, <1>q
<1>3. CASE ClaimSlot(c)
  BY <1>3, <1>a, <1>b DEF ClaimSlot, AckInv, ProgressInv
<1>4. CASE Arm(c)
  BY <1>4, <1>a, <1>b DEF Arm, AckInv, ProgressInv, Unsuccessful
<1>5. CASE ClaimJournal(c)
  BY <1>5, <1>a, <1>b DEF ClaimJournal, AckInv, ProgressInv, Unsuccessful
<1>6. CASE StartSend(c)
  BY <1>6, <1>a, <1>b DEF StartSend, MayStart, AckInv
<1>7. CASE RefuseSend(c)
  BY <1>7, <1>a, <1>b DEF RefuseSend, AckInv
<1>8. CASE FailJournal(c)
  BY <1>8, <1>a, <1>b DEF FailJournal, Failable, AckInv, Unsuccessful
<1>9. CASE Terminalize(c)
  BY <1>9, <1>a, <1>b DEF Terminalize, AckInv
<1>10. CASE MarkIndeterminate(c)
  BY <1>10, <1>a, <1>b DEF MarkIndeterminate, AckInv, Unsuccessful
<1>11. CASE Recover(c)
  <2>1. jnl'[c] = Recovered(jnl[c]) /\ pc'[c] = "resolve_fail" /\ slot' = slot
    BY <1>11, <1>b DEF Recover
  <2>2. jnl[c] # "completed"
    BY <1>11 DEF Recover, AckInv
  <2>3. Recovered(jnl[c]) \in {"failed", "indeterminate"}
    BY <1>b, <2>2 DEF Recovered, Terminal, JournalStatus
  <2> QED BY <2>1, <2>3 DEF AckInv, Unsuccessful
<1>12. CASE Settle(c)
  BY <1>12, <1>a, <1>b DEF Settle, AckInv, Unsuccessful
<1>13. CASE FailSettled(c)
  BY <1>13, <1>a, <1>b DEF FailSettled, Failable, AckInv, Unsuccessful
<1>14. CASE CompleteJournal(c)
  BY <1>14, <1>a, <1>b DEF CompleteJournal, AckInv, Unsuccessful
<1>15. CASE ResolveSlot(c)
  BY <1>15, <1>a, <1>b DEF ResolveSlot, Verdict, AckInv, Unsuccessful
<1>16. CASE Crash(c)
  BY <1>16, <1>b DEF Crash, AckInv
<1> QED BY <1>1, <1>2, <1>3, <1>4, <1>5, <1>6, <1>7, <1>8, <1>9, <1>10,
           <1>11, <1>12, <1>13, <1>14, <1>15, <1>16 DEF Attempt

\* A composer's step does not touch the attempt of another.
LEMMA OthersStay ==
    ASSUME TypeOK, NEW c \in Composer, Attempt(c) \/ Crash(c),
           NEW d \in Composer, d # c
    PROVE  slot'[d] = slot[d] /\ jnl'[d] = jnl[d] /\ pc'[d] = pc[d]
<1> USE DEF TypeOK, db, rvars, Written, Goto, Return, Set
<1>1. CASE \/ Precheck(c) \/ ClaimSlot(c) \/ Arm(c) \/ ClaimJournal(c)
           \/ StartSend(c) \/ RefuseSend(c) \/ FailJournal(c) \/ Recheck(c)
  BY <1>1 DEF Precheck, ClaimSlot, Arm, ClaimJournal, StartSend, RefuseSend,
     FailJournal, Recheck
<1>2. CASE \/ Abandon(c) \/ Terminalize(c) \/ CheckLease(c) \/ VerifyMarker(c)
           \/ Reveal(c) \/ OpenRequest(c) \/ ReadResponse(c)
           \/ RecordResponse(c)
  BY <1>2 DEF Abandon, Terminalize, CheckLease, VerifyMarker, Reveal,
     OpenRequest, ReadResponse, RecordResponse
<1>3. CASE \/ SendFailed(c) \/ MarkIndeterminate(c) \/ Recover(c) \/ Settle(c)
           \/ Process(c) \/ FailSettled(c) \/ CompleteJournal(c)
           \/ ResolveSlot(c) \/ Crash(c)
  BY <1>3 DEF SendFailed, MarkIndeterminate, Recover, Settle, Process,
     FailSettled, CompleteJournal, ResolveSlot, Crash
<1> QED BY <1>1, <1>2, <1>3 DEF Attempt

\* A reconciler only takes journals to a terminal state and slots to what the
\* journal says.
LEMMA ReconcilerAck ==
    ASSUME IInv, NEW r \in Reconciler, Reconcile(r) \/ RCrash(r),
           NEW d \in Composer, AckInv(d)
    PROVE  AckInv(d)'
<1>a. TypeOK /\ ReconcilerInv
  BY DEF IInv
<1>1. ASSUME NEW c \in Composer, ReconcileJournal(r, c) PROVE AckInv(d)'
  <2>1. /\ slot' = slot /\ pc' = pc
        /\ jnl[c] # "none"
        /\ jnl'[d] = jnl[d] \/ (d = c /\ jnl'[d] = Recovered(jnl[d]))
    BY <1>1, <1>a DEF ReconcileJournal, Written, Set, TypeOK
  <2>2. CASE jnl'[d] = jnl[d]
    BY <2>1, <2>2 DEF AckInv
  <2>3. CASE d = c /\ jnl'[d] = Recovered(jnl[d])
    <3>1. /\ jnl[d] \in JournalStatus \ {"none"}
      BY <2>1, <2>3, <1>a DEF TypeOK
    <3>2. /\ jnl[d] \in Terminal => jnl'[d] = jnl[d]
          /\ jnl[d] = "claimed" => jnl'[d] = "failed"
          /\ jnl[d] \notin Terminal => jnl'[d] \in {"failed", "indeterminate"}
      BY <2>3, <3>1 DEF Recovered, Terminal, JournalStatus
    <3> QED BY <2>1, <3>1, <3>2 DEF AckInv, Unsuccessful, Terminal, JournalStatus
  <2> QED BY <2>1, <2>2, <2>3
<1>2. CASE ReconcileSlot(r)
  <2>1. /\ jnl' = jnl /\ pc' = pc
        /\ \/ slot'[d] = slot[d]
           \/ /\ d = rjob[r] /\ slot'[d] \in {"completed", "failed"}
              /\ slot'[d] = "failed" => rseen[r] # "completed"
    BY <1>2, <1>a DEF ReconcileSlot, Written, Set, TypeOK
  <2>2. rseen[r] \in Terminal /\ jnl[rjob[r]] = rseen[r]
    BY <1>2, <1>a DEF ReconcileSlot, ReconcilerInv
  <2> QED BY <2>1, <2>2 DEF AckInv, Unsuccessful, Terminal
<1>3. CASE ConsumeUncertainPermit(r) \/ RCrash(r)
  <2>1. UNCHANGED <<slot, jnl, pc>>
    BY <1>3 DEF ConsumeUncertainPermit, RCrash, db
  <2> QED BY <2>1 DEF AckInv
<1> QED BY <1>1, <1>2, <1>3 DEF Reconcile

LEMMA AckStep ==
    ASSUME Fault = {}
    PROVE  IInv /\ AllAckInv /\ [Next]_vars => AllAckInv'
<1> SUFFICES ASSUME IInv, AllAckInv, [Next]_vars, NEW d \in Composer
             PROVE  AckInv(d)'
  BY DEF AllAckInv
<1>a. TypeOK /\ AckInv(d)
  BY DEF IInv, AllAckInv
<1>1. ASSUME NEW c \in Composer, Attempt(c) \/ Crash(c) PROVE AckInv(d)'
  <2>1. CASE c = d
    BY <1>1, <1>a, <2>1, AttemptAck
  <2>2. CASE c # d
    <3>1. slot'[d] = slot[d] /\ jnl'[d] = jnl[d] /\ pc'[d] = pc[d]
      BY <1>1, <1>a, <2>2, OthersStay
    <3> QED BY <1>a, <3>1 DEF AckInv
  <2> QED BY <2>1, <2>2
<1>2. ASSUME NEW r \in Reconciler, Reconcile(r) \/ RCrash(r) PROVE AckInv(d)'
  BY <1>2, <1>a, ReconcilerAck
<1>3. CASE UNCHANGED vars
  BY <1>3, <1>a DEF vars, AckInv
<1> QED BY <1>1, <1>2, <1>3 DEF Next

\* With a database that answers, a slot given up as failed has no journal that
\* completed or may still complete, whoever gives it up and whoever dies
\* (live_one_request_composition.py:415).
THEOREM FailedSlotsStayFailed ==
    ASSUME Fault = {}
    PROVE  Spec => []FailedSlotIsFinal
<1>1. Init => AllAckInv
  BY DEF Init, AllAckInv, AckInv
<1>2. AllAckInv => FailedSlotIsFinal
  BY DEF AllAckInv, AckInv, FailedSlotIsFinal, Unsuccessful
<1>3. IInv /\ AllAckInv /\ [Next]_vars => AllAckInv'
  BY AckStep
<1> QED BY <1>1, <1>2, <1>3, InvHolds, PTL DEF Spec
=============================================================================
