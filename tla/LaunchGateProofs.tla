-------------------------- MODULE LaunchGateProofs --------------------------
(***************************************************************************)
(* Proofs about the gates of a live request, for every number of operators *)
(* and approvals and every choice of the deadlines.                        *)
(***************************************************************************)
EXTENDS LaunchGate, TLAPS

\* The dates of the documents are numbers.
LEMMA ApprovalDates ==
    \A a \in Approval : a.from \in Nat /\ a.until \in Nat /\ a.scope \in Scope
BY LaunchAssumption DEF LaunchAssumption

LEMMA EvidenceDates ==
    \A e \in Evidence : e.terms_at \in Nat /\ e.response_at \in Nat
BY LaunchAssumption DEF LaunchAssumption

LEMMA Deadlines ==
    /\ MaxTime \in Nat /\ MaxWrites \in Nat /\ ReviewAge \in Nat
    /\ ConfirmTtl \in Nat /\ EnableTtl \in Nat /\ SessionTtl \in Nat
    /\ Expiry \subseteq Nat
BY LaunchAssumption DEF LaunchAssumption

LEMMA InitLaunch == Init => LaunchInv
<1>. SUFFICES ASSUME Init PROVE LaunchInv  OBVIOUS
<1>. USE DEF Init
<1>1. TypeOK
  BY Deadlines DEF TypeOK, Time, Slot, Step, Doc, NoDoc, NoExpiry, NoPass
<1>2. \A o \in Operator : OperatorInv(o)
  BY Deadlines
    

                   DEF OperatorInv, DocsInv, PromptInv, ContractInv, ReviewInv, SendInv, Started, Holding, Bound, Sending
<1>3. SlotInv
  BY DEF SlotInv, Holding, Bound, Sending, Unspent
<1>4. OneFetchPerApproval /\ FetchIsFresh /\ FetchIsReviewed
  BY DEF OneFetchPerApproval, FetchIsFresh, FetchIsReviewed, Live
<1>. QED  BY <1>1, <1>2, <1>3, <1>4 DEF LaunchInv
-----------------------------------------------------------------------------
(* What a step leaves alone *)

\* The properties are about the requests made.
LEMMA FetchesKeep ==
    ASSUME LaunchInv, UNCHANGED fetches
    PROVE  OneFetchPerApproval' /\ FetchIsFresh' /\ FetchIsReviewed'
BY DEF LaunchInv, OneFetchPerApproval, FetchIsFresh, FetchIsReviewed, Live, Active

\* No file is in what an operator holds.
LEMMA FilesKeep ==
    ASSUME LaunchInv, UNCHANGED <<clock, slots, pc, held, fetches>>
    PROVE  /\ \A o \in Operator : OperatorInv(o)'
           /\ SlotInv'
           /\ OneFetchPerApproval' /\ FetchIsFresh' /\ FetchIsReviewed'
<1>1. \A o \in Operator : OperatorInv(o)'
  BY DEF LaunchInv, held, OperatorInv, DocsInv, PromptInv, ContractInv, ReviewInv,
         SendInv, Active
<1>2. SlotInv'
  BY DEF LaunchInv, held, SlotInv
<1>. QED  BY <1>1, <1>2, FetchesKeep

\* An operator's step changes nothing that another one holds.
Alone(o) ==
    \A q \in Operator \ {o} :
        /\ pc'[q] = pc[q] /\ mode'[q] = mode[q] /\ doc'[q] = doc[q]
        /\ expiry'[q] = expiry[q] /\ claimed'[q] = claimed[q]
        /\ passed'[q] = passed[q]

LEMMA OthersKeep ==
    ASSUME LaunchInv, NEW o \in Operator, Alone(o), UNCHANGED clock
    PROVE  \A q \in Operator \ {o} : OperatorInv(q)'
<1>. SUFFICES ASSUME NEW q \in Operator \ {o} PROVE OperatorInv(q)'  OBVIOUS
<1>0. /\ OperatorInv(q)
      /\ pc'[q] = pc[q] /\ mode'[q] = mode[q] /\ doc'[q] = doc[q]
      /\ expiry'[q] = expiry[q] /\ claimed'[q] = claimed[q]
      /\ passed'[q] = passed[q] /\ clock' = clock
  BY DEF LaunchInv, Alone
<1>1. DocsInv(q)'
  BY <1>0 DEF OperatorInv, DocsInv
<1>2. PromptInv(q)'
  BY <1>0 DEF OperatorInv, PromptInv
<1>3. ContractInv(q)'
  BY <1>0 DEF OperatorInv, ContractInv
<1>4. ReviewInv(q)'
  BY <1>0 DEF OperatorInv, ReviewInv
<1>5. SendInv(q)'
  BY <1>0 DEF OperatorInv, SendInv, Active
<1>. QED  BY <1>1, <1>2, <1>3, <1>4, <1>5 DEF OperatorInv

\* A step that neither takes nor gives back a slot.
LEMMA SlotsKeep ==
    ASSUME LaunchInv, NEW o \in Operator, Alone(o), UNCHANGED <<slots, fetches>>,
           pc'[o] \in Holding => pc[o] \in Holding /\ doc'[o] = doc[o],
           pc'[o] \in Unspent => pc[o] \in Unspent
    PROVE  SlotInv'
<1>. USE DEF LaunchInv, SlotInv, Alone, Unspent
<1>1. \A q \in Operator : pc'[q] \in Holding => pc[q] \in Holding /\ doc'[q] = doc[q]
  OBVIOUS
<1>2. \A q \in Operator : pc'[q] \in Unspent => pc[q] \in Unspent
  OBVIOUS
<1>3. \A q \in Operator : pc'[q] \in Holding => slots'[doc'[q].approval] = "claimed"
  BY <1>1
<1>4. \A p, q \in Operator :
          (/\ pc'[p] \in Holding /\ pc'[q] \in Holding
           /\ doc'[p].approval = doc'[q].approval) => p = q
  BY <1>1
<1>5. \A f \in fetches' :
          f.doc.approval \in Approval /\ slots'[f.doc.approval] # "free"
  OBVIOUS
<1>6. \A q \in Operator : pc'[q] \in Unspent =>
          \A f \in fetches' : f.doc.approval # doc'[q].approval
  BY <1>1, <1>2
<1>. QED  BY <1>3, <1>4, <1>5, <1>6
-----------------------------------------------------------------------------
(* The clock and the files *)

LEMMA TickLaunch == LaunchInv /\ Tick => LaunchInv'
<1>. SUFFICES ASSUME LaunchInv, Tick PROVE LaunchInv'  OBVIOUS
<1>. USE DEF Tick, files, held
<1>0. clock \in Nat /\ clock' = clock + 1 /\ clock' \in Time
  BY Deadlines DEF LaunchInv, TypeOK, Time
<1>1. TypeOK'
  BY <1>0 DEF LaunchInv, TypeOK
<1>2. ASSUME NEW o \in Operator PROVE OperatorInv(o)'
  <2>0. /\ OperatorInv(o) /\ expiry[o].challenge \in Nat /\ expiry[o].session \in Nat
        /\ claimed[o] \in Nat /\ passed[o].guard \in Nat /\ passed[o].stamp \in Nat
    BY DEF LaunchInv, TypeOK, Time
  <2>1. DocsInv(o)'
    BY <2>0 DEF OperatorInv, DocsInv
  <2>2. PromptInv(o)'
    BY <1>0, <2>0, Deadlines DEF OperatorInv, PromptInv
  <2>3. pc[o] \in Started /\ mode[o] = "live" =>
            doc[o].contract.reviewed_at \in Nat /\ doc[o].approval.from \in Nat
    BY <2>0, ApprovalDates DEF OperatorInv, DocsInv, Contract
  <2>4. ContractInv(o)'
    BY <1>0, <2>0, <2>3
       DEF OperatorInv, ContractInv, Started, Step, Holding, Bound, Sending
  <2>5. ReviewInv(o)'
    BY <1>0, <2>0, <2>3
       DEF OperatorInv, ReviewInv, Started, Step, Bound, Sending
  <2>6. SendInv(o)'
    BY <1>0, <2>0 DEF OperatorInv, SendInv, Active
  <2>. QED  BY <2>1, <2>2, <2>4, <2>5, <2>6 DEF OperatorInv
<1>3. SlotInv'
  BY DEF LaunchInv, SlotInv
<1>. QED  BY <1>1, <1>2, <1>3, FetchesKeep DEF LaunchInv

LEMMA WriteTypes ==
    ASSUME TypeOK, Write PROVE writes' \in 0 .. MaxWrites
BY Deadlines DEF TypeOK, Write

LEMMA FilesLaunch ==
    ASSUME LaunchInv,
           \/ \E a \in Approval : WriteApproval(a)
           \/ \E e \in Evidence : WriteEvidence(e)
    PROVE  LaunchInv'
<1>1. UNCHANGED <<clock, slots, pc, held, fetches>> /\ Write
  BY DEF WriteApproval, WriteEvidence
<1>2. TypeOK'
  BY <1>1, WriteTypes DEF LaunchInv, TypeOK, WriteApproval, WriteEvidence, held
<1>. QED  BY <1>1, <1>2, FilesKeep DEF LaunchInv

LEMMA ContractLaunch ==
    ASSUME LaunchInv, NEW until \in Expiry, NEW force \in BOOLEAN,
           FinalizeContract(until, force)
    PROVE  LaunchInv'
<1>1. UNCHANGED <<clock, slots, pc, held, fetches>> /\ Write
  BY DEF FinalizeContract
<1>2. g0 \in Approval /\ evidence \in Evidence
  BY DEF FinalizeContract, LaunchInv, TypeOK
<1>3. contract' \in Contract
  <2>1. contract' = Finalized(evidence, g0, until)
    BY DEF FinalizeContract
  <2>2. MaxOf(evidence.terms_at, evidence.response_at) \in Nat
    BY <1>2, EvidenceDates DEF MaxOf
  <2>3. until \in Nat /\ g0.scope \in Scope
    BY <1>2, Deadlines, ApprovalDates
  <2>. QED  BY <1>2, <2>1, <2>2, <2>3 DEF Finalized, Contract
<1>4. TypeOK'
  BY <1>1, <1>3, WriteTypes DEF LaunchInv, TypeOK, FinalizeContract, held
<1>. QED  BY <1>1, <1>4, FilesKeep DEF LaunchInv

LEMMA ReviewLaunch ==
    ASSUME LaunchInv, NEW busy \in BOOLEAN, LaunchReview(busy)
    PROVE  LaunchInv'
<1>1. UNCHANGED <<clock, slots, pc, held, fetches>> /\ Write
  BY DEF LaunchReview
<1>2. g0 \in Approval /\ clock \in Time
  BY DEF LaunchReview, LaunchInv, TypeOK
<1>3. review' \in Review
  <2>1. review' = [approval |-> g0, at |-> clock, until |-> g0.until,
                   passed |-> slots[g0] = "free" /\ ~busy]
    BY DEF LaunchReview
  <2>2. (slots[g0] = "free" /\ ~busy) \in BOOLEAN
    OBVIOUS
  <2>. QED  BY <1>2, <2>1, <2>2, ApprovalDates DEF Review
<1>4. TypeOK'
  BY <1>1, <1>3, WriteTypes DEF LaunchInv, TypeOK, LaunchReview, held
<1>. QED  BY <1>1, <1>4, FilesKeep DEF LaunchInv
-----------------------------------------------------------------------------
(* The operators *)

LEMMA SomeDocs == NoDoc \in Doc
BY DEF NoDoc, Doc

\* What is held stays typed, whatever one operator's part becomes.
LEMMA HeldTypes ==
    ASSUME TypeOK, NEW o \in Operator, NEW step \in Step,
           pc' = [pc EXCEPT ![o] = step], UNCHANGED held
    PROVE  /\ pc' \in [Operator -> Step]
           /\ mode' \in [Operator -> {"live", "dry"}]
           /\ doc' \in [Operator -> Doc]
           /\ expiry' \in [Operator -> [challenge : Nat, session : Nat,
                                        latch : Nat, capability : Nat]]
           /\ latch' \in [Operator -> {"disabled", "armed", "consumed", "expired"}]
           /\ claimed' \in [Operator -> Time]
           /\ passed' \in [Operator -> [guard : Time, stamp : Time]]
           /\ Alone(o)
           /\ pc'[o] = step
BY DEF TypeOK, held, Alone

LEMMA ReturnTypes ==
    ASSUME TypeOK, NEW o \in Operator, Return(o)
    PROVE  /\ pc' \in [Operator -> Step]
           /\ mode' \in [Operator -> {"live", "dry"}]
           /\ doc' \in [Operator -> Doc]
           /\ expiry' \in [Operator -> [challenge : Nat, session : Nat,
                                        latch : Nat, capability : Nat]]
           /\ latch' \in [Operator -> {"disabled", "armed", "consumed", "expired"}]
           /\ claimed' \in [Operator -> Time]
           /\ passed' \in [Operator -> [guard : Time, stamp : Time]]
           /\ Alone(o)
           /\ pc'[o] = "over"
<1>. USE DEF TypeOK, Return, Goto, Set
<1>1. NoExpiry \in [challenge : Nat, session : Nat, latch : Nat, capability : Nat]
  BY DEF NoExpiry
<1>2. 0 \in Time
  BY Deadlines DEF Time
<1>3. pc' \in [Operator -> Step] /\ pc'[o] = "over"
  BY DEF Step
<1>4. Alone(o)
  BY DEF Alone
<1>5. NoPass \in [guard : Time, stamp : Time]
  BY <1>2 DEF NoPass
<1>. QED  BY <1>1, <1>2, <1>3, <1>4, <1>5, SomeDocs

\* An operator whose call is over holds nothing.
LEMMA OverKeeps ==
    ASSUME NEW o \in Operator, pc'[o] = "over"
    PROVE  OperatorInv(o)'
BY DEF OperatorInv, DocsInv, PromptInv, ContractInv, ReviewInv, SendInv, Started,
       Holding, Bound, Sending

LEMMA ReturnLaunch ==
    ASSUME LaunchInv, NEW o \in Operator, Return(o),
           UNCHANGED <<clock, files, slots, fetches>>
    PROVE  LaunchInv'
<1>1. TypeOK
  BY DEF LaunchInv
<1>2. TypeOK'
  BY <1>1, ReturnTypes DEF TypeOK, files
<1>3. Alone(o) /\ pc'[o] = "over"
  BY <1>1, ReturnTypes
<1>4. \A q \in Operator : OperatorInv(q)'
  BY <1>3, OthersKeep, OverKeeps
<1>5. SlotInv'
  BY <1>3, SlotsKeep DEF Holding, Bound, Sending, Unspent
<1>. QED  BY <1>2, <1>4, <1>5, FetchesKeep DEF LaunchInv

\* A step of one operator, given what it does to that operator.
LEMMA OwnStep ==
    ASSUME LaunchInv, NEW o \in Operator, TypeOK', Alone(o), OperatorInv(o)',
           UNCHANGED <<clock, slots, fetches>>,
           pc'[o] \in Holding => pc[o] \in Holding /\ doc'[o] = doc[o],
           pc'[o] \in Unspent => pc[o] \in Unspent
    PROVE  LaunchInv'
<1>1. \A q \in Operator : OperatorInv(q)'
  BY OthersKeep
<1>2. SlotInv'
  BY SlotsKeep
<1>. QED  BY <1>1, <1>2, FetchesKeep DEF LaunchInv

\* Before the live capability is burnt, and after the answer, nothing is under way.
LEMMA NotSending ==
    ASSUME NEW o \in Operator, pc'[o] \notin Sending
    PROVE  SendInv(o)'
BY DEF SendInv, Sending

LEMMA LoadLaunch ==
    ASSUME LaunchInv, NEW o \in Operator, NEW m \in {"live", "dry"}, Load(o, m)
    PROVE  LaunchInv'
<1>. USE DEF Goto, Set, Until
<1>0. /\ TypeOK /\ g0 \in Approval
      /\ m = "live" => contract \in Contract /\ review \in Review
  BY DEF LaunchInv, TypeOK, Load
<1>. DEFINE d == IF m = "live"
                 THEN [approval |-> g0, contract |-> contract, review |-> review]
                 ELSE [NoDoc EXCEPT !.approval = g0]
            step == IF m = "live" THEN "precheck" ELSE "prompt"
            e == [expiry[o] EXCEPT !.session = clock + SessionTtl]
<1>1. /\ doc' = [doc EXCEPT ![o] = d] /\ pc' = [pc EXCEPT ![o] = step]
      /\ mode' = [mode EXCEPT ![o] = m] /\ expiry' = [expiry EXCEPT ![o] = e]
      /\ UNCHANGED <<clock, files, slots, latch, claimed, passed, fetches>>
  BY DEF Load
<1>2. d \in Doc
  BY <1>0 DEF Doc, NoDoc
<1>3. e \in [challenge : Nat, session : Nat, latch : Nat, capability : Nat]
  BY <1>0, Deadlines DEF TypeOK, Time
<1>4. step \in Step /\ step \notin Holding \cup {"typing", "claim"}
  BY DEF Step, Holding, Bound, Sending
<1>9. e.session = clock + SessionTtl /\ e.session <= clock + SessionTtl
  BY <1>0, Deadlines DEF TypeOK, Time
<1>. HIDE DEF d, e, step
<1>5. TypeOK'
  BY <1>0, <1>1, <1>2, <1>3, <1>4 DEF TypeOK, files
<1>6. Alone(o)
  BY <1>0, <1>1 DEF TypeOK, Alone
<1>7. doc'[o] = d /\ pc'[o] = step /\ mode'[o] = m /\ expiry'[o] = e
  BY <1>0, <1>1 DEF TypeOK
<1>8. OperatorInv(o)'
  <2>1. DocsInv(o)'
    BY <1>0, <1>7 DEF DocsInv, d, NoDoc
  <2>2. ReviewInv(o)'
    BY <1>4, <1>7 DEF ReviewInv, Holding, Bound, Sending, step
  <2>3. ContractInv(o)'
    BY <1>4, <1>7 DEF ContractInv, Holding, Bound, Sending, step
  <2>4. PromptInv(o)'
    BY <1>1, <1>4, <1>7, <1>9 DEF PromptInv, step
  <2>. QED  BY <1>7, <2>1, <2>2, <2>3, <2>4, NotSending DEF OperatorInv, Sending, step
<1>. QED  BY <1>1, <1>4, <1>5, <1>6, <1>7, <1>8, OwnStep DEF Unspent

LEMMA PrecheckLaunch ==
    ASSUME LaunchInv, NEW o \in Operator, Precheck(o)
    PROVE  LaunchInv'
<1>0. TypeOK /\ OperatorInv(o)
  BY DEF LaunchInv
<1>1. CASE Return(o)
  BY <1>1, ReturnLaunch DEF Precheck
<1>2. CASE ~Return(o)
  <2>. DEFINE d == doc[o]
  <2>1. /\ pc[o] = "precheck" /\ pc' = [pc EXCEPT ![o] = "prompt"]
        /\ UNCHANGED held
        /\ ContractPasses(d.contract, d.approval, clock)
        /\ UNCHANGED <<clock, files, slots, fetches>>
    BY <1>2 DEF Precheck, PassOr, Goto
  <2>2. "prompt" \in Step
    BY DEF Step
  <2>3. TypeOK' /\ Alone(o) /\ pc'[o] = "prompt"
    BY <1>0, <2>1, <2>2, HeldTypes DEF TypeOK, files
  <2>4. doc'[o] = d /\ mode'[o] = mode[o] /\ expiry'[o] = expiry[o]
    BY <2>1 DEF held
  <2>5. DocsInv(o)'
    BY <1>0, <2>1, <2>3, <2>4 DEF OperatorInv, DocsInv, Started, Step
  <2>6. PromptInv(o)' /\ ReviewInv(o)'
    BY <1>0, <2>1, <2>3, <2>4
       DEF OperatorInv, PromptInv, ReviewInv, Holding, Bound, Sending
  <2>7. ContractInv(o)'
    BY <2>1, <2>3, <2>4 DEF ContractInv, Holding, Bound, Sending, ContractPasses
  <2>. QED  BY <2>1, <2>3, <2>5, <2>6, <2>7, OwnStep, NotSending
     DEF OperatorInv, Holding, Bound, Sending, Unspent
<1>. QED  BY <1>1, <1>2

LEMMA PromptLaunch ==
    ASSUME LaunchInv, NEW o \in Operator, Prompt(o)
    PROVE  LaunchInv'
<1>0. TypeOK /\ OperatorInv(o) /\ clock \in Nat
  BY DEF LaunchInv, TypeOK, Time
<1>. DEFINE e == [expiry[o] EXCEPT !.challenge = clock + ConfirmTtl]
<1>1. /\ pc[o] = "prompt" /\ pc' = [pc EXCEPT ![o] = "typing"]
      /\ expiry' = [expiry EXCEPT ![o] = e]
      /\ UNCHANGED <<clock, files, slots, mode, doc, latch, claimed, passed, fetches>>
  BY DEF Prompt, Goto, Until
<1>2. e \in [challenge : Nat, session : Nat, latch : Nat, capability : Nat]
  BY <1>0, Deadlines DEF TypeOK
<1>3. e.challenge = clock + ConfirmTtl /\ e.session = expiry[o].session
  BY <1>0 DEF TypeOK
<1>. HIDE DEF e
<1>4. TypeOK'
  <2>1. "typing" \in Step
    BY DEF Step
  <2>. QED  BY <1>0, <1>1, <1>2, <2>1 DEF TypeOK, files
<1>5. Alone(o)
  BY <1>0, <1>1 DEF TypeOK, Alone
<1>6. pc'[o] = "typing" /\ expiry'[o] = e /\ doc'[o] = doc[o] /\ mode'[o] = mode[o]
  BY <1>0, <1>1 DEF TypeOK
<1>7. DocsInv(o)'
  BY <1>0, <1>1, <1>6 DEF OperatorInv, DocsInv, Started, Step
<1>8. PromptInv(o)'
  <2>1. /\ expiry[o].session \in Nat /\ expiry[o].session <= clock + SessionTtl
    BY <1>0, <1>1 DEF TypeOK, OperatorInv, PromptInv
  <2>. QED  BY <1>0, <1>1, <1>3, <1>6, <2>1, Deadlines
     DEF PromptInv, Holding, Bound, Sending
<1>9. ContractInv(o)' /\ ReviewInv(o)'
  BY <1>0, <1>1, <1>6 DEF OperatorInv, ContractInv, ReviewInv, Holding, Bound, Sending
<1>. QED
  BY <1>1, <1>4, <1>5, <1>6, <1>7, <1>8, <1>9, OwnStep, NotSending
     DEF OperatorInv, Holding, Bound, Sending, Unspent

LEMMA ConfirmLaunch ==
    ASSUME LaunchInv, NEW o \in Operator, NEW right \in BOOLEAN, Confirm(o, right)
    PROVE  LaunchInv'
<1>0. TypeOK /\ OperatorInv(o)
  BY DEF LaunchInv
<1>1. CASE Return(o)
  BY <1>1, ReturnLaunch DEF Confirm
<1>2. CASE ~Return(o)
  <2>1. /\ pc[o] = "typing" /\ pc' = [pc EXCEPT ![o] = "claim"]
        /\ UNCHANGED held
        /\ UNCHANGED <<clock, files, slots, fetches>>
    BY <1>2 DEF Confirm, PassOr, Goto
  <2>2. "claim" \in Step
    BY DEF Step
  <2>3. TypeOK' /\ Alone(o) /\ pc'[o] = "claim"
    BY <1>0, <2>1, <2>2, HeldTypes DEF TypeOK, files
  <2>4. doc'[o] = doc[o] /\ mode'[o] = mode[o] /\ expiry'[o] = expiry[o]
    BY <2>1 DEF held
  <2>5. DocsInv(o)'
    BY <1>0, <2>1, <2>3, <2>4 DEF OperatorInv, DocsInv, Started, Step
  <2>6. PromptInv(o)' /\ ReviewInv(o)'
    BY <1>0, <2>1, <2>3, <2>4
       DEF OperatorInv, PromptInv, ReviewInv, Holding, Bound, Sending
  <2>7. ContractInv(o)'
    BY <1>0, <2>1, <2>3, <2>4 DEF OperatorInv, ContractInv, Holding, Bound, Sending
  <2>. QED  BY <2>1, <2>3, <2>5, <2>6, <2>7, OwnStep, NotSending
     DEF OperatorInv, Holding, Bound, Sending, Unspent
<1>. QED  BY <1>1, <1>2

\* The slot is free, so nobody holds it and no request was made on it.
LEMMA ClaimLaunch ==
    ASSUME LaunchInv, NEW o \in Operator, ClaimSlot(o)
    PROVE  LaunchInv'
<1>. DEFINE a == doc[o].approval
            step == IF mode[o] = "live" THEN "arm" ELSE "execute"
<1>0. TypeOK /\ OperatorInv(o) /\ SlotInv /\ clock \in Time
  BY DEF LaunchInv, TypeOK
<1>1. CASE slots[a] # "free"
  BY <1>1, ReturnLaunch DEF ClaimSlot
<1>2. CASE slots[a] = "free"
  <2>1. /\ pc[o] = "claim" /\ pc' = [pc EXCEPT ![o] = step]
        /\ slots' = [slots EXCEPT ![a] = "claimed"]
        /\ claimed' = [claimed EXCEPT ![o] = clock]
        /\ UNCHANGED <<mode, doc, expiry, latch, passed, clock, files, fetches>>
    BY <1>2 DEF ClaimSlot, Goto, Set
  <2>2. a \in Approval
    BY <1>0, <2>1 DEF OperatorInv, DocsInv, Started, Step
  <2>3. step \in Step /\ step \in Holding /\ step \notin Sending
    BY DEF Step, Holding, Bound, Sending
  <2>. HIDE DEF step
  <2>4. TypeOK'
    BY <1>0, <2>1, <2>2, <2>3 DEF TypeOK, files, Slot
  <2>5. Alone(o)
    BY <1>0, <2>1 DEF TypeOK, Alone
  <2>6. /\ pc'[o] = step /\ claimed'[o] = clock
        /\ doc'[o] = doc[o] /\ mode'[o] = mode[o] /\ expiry'[o] = expiry[o]
    BY <1>0, <2>1 DEF TypeOK
  <2>7. DocsInv(o)'
    BY <1>0, <2>1, <2>6 DEF OperatorInv, DocsInv, Started, Step
  <2>8. PromptInv(o)'
    BY <1>0, <2>1, <2>3, <2>6
       DEF OperatorInv, PromptInv, Holding, Bound, Sending, Time
  <2>9. ContractInv(o)' /\ ReviewInv(o)'
    BY <1>0, <2>1, <2>6
       DEF OperatorInv, ContractInv, ReviewInv, Holding, Bound, Sending, step
  <2>10. \A q \in Operator : OperatorInv(q)'
    BY <2>1, <2>3, <2>5, <2>6, <2>7, <2>8, <2>9, OthersKeep, NotSending
       DEF OperatorInv
  <2>11. SlotInv'
    <3>1. /\ slots'[a] = "claimed"
          /\ \A b \in Approval : b # a => slots'[b] = slots[b]
      BY <1>0, <2>1, <2>2 DEF TypeOK
    <3>2. \A q \in Operator : pc[q] \in Holding =>
              doc[q].approval # a /\ doc[q].approval \in Approval
      BY <1>0, <1>2
         DEF LaunchInv, SlotInv, OperatorInv, DocsInv, Started, Step,
             Holding, Bound, Sending
    <3>3. \A q \in Operator : pc'[q] \in Holding => q = o \/ pc[q] \in Holding
      BY <2>5 DEF Alone
    <3>4. \A f \in fetches : f.doc.approval \in Approval /\ f.doc.approval # a
      BY <1>0, <1>2 DEF SlotInv
    <3>5. \A q \in Operator :
              pc'[q] \in Holding => slots'[doc'[q].approval] = "claimed"
      BY <1>0, <2>1, <3>1, <3>2, <3>3 DEF SlotInv
    <3>6. \A p, q \in Operator :
              (/\ pc'[p] \in Holding /\ pc'[q] \in Holding
               /\ doc'[p].approval = doc'[q].approval) => p = q
      BY <1>0, <2>1, <3>2, <3>3 DEF SlotInv
    <3>7. \A f \in fetches' :
              f.doc.approval \in Approval /\ slots'[f.doc.approval] # "free"
      BY <1>0, <2>1, <3>1, <3>4 DEF SlotInv
    <3>8. \A q \in Operator : pc'[q] \in Unspent =>
              \A f \in fetches' : f.doc.approval # doc'[q].approval
      BY <1>0, <2>1, <2>5, <3>4 DEF SlotInv, Alone
    <3>. QED  BY <3>5, <3>6, <3>7, <3>8 DEF SlotInv
  <2>. QED  BY <2>1, <2>4, <2>10, <2>11, FetchesKeep DEF LaunchInv
<1>. QED  BY <1>1, <1>2

LEMMA ArmLaunch ==
    ASSUME LaunchInv, NEW o \in Operator, Arm(o)
    PROVE  LaunchInv'
<1>0. TypeOK /\ OperatorInv(o) /\ clock \in Nat
  BY DEF LaunchInv, TypeOK, Time
<1>. DEFINE e == [expiry[o] EXCEPT !.latch = clock + EnableTtl]
<1>1. /\ pc[o] = "arm" /\ pc' = [pc EXCEPT ![o] = "bind"]
      /\ expiry' = [expiry EXCEPT ![o] = e]
      /\ latch' = [latch EXCEPT ![o] = "armed"]
      /\ UNCHANGED <<clock, files, slots, mode, doc, claimed, passed, fetches>>
  BY DEF Arm, Goto, Until, Set
<1>2. e \in [challenge : Nat, session : Nat, latch : Nat, capability : Nat]
  BY <1>0, Deadlines DEF TypeOK
<1>3. e.challenge = expiry[o].challenge /\ e.session = expiry[o].session
  BY <1>0 DEF TypeOK
<1>. HIDE DEF e
<1>4. TypeOK'
  <2>1. "bind" \in Step
    BY DEF Step
  <2>. QED  BY <1>0, <1>1, <1>2, <2>1 DEF TypeOK, files
<1>5. Alone(o)
  BY <1>0, <1>1 DEF TypeOK, Alone
<1>6. /\ pc'[o] = "bind" /\ expiry'[o] = e /\ claimed'[o] = claimed[o]
      /\ doc'[o] = doc[o] /\ mode'[o] = mode[o]
  BY <1>0, <1>1 DEF TypeOK
<1>7. DocsInv(o)'
  BY <1>0, <1>1, <1>6 DEF OperatorInv, DocsInv, Started, Step
<1>8. PromptInv(o)'
  BY <1>0, <1>1, <1>3, <1>6 DEF OperatorInv, PromptInv, Holding, Bound, Sending
<1>9. ContractInv(o)' /\ ReviewInv(o)'
  BY <1>0, <1>1, <1>6 DEF OperatorInv, ContractInv, ReviewInv, Holding, Bound, Sending
<1>. QED
  BY <1>1, <1>4, <1>5, <1>6, <1>7, <1>8, <1>9, OwnStep, NotSending
     DEF OperatorInv, Holding, Bound, Sending, Unspent

\* From here on the review is that of the approval, and no older at the claim
\* than ReviewAge.
LEMMA ReadinessLaunch ==
    ASSUME LaunchInv, NEW o \in Operator, BindReadiness(o)
    PROVE  LaunchInv'
<1>0. TypeOK /\ OperatorInv(o) /\ clock \in Nat /\ claimed[o] \in Nat
  BY DEF LaunchInv, TypeOK, Time
<1>. DEFINE d == doc[o]
            step == pc'[o]
<1>1. /\ pc[o] = "bind"
      /\ latch' = [latch EXCEPT ![o] = Consumed(o)]
      /\ UNCHANGED <<clock, files, slots, mode, doc, expiry, claimed, passed, fetches>>
  BY DEF BindReadiness, Set
<1>2. /\ step \in {"endpoint", "fail"}
      /\ pc' = [pc EXCEPT ![o] = step]
      /\ step = "endpoint" =>
             /\ Active(d.approval, clock)
             /\ ReviewPasses(d.review, d.approval, clock)
             /\ d.review.at <= claimed[o]
  BY <1>0 DEF BindReadiness, Goto, TypeOK
<1>3. step \in Step /\ step \in Holding
  BY <1>2 DEF Step, Holding, Bound, Sending
<1>4. TypeOK'
  <2>1. Consumed(o) \in {"disabled", "armed", "consumed", "expired"}
    BY DEF Consumed
  <2>. QED  BY <1>0, <1>1, <1>2, <1>3, <2>1 DEF TypeOK, files
<1>5. Alone(o)
  BY <1>0, <1>1, <1>2 DEF TypeOK, Alone
<1>6. /\ expiry'[o] = expiry[o] /\ claimed'[o] = claimed[o]
      /\ doc'[o] = doc[o] /\ mode'[o] = mode[o]
  BY <1>1
<1>7. DocsInv(o)'
  BY <1>0, <1>1, <1>6 DEF OperatorInv, DocsInv, Started, Step
<1>8. PromptInv(o)'
  BY <1>0, <1>1, <1>2, <1>6 DEF OperatorInv, PromptInv, Holding, Bound, Sending
<1>9. ContractInv(o)'
  BY <1>0, <1>1, <1>2, <1>6 DEF OperatorInv, ContractInv, Holding, Bound, Sending
<1>10. ReviewInv(o)'
  <2>1. mode[o] = "live" => d.review.at \in Nat
    BY <1>0, <1>1 DEF OperatorInv, DocsInv, Started, Step, Review, Time
  <2>2. claimed[o] <= clock
    BY <1>0, <1>1 DEF OperatorInv, PromptInv, Holding, Bound, Sending
  <2>3. mode[o] = "live" /\ step = "endpoint" => claimed[o] <= d.review.at + ReviewAge
    BY <1>0, <1>2, <2>1, <2>2, Deadlines DEF ReviewPasses
  <2>. QED  BY <1>1, <1>2, <1>6, <2>3
     DEF ReviewInv, ReviewPasses, Active, Bound, Sending
<1>. QED
  BY <1>1, <1>2, <1>3, <1>4, <1>5, <1>6, <1>7, <1>8, <1>9, <1>10, OwnStep, NotSending
     DEF OperatorInv, Holding, Bound, Sending, Unspent

\* The capability ends with the challenge, if not before.
LEMMA EndpointLaunch ==
    ASSUME LaunchInv, NEW o \in Operator, BindEndpoint(o)
    PROVE  LaunchInv'
<1>0. TypeOK /\ OperatorInv(o) /\ clock \in Nat /\ claimed[o] \in Nat
  BY DEF LaunchInv, TypeOK, Time
<1>. DEFINE d == doc[o]
            ends == MinOf(expiry[o].challenge,
                          MinOf(expiry[o].session, d.approval.until))
            e == [expiry[o] EXCEPT !.capability = ends]
<1>1. /\ pc[o] = "endpoint"
      /\ UNCHANGED <<clock, files, slots, mode, doc, latch, claimed, passed, fetches>>
  BY DEF BindEndpoint
<1>2. /\ expiry[o] \in [challenge : Nat, session : Nat, latch : Nat, capability : Nat]
      /\ d.approval \in Approval
      /\ d.approval.until \in Nat
  BY <1>0, <1>1, ApprovalDates DEF TypeOK, OperatorInv, DocsInv, Started, Step
<1>3. ends \in Nat /\ ends <= expiry[o].challenge
  BY <1>2 DEF MinOf
<1>4. /\ e \in [challenge : Nat, session : Nat, latch : Nat, capability : Nat]
      /\ e.challenge = expiry[o].challenge /\ e.session = expiry[o].session
      /\ e.capability = ends
  BY <1>2, <1>3
<1>5. CASE ~ContractPasses(d.contract, d.approval, clock)
  <2>1. pc' = [pc EXCEPT ![o] = "fail"] /\ UNCHANGED held
    BY <1>1, <1>5 DEF BindEndpoint, Goto, held
  <2>2. "fail" \in Step
    BY DEF Step
  <2>3. TypeOK' /\ Alone(o) /\ pc'[o] = "fail"
    BY <1>0, <1>1, <2>1, <2>2, HeldTypes DEF TypeOK, files
  <2>4. /\ doc'[o] = doc[o] /\ mode'[o] = mode[o] /\ expiry'[o] = expiry[o]
        /\ claimed'[o] = claimed[o]
    BY <2>1 DEF held
  <2>5. DocsInv(o)' /\ PromptInv(o)'
    BY <1>0, <1>1, <2>3, <2>4
       DEF OperatorInv, DocsInv, PromptInv, Started, Step, Holding, Bound, Sending
  <2>6. ContractInv(o)' /\ ReviewInv(o)'
    BY <1>0, <1>1, <2>3, <2>4
       DEF OperatorInv, ContractInv, ReviewInv, Holding, Bound, Sending
  <2>. QED
    BY <1>1, <2>3, <2>4, <2>5, <2>6, OwnStep, NotSending
       DEF OperatorInv, Holding, Bound, Sending, Unspent
<1>6. CASE ContractPasses(d.contract, d.approval, clock)
  <2>1. pc' = [pc EXCEPT ![o] = "execute"] /\ expiry' = [expiry EXCEPT ![o] = e]
    BY <1>6 DEF BindEndpoint, Goto, Until
  <2>. HIDE DEF e, ends
  <2>2. TypeOK'
    <3>1. "execute" \in Step
      BY DEF Step
    <3>. QED  BY <1>0, <1>1, <1>4, <2>1, <3>1 DEF TypeOK, files
  <2>3. Alone(o)
    BY <1>0, <1>1, <2>1 DEF TypeOK, Alone
  <2>4. /\ pc'[o] = "execute" /\ expiry'[o] = e /\ claimed'[o] = claimed[o]
        /\ doc'[o] = doc[o] /\ mode'[o] = mode[o]
    BY <1>0, <1>1, <2>1 DEF TypeOK
  <2>5. DocsInv(o)' /\ PromptInv(o)'
    BY <1>0, <1>1, <1>4, <2>4
       DEF OperatorInv, DocsInv, PromptInv, Started, Step, Holding, Bound, Sending
  <2>6. ContractInv(o)'
    <3>1. mode[o] = "live" => d.contract.until \in Nat
      BY <1>0, <1>1 DEF OperatorInv, DocsInv, Started, Step, Contract
    <3>2. mode[o] = "live" => claimed[o] < d.contract.until
      BY <1>0, <1>1, <1>6, <3>1
         DEF OperatorInv, PromptInv, Holding, Bound, Sending, ContractPasses
    <3>. QED  BY <1>0, <1>1, <2>4, <3>2
       DEF OperatorInv, ContractInv, Holding, Bound, Sending
  <2>7. ReviewInv(o)'
    BY <1>0, <1>1, <1>3, <1>4, <2>4 DEF OperatorInv, ReviewInv, Bound
  <2>. QED
    BY <1>1, <2>2, <2>3, <2>4, <2>5, <2>6, <2>7, OwnStep, NotSending
       DEF OperatorInv, Holding, Bound, Sending, Unspent
<1>. QED  BY <1>5, <1>6

LEMMA ExecuteLaunch ==
    ASSUME LaunchInv, NEW o \in Operator, Execute(o)
    PROVE  LaunchInv'
<1>0. TypeOK /\ OperatorInv(o)
  BY DEF LaunchInv
<1>. DEFINE step == IF clock < expiry[o].challenge THEN "fetch" ELSE "fail"
<1>1. /\ pc[o] = "execute" /\ pc' = [pc EXCEPT ![o] = step] /\ UNCHANGED held
      /\ UNCHANGED <<clock, files, slots, fetches>>
  BY DEF Execute, Goto
<1>2. step \in {"fetch", "fail"} /\ step \in Step
  BY DEF Step
<1>. HIDE DEF step
<1>3. TypeOK' /\ Alone(o) /\ pc'[o] = step
  BY <1>0, <1>1, <1>2, HeldTypes DEF TypeOK, files
<1>4. /\ doc'[o] = doc[o] /\ mode'[o] = mode[o] /\ expiry'[o] = expiry[o]
      /\ claimed'[o] = claimed[o]
  BY <1>1 DEF held
<1>5. DocsInv(o)' /\ PromptInv(o)'
  BY <1>0, <1>1, <1>2, <1>3, <1>4
     DEF OperatorInv, DocsInv, PromptInv, Started, Step, Holding, Bound, Sending
<1>6. ContractInv(o)' /\ ReviewInv(o)'
  BY <1>0, <1>1, <1>2, <1>3, <1>4
     DEF OperatorInv, ContractInv, ReviewInv, Holding, Bound, Sending
<1>. QED
  BY <1>1, <1>2, <1>3, <1>4, <1>5, <1>6, OwnStep, NotSending
     DEF OperatorInv, Holding, Bound, Sending, Unspent

\* The clock is not before the stamps of a call under way.
LEMMA CallTypes ==
    ASSUME LaunchInv, NEW o \in Operator
    PROVE  /\ TypeOK /\ OperatorInv(o)
           /\ clock \in Time /\ clock \in Nat
           /\ claimed[o] \in Time /\ claimed[o] \in Nat
           /\ passed[o] \in [guard : Time, stamp : Time]
           /\ passed[o].guard \in Nat /\ passed[o].stamp \in Nat
           /\ expiry[o] \in [challenge : Nat, session : Nat, latch : Nat,
                             capability : Nat]
BY DEF LaunchInv, TypeOK, Time

\* The live capability ends with the challenge, if not before.
LEMMA GuardLaunch ==
    ASSUME LaunchInv, NEW o \in Operator, Guard(o)
    PROVE  LaunchInv'
<1>. DEFINE step == pc'[o]
            b == passed'[o]
<1>0. /\ TypeOK /\ OperatorInv(o) /\ clock \in Time /\ clock \in Nat
      /\ claimed[o] \in Nat /\ passed[o] \in [guard : Time, stamp : Time]
      /\ expiry[o].challenge \in Nat /\ expiry[o].capability \in Nat
  BY CallTypes
<1>1. /\ pc[o] = "fetch" /\ mode[o] = "live"
      /\ UNCHANGED <<clock, files, slots, mode, doc, expiry, latch, claimed, fetches>>
  BY DEF Guard
<1>2. /\ step \in {"journal", "fail"} /\ pc' = [pc EXCEPT ![o] = step]
      /\ passed' = [passed EXCEPT ![o] = b] /\ b \in [guard : Time, stamp : Time]
      /\ step = "journal" => clock < expiry[o].capability /\ b.guard = clock
  <2>1. CASE clock < expiry[o].capability
    <3>1. /\ passed' = [passed EXCEPT ![o] = [passed[o] EXCEPT !.guard = clock]]
          /\ pc' = [pc EXCEPT ![o] = "journal"]
      BY <2>1 DEF Guard, Goto, Set
    <3>2. step = "journal" /\ b = [passed[o] EXCEPT !.guard = clock]
      BY <1>0, <3>1 DEF TypeOK
    <3>. QED  BY <1>0, <2>1, <3>1, <3>2
  <2>2. CASE ~(clock < expiry[o].capability)
    <3>1. pc' = [pc EXCEPT ![o] = "fail"] /\ passed' = passed
      BY <2>2 DEF Guard, Goto
    <3>2. step = "fail" /\ b = passed[o] /\ passed' = [passed EXCEPT ![o] = passed[o]]
      BY <1>0, <3>1 DEF TypeOK
    <3>. QED  BY <1>0, <3>1, <3>2
  <2>. QED  BY <2>1, <2>2
<1>3. step \in Step /\ step \in Holding
  BY <1>2 DEF Step, Holding, Bound, Sending
<1>. HIDE DEF b
<1>4. TypeOK' /\ Alone(o)
  <2>1. TypeOK'
    BY <1>0, <1>1, <1>2, <1>3 DEF TypeOK, files
  <2>2. Alone(o)
    BY <1>0, <1>1, <1>2 DEF TypeOK, Alone
  <2>. QED  BY <2>1, <2>2
<1>5. /\ doc'[o] = doc[o] /\ mode'[o] = mode[o] /\ expiry'[o] = expiry[o]
      /\ claimed'[o] = claimed[o] /\ clock' = clock
  BY <1>1
<1>6. DocsInv(o)' /\ PromptInv(o)'
  BY <1>0, <1>1, <1>2, <1>5
     DEF OperatorInv, DocsInv, PromptInv, Started, Step, Holding, Bound, Sending
<1>7. ContractInv(o)' /\ ReviewInv(o)'
  BY <1>0, <1>1, <1>2, <1>5
     DEF OperatorInv, ContractInv, ReviewInv, Holding, Bound, Sending
<1>8. SendInv(o)'
  <2>1. expiry[o].capability <= expiry[o].challenge /\ claimed[o] <= clock
    BY <1>0, <1>1 DEF OperatorInv, ReviewInv, PromptInv, Holding, Bound
  <2>. QED  BY <1>0, <1>1, <1>2, <1>5, <2>1 DEF SendInv, Sending, b
<1>. QED
  BY <1>1, <1>2, <1>3, <1>4, <1>5, <1>6, <1>7, <1>8, OwnStep
     DEF OperatorInv, Holding, Bound, Sending, Unspent

LEMMA JournalLaunch ==
    ASSUME LaunchInv, NEW o \in Operator, ClaimJournal(o)
    PROVE  LaunchInv'
<1>. DEFINE step == pc'[o]
            b == passed'[o]
<1>0. /\ TypeOK /\ OperatorInv(o) /\ clock \in Time /\ clock \in Nat
      /\ passed[o] \in [guard : Time, stamp : Time]
  BY CallTypes
<1>1. /\ pc[o] = "journal"
      /\ UNCHANGED <<clock, files, slots, mode, doc, expiry, latch, claimed, fetches>>
  BY DEF ClaimJournal
<1>2. /\ step \in {"authorize", "fail"} /\ pc' = [pc EXCEPT ![o] = step]
      /\ passed' = [passed EXCEPT ![o] = b] /\ b \in [guard : Time, stamp : Time]
      /\ step = "authorize" => b.guard = passed[o].guard /\ b.stamp = clock
  <2>1. \/ /\ passed' = [passed EXCEPT ![o] = [passed[o] EXCEPT !.stamp = clock]]
           /\ pc' = [pc EXCEPT ![o] = "authorize"]
        \/ pc' = [pc EXCEPT ![o] = "fail"] /\ passed' = passed
    BY DEF ClaimJournal, Goto, Set
  <2>2. CASE /\ passed' = [passed EXCEPT ![o] = [passed[o] EXCEPT !.stamp = clock]]
             /\ pc' = [pc EXCEPT ![o] = "authorize"]
    <3>1. step = "authorize" /\ b = [passed[o] EXCEPT !.stamp = clock]
      BY <1>0, <2>2 DEF TypeOK
    <3>. QED  BY <1>0, <2>2, <3>1
  <2>3. CASE pc' = [pc EXCEPT ![o] = "fail"] /\ passed' = passed
    <3>1. step = "fail" /\ b = passed[o] /\ passed' = [passed EXCEPT ![o] = passed[o]]
      BY <1>0, <2>3 DEF TypeOK
    <3>. QED  BY <1>0, <2>3, <3>1
  <2>. QED  BY <2>1, <2>2, <2>3
<1>3. step \in Step /\ step \in Holding
  BY <1>2 DEF Step, Holding, Bound, Sending
<1>. HIDE DEF b
<1>4. TypeOK' /\ Alone(o)
  <2>1. TypeOK'
    BY <1>0, <1>1, <1>2, <1>3 DEF TypeOK, files
  <2>2. Alone(o)
    BY <1>0, <1>1, <1>2 DEF TypeOK, Alone
  <2>. QED  BY <2>1, <2>2
<1>5. /\ doc'[o] = doc[o] /\ mode'[o] = mode[o] /\ expiry'[o] = expiry[o]
      /\ claimed'[o] = claimed[o] /\ clock' = clock
  BY <1>1
<1>6. DocsInv(o)' /\ PromptInv(o)'
  BY <1>0, <1>1, <1>2, <1>5
     DEF OperatorInv, DocsInv, PromptInv, Started, Step, Holding, Bound, Sending
<1>7. ContractInv(o)' /\ ReviewInv(o)'
  BY <1>0, <1>1, <1>2, <1>5
     DEF OperatorInv, ContractInv, ReviewInv, Holding, Bound, Sending
<1>8. SendInv(o)'
  BY <1>0, <1>1, <1>2, <1>5 DEF OperatorInv, SendInv, Sending, b
<1>. QED
  BY <1>1, <1>2, <1>3, <1>4, <1>5, <1>6, <1>7, <1>8, OwnStep
     DEF OperatorInv, Holding, Bound, Sending, Unspent

\* The approval is active at the stamp, which may be long ago.
LEMMA AuthorizeLaunch ==
    ASSUME LaunchInv, NEW o \in Operator, Authorize(o)
    PROVE  LaunchInv'
<1>. DEFINE step == pc'[o]
<1>0. TypeOK /\ OperatorInv(o)
  BY CallTypes
<1>1. /\ pc[o] = "authorize" /\ UNCHANGED held
      /\ UNCHANGED <<clock, files, slots, fetches>>
      /\ step \in {"send", "fail"} /\ pc' = [pc EXCEPT ![o] = step]
      /\ step = "send" => Active(doc[o].approval, passed[o].stamp)
  BY <1>0 DEF Authorize, Goto, TypeOK
<1>2. step \in Step /\ step \in Holding
  BY <1>1 DEF Step, Holding, Bound, Sending
<1>3. TypeOK' /\ Alone(o)
  BY <1>0, <1>1, <1>2, HeldTypes DEF TypeOK, files
<1>4. /\ doc'[o] = doc[o] /\ mode'[o] = mode[o] /\ expiry'[o] = expiry[o]
      /\ claimed'[o] = claimed[o] /\ passed'[o] = passed[o] /\ clock' = clock
  BY <1>1 DEF held
<1>5. DocsInv(o)' /\ PromptInv(o)'
  BY <1>0, <1>1, <1>4
     DEF OperatorInv, DocsInv, PromptInv, Started, Step, Holding, Bound, Sending
<1>6. ContractInv(o)' /\ ReviewInv(o)'
  BY <1>0, <1>1, <1>4
     DEF OperatorInv, ContractInv, ReviewInv, Holding, Bound, Sending
<1>7. SendInv(o)'
  BY <1>0, <1>1, <1>4 DEF OperatorInv, SendInv, Sending, Active
<1>. QED
  BY <1>1, <1>2, <1>3, <1>4, <1>5, <1>6, <1>7, OwnStep
     DEF OperatorInv, Holding, Bound, Sending, Unspent

\* What is known of a live request when it leaves.
LEMMA RequestIsGood ==
    ASSUME LaunchInv, NEW o \in Operator, pc[o] = "send", SessionActive(o, clock)
    PROVE  LET f == Requested(o)
               d == f.doc
           IN  /\ f.mode = "live"
               /\ d.review.approval = d.approval
               /\ d.review.at <= f.claimed /\ f.asked <= f.claimed
               /\ f.claimed <= f.guarded /\ f.guarded <= f.stamp /\ f.stamp <= f.at
               /\ f.guarded < f.asked + ConfirmTtl
               /\ Active(d.approval, f.stamp)
               /\ f.at < f.asked + SessionTtl
               /\ f.at < d.review.at + ReviewAge + SessionTtl
               /\ d.contract.approval = d.approval
               /\ d.contract.scope = d.approval.scope
               /\ d.approval.from <= d.contract.reviewed_at
               /\ d.contract.reviewed_at <= f.claimed
               /\ f.claimed < d.contract.until
<1>. DEFINE d == doc[o]
<1>0. OperatorInv(o)
  BY CallTypes
<1>1. /\ clock \in Nat /\ claimed[o] \in Nat /\ ConfirmTtl \in Nat /\ ReviewAge \in Nat
      /\ passed[o].guard \in Nat /\ passed[o].stamp \in Nat /\ SessionTtl \in Nat
      /\ expiry[o].challenge \in Nat /\ expiry[o].session \in Nat
  BY CallTypes, Deadlines
<1>2. /\ mode[o] = "live"
      /\ claimed[o] <= passed[o].guard /\ passed[o].guard <= passed[o].stamp
      /\ passed[o].stamp <= clock /\ passed[o].guard < expiry[o].challenge
      /\ Active(d.approval, passed[o].stamp)
  BY <1>0 DEF OperatorInv, SendInv, Sending
<1>3. d.review.at \in Nat
  BY <1>0, <1>2 DEF OperatorInv, DocsInv, Started, Step, Review, Time
<1>4. /\ expiry[o].challenge <= claimed[o] + ConfirmTtl
      /\ expiry[o].session + ConfirmTtl <= expiry[o].challenge + SessionTtl
  BY <1>0 DEF OperatorInv, PromptInv, Holding, Bound, Sending
<1>5. /\ d.contract.approval = d.approval /\ d.contract.scope = d.approval.scope
      /\ d.approval.from <= d.contract.reviewed_at
      /\ d.contract.reviewed_at <= claimed[o]
      /\ claimed[o] < d.contract.until
  BY <1>0, <1>2 DEF OperatorInv, ContractInv, Holding, Bound, Sending
<1>6. /\ d.review.approval = d.approval
      /\ d.review.at <= claimed[o] /\ claimed[o] <= d.review.at + ReviewAge
  BY <1>0, <1>2 DEF OperatorInv, ReviewInv, Bound, Sending
<1>7. clock < expiry[o].session
  BY DEF SessionActive
<1>8. /\ expiry[o].challenge - ConfirmTtl <= claimed[o]
      /\ passed[o].guard < (expiry[o].challenge - ConfirmTtl) + ConfirmTtl
      /\ clock < (expiry[o].challenge - ConfirmTtl) + SessionTtl
      /\ clock < d.review.at + ReviewAge + SessionTtl
  BY <1>1, <1>2, <1>3, <1>4, <1>6, <1>7
<1>. QED  BY <1>2, <1>5, <1>6, <1>8 DEF Requested

\* A request is the first on its approval, and after it the operator is done.
LEMMA RequestLaunch ==
    ASSUME LaunchInv, NEW o \in Operator, pc[o] \in {"fetch", "send"},
           UNCHANGED <<clock, files, slots, held>>,
           fetches' = fetches \cup {Requested(o)},
           NEW step \in {"complete", "fail"}, pc' = [pc EXCEPT ![o] = step],
           IF pc[o] = "send" THEN SessionActive(o, clock) ELSE mode[o] = "dry"
    PROVE  LaunchInv'
<1>. DEFINE f == Requested(o)
<1>0. /\ TypeOK /\ OperatorInv(o) /\ SlotInv /\ clock \in Time
      /\ claimed[o] \in Time /\ expiry[o].challenge \in Nat
      /\ passed[o] \in [guard : Time, stamp : Time]
      /\ doc[o] \in Doc /\ mode[o] \in {"live", "dry"}
  BY DEF LaunchInv, TypeOK
<1>1. f.doc = doc[o] /\ f.mode = mode[o]
  BY DEF Requested
<1>2. step \in Step /\ step \in Holding /\ step \notin Unspent /\ step \notin Sending
  BY DEF Step, Holding, Bound, Sending, Unspent
<1>3. f \in Fetch
  <2>1. expiry[o].challenge - ConfirmTtl \in Int
    BY <1>0, Deadlines
  <2>. QED  BY <1>0, <2>1 DEF Fetch, Requested
<1>. HIDE DEF f
<1>4. /\ fetches' = fetches \cup {f}
      /\ fetches' \subseteq Fetch /\ \A g \in fetches' : g \in fetches \/ g = f
  BY <1>0, <1>3 DEF TypeOK, f
<1>5. TypeOK' /\ Alone(o) /\ pc'[o] = step
  BY <1>0, <1>2, <1>4, HeldTypes DEF TypeOK, files
<1>6. /\ doc'[o] = doc[o] /\ mode'[o] = mode[o] /\ expiry'[o] = expiry[o]
      /\ claimed'[o] = claimed[o] /\ doc' = doc
  BY DEF held
<1>7. DocsInv(o)' /\ PromptInv(o)'
  BY <1>0, <1>5, <1>6
     DEF OperatorInv, DocsInv, PromptInv, Started, Step, Holding, Bound, Sending
<1>8. ContractInv(o)' /\ ReviewInv(o)'
  BY <1>0, <1>5, <1>6
     DEF OperatorInv, ContractInv, ReviewInv, Holding, Bound, Sending
<1>9. \A q \in Operator : OperatorInv(q)'
  BY <1>2, <1>5, <1>7, <1>8, OthersKeep, NotSending DEF OperatorInv
<1>10. /\ f.doc.approval = doc[o].approval /\ f.doc.approval \in Approval
       /\ slots[f.doc.approval] = "claimed"
       /\ \A g \in fetches : g.doc.approval # f.doc.approval
  <2>1. doc[o].approval \in Approval
    BY <1>0 DEF OperatorInv, DocsInv, Started, Step
  <2>2. slots[doc[o].approval] = "claimed"
    BY <1>0 DEF SlotInv, Holding, Bound, Sending
  <2>3. \A g \in fetches : g.doc.approval # doc[o].approval
    BY <1>0 DEF SlotInv, Unspent, Holding, Bound, Sending
  <2>. QED  BY <1>1, <2>1, <2>2, <2>3
<1>11. SlotInv'
  <2>1. \A q \in Operator : pc'[q] \in Holding => pc[q] \in Holding
    BY <1>5 DEF Alone, Holding, Bound, Sending
  <2>2. \A q \in Operator : pc'[q] \in Unspent => q # o /\ pc[q] \in Unspent
    BY <1>2, <1>5 DEF Alone
  <2>3. \A q \in Operator : pc'[q] \in Holding => slots'[doc'[q].approval] = "claimed"
    BY <1>0, <1>6, <2>1 DEF SlotInv
  <2>4. \A p, q \in Operator :
            (/\ pc'[p] \in Holding /\ pc'[q] \in Holding
             /\ doc'[p].approval = doc'[q].approval) => p = q
    BY <1>0, <1>6, <2>1 DEF SlotInv
  <2>5. \A g \in fetches' :
            g.doc.approval \in Approval /\ slots'[g.doc.approval] # "free"
    BY <1>0, <1>4, <1>10 DEF SlotInv
  <2>6. ASSUME NEW q \in Operator, pc'[q] \in Unspent, NEW g \in fetches'
        PROVE  g.doc.approval # doc'[q].approval
    <3>1. q # o /\ pc[q] \in Unspent /\ pc[q] \in Holding /\ pc[o] \in Holding
      BY <2>2, <2>6 DEF Unspent, Holding, Bound, Sending
    <3>2. doc[q].approval # doc[o].approval
      BY <1>0, <3>1 DEF SlotInv
    <3>3. \A x \in fetches : x.doc.approval # doc[q].approval
      BY <1>0, <3>1 DEF SlotInv
    <3>. QED  BY <1>4, <1>6, <1>10, <3>2, <3>3
  <2>. QED  BY <2>3, <2>4, <2>5, <2>6 DEF SlotInv
<1>12. OneFetchPerApproval'
  BY <1>4, <1>10 DEF LaunchInv, OneFetchPerApproval
<1>13. f.mode = "live" => pc[o] = "send" /\ SessionActive(o, clock)
  BY <1>1
<1>14. FetchIsFresh'
  <2>1. SUFFICES ASSUME NEW g \in fetches', g.mode = "live"
                 PROVE  LET d == g.doc IN
                        /\ d.review.approval = d.approval
                        /\ d.review.at <= g.claimed /\ g.asked <= g.claimed
                        /\ g.claimed <= g.guarded /\ g.guarded <= g.stamp
                        /\ g.stamp <= g.at
                        /\ g.guarded < g.asked + ConfirmTtl
                        /\ Active(d.approval, g.stamp)
                        /\ g.at < g.asked + SessionTtl
                        /\ g.at < d.review.at + ReviewAge + SessionTtl
    BY DEF FetchIsFresh, Live, Active
  <2>2. CASE g = f
    BY <1>13, <2>1, <2>2, RequestIsGood DEF f
  <2>3. CASE g \in fetches
    BY <2>1, <2>3 DEF LaunchInv, FetchIsFresh, Live
  <2>. QED  BY <1>4, <2>2, <2>3
<1>15. FetchIsReviewed'
  <2>1. SUFFICES ASSUME NEW g \in fetches', g.mode = "live"
                 PROVE  LET c == g.doc.contract
                            a == g.doc.approval IN
                        /\ c.approval = a /\ c.scope = a.scope
                        /\ a.from <= c.reviewed_at /\ c.reviewed_at <= g.claimed
                        /\ g.claimed < c.until
    BY DEF FetchIsReviewed, Live
  <2>2. CASE g = f
    BY <1>13, <2>1, <2>2, RequestIsGood DEF f
  <2>3. CASE g \in fetches
    BY <2>1, <2>3 DEF LaunchInv, FetchIsReviewed, Live
  <2>. QED  BY <1>4, <2>2, <2>3
<1>. QED  BY <1>5, <1>9, <1>11, <1>12, <1>14, <1>15 DEF LaunchInv

LEMMA RehearseLaunch ==
    ASSUME LaunchInv, NEW o \in Operator, Rehearse(o)
    PROVE  LaunchInv'
<1>1. PICK step \in {"complete", "fail"} : pc' = [pc EXCEPT ![o] = step]
  BY DEF Rehearse, Goto
<1>. QED  BY <1>1, RequestLaunch DEF Rehearse

LEMMA SendLaunch ==
    ASSUME LaunchInv, NEW o \in Operator, Send(o)
    PROVE  LaunchInv'
<1>1. CASE UNCHANGED fetches /\ pc' = [pc EXCEPT ![o] = "fail"]
  <2>0. TypeOK /\ OperatorInv(o)
    BY CallTypes
  <2>1. pc[o] = "send" /\ UNCHANGED held /\ UNCHANGED <<clock, files, slots, fetches>>
    BY <1>1 DEF Send
  <2>2. "fail" \in Step
    BY DEF Step
  <2>3. TypeOK' /\ Alone(o) /\ pc'[o] = "fail"
    BY <1>1, <2>0, <2>1, <2>2, HeldTypes DEF TypeOK, files
  <2>4. /\ doc'[o] = doc[o] /\ mode'[o] = mode[o] /\ expiry'[o] = expiry[o]
        /\ claimed'[o] = claimed[o] /\ clock' = clock
    BY <2>1 DEF held
  <2>5. DocsInv(o)' /\ PromptInv(o)'
    BY <2>0, <2>1, <2>3, <2>4
       DEF OperatorInv, DocsInv, PromptInv, Started, Step, Holding, Bound, Sending
  <2>6. ContractInv(o)' /\ ReviewInv(o)'
    BY <2>0, <2>1, <2>3, <2>4
       DEF OperatorInv, ContractInv, ReviewInv, Holding, Bound, Sending
  <2>. QED
    BY <2>1, <2>3, <2>4, <2>5, <2>6, OwnStep, NotSending
       DEF OperatorInv, Holding, Bound, Sending, Unspent
<1>2. CASE SessionActive(o, clock) /\ fetches' = fetches \cup {Requested(o)}
  <2>1. CASE \E step \in {"complete", "fail"} : pc' = [pc EXCEPT ![o] = step]
    <3>1. PICK step \in {"complete", "fail"} : pc' = [pc EXCEPT ![o] = step]
      BY <2>1
    <3>2. pc[o] = "send" /\ UNCHANGED <<clock, files, slots, held>>
      BY DEF Send
    <3>. QED  BY <1>2, <3>1, <3>2, RequestLaunch
  <2>. QED  BY <1>1, <1>2, <2>1 DEF Send, Goto
<1>. QED  BY <1>1, <1>2 DEF Send, Goto

\* Nobody else holds the slot that gets its verdict, and it is never free again.
LEMMA ResolveLaunch ==
    ASSUME LaunchInv, NEW o \in Operator, Resolve(o)
    PROVE  LaunchInv'
<1>. DEFINE a == doc[o].approval
            verdict == IF pc[o] = "complete" THEN "completed" ELSE "failed"
<1>0. TypeOK /\ OperatorInv(o) /\ SlotInv
  BY DEF LaunchInv
<1>1. /\ pc[o] \in {"complete", "fail"} /\ Return(o)
      /\ slots' = [slots EXCEPT ![a] = verdict]
      /\ UNCHANGED <<clock, files, fetches>>
  BY DEF Resolve
<1>2. a \in Approval /\ verdict \in Slot /\ verdict # "free" /\ pc[o] \in Holding
  BY <1>0, <1>1 DEF OperatorInv, DocsInv, Started, Step, Slot, Holding, Bound, Sending
<1>. HIDE DEF verdict
<1>3. TypeOK' /\ Alone(o) /\ pc'[o] = "over"
  BY <1>0, <1>1, <1>2, ReturnTypes DEF TypeOK, files
<1>4. \A q \in Operator : OperatorInv(q)'
  BY <1>1, <1>3, OthersKeep, OverKeeps
<1>5. SlotInv'
  <2>1. /\ slots'[a] = verdict
        /\ \A b \in Approval : b # a => slots'[b] = slots[b]
    BY <1>0, <1>1, <1>2 DEF TypeOK
  <2>2. \A q \in Operator : pc'[q] \in Holding =>
            /\ q # o /\ pc[q] \in Holding /\ doc'[q] = doc[q]
            /\ doc[q].approval \in Approval
    BY <1>3
       DEF Alone, LaunchInv, OperatorInv, DocsInv, Started, Step, Holding, Bound, Sending
  <2>3. \A q \in Operator : pc'[q] \in Holding => doc[q].approval # a
    BY <1>0, <1>2, <2>2 DEF SlotInv
  <2>4. \A q \in Operator : pc'[q] \in Holding => slots'[doc'[q].approval] = "claimed"
    BY <1>0, <2>1, <2>2, <2>3 DEF SlotInv
  <2>5. \A p, q \in Operator :
            (/\ pc'[p] \in Holding /\ pc'[q] \in Holding
             /\ doc'[p].approval = doc'[q].approval) => p = q
    BY <1>0, <2>2 DEF SlotInv
  <2>6. \A f \in fetches' :
            f.doc.approval \in Approval /\ slots'[f.doc.approval] # "free"
    BY <1>0, <1>1, <1>2, <2>1 DEF SlotInv
  <2>7. \A q \in Operator : pc'[q] \in Unspent =>
            \A f \in fetches' : f.doc.approval # doc'[q].approval
    BY <1>0, <1>1, <1>3, <2>2 DEF SlotInv, Unspent, Alone
  <2>. QED  BY <2>4, <2>5, <2>6, <2>7 DEF SlotInv
<1>. QED  BY <1>1, <1>3, <1>4, <1>5, FetchesKeep DEF LaunchInv
-----------------------------------------------------------------------------
(* The theorems *)

LEMMA StutterLaunch == LaunchInv /\ UNCHANGED vars => LaunchInv'
<1>. SUFFICES ASSUME LaunchInv, UNCHANGED vars PROVE LaunchInv'  OBVIOUS
<1>1. TypeOK'
  BY DEF LaunchInv, TypeOK, vars, files, held
<1>2. UNCHANGED <<clock, slots, pc, held, fetches>>
  BY DEF vars
<1>. QED  BY <1>1, <1>2, FilesKeep DEF LaunchInv

\* LaunchInv is inductive: every gate, every writer of a file and the clock
\* preserve it.
THEOREM LaunchIsInvariant == Spec => []LaunchInv
<1>1. Init => LaunchInv
  BY InitLaunch
<1>2. LaunchInv /\ [Next]_vars => LaunchInv'
  <2>. SUFFICES ASSUME LaunchInv, [Next]_vars PROVE LaunchInv'  OBVIOUS
  <2>1. CASE Tick
    BY <2>1, TickLaunch
  <2>2. CASE \/ \E a \in Approval : WriteApproval(a)
             \/ \E e \in Evidence : WriteEvidence(e)
    BY <2>2, FilesLaunch
  <2>3. CASE \E until \in Expiry, force \in BOOLEAN : FinalizeContract(until, force)
    BY <2>3, ContractLaunch
  <2>4. CASE \E busy \in BOOLEAN : LaunchReview(busy)
    BY <2>4, ReviewLaunch
  <2>5. CASE \E o \in Operator : OperatorStep(o)
    <3>1. PICK o \in Operator : OperatorStep(o)
      BY <2>5
    <3>2. CASE \E m \in {"live", "dry"} : Load(o, m)
      BY <3>2, LoadLaunch
    <3>3. CASE \E right \in BOOLEAN : Confirm(o, right)
      BY <3>3, ConfirmLaunch
    <3>4. CASE Precheck(o) \/ Prompt(o)
      BY <3>4, PrecheckLaunch, PromptLaunch
    <3>5. CASE ClaimSlot(o) \/ Arm(o)
      BY <3>5, ClaimLaunch, ArmLaunch
    <3>6. CASE BindReadiness(o) \/ BindEndpoint(o)
      BY <3>6, ReadinessLaunch, EndpointLaunch
    <3>7. CASE Execute(o) \/ Rehearse(o) \/ Resolve(o)
      BY <3>7, ExecuteLaunch, RehearseLaunch, ResolveLaunch
    <3>8. CASE Guard(o) \/ ClaimJournal(o) \/ Authorize(o) \/ Send(o)
      BY <3>8, GuardLaunch, JournalLaunch, AuthorizeLaunch, SendLaunch
    <3>. QED  BY <3>1, <3>2, <3>3, <3>4, <3>5, <3>6, <3>7, <3>8 DEF OperatorStep
  <2>6. CASE UNCHANGED vars
    BY <2>6, StutterLaunch
  <2>. QED  BY <2>1, <2>2, <2>3, <2>4, <2>5, <2>6 DEF Next
<1>. QED  BY <1>1, <1>2, PTL DEF Spec

\* Types of the documents, slots and operators.
THEOREM LaunchTypes == Spec => []TypeOK
<1>1. LaunchInv => TypeOK
  BY DEF LaunchInv
<1>. QED  BY <1>1, LaunchIsInvariant, PTL

\* One approval pays for one request (FirstRequestSlotService.claim), for any
\* number of operators, live or rehearsing.
THEOREM ApprovalPaysOnce == Spec => []OneFetchPerApproval
<1>1. LaunchInv => OneFetchPerApproval
  BY DEF LaunchInv
<1>. QED  BY <1>1, LaunchIsInvariant, PTL

\* A live call goes through its gates in order, under an approval that is active
\* at the permit's stamp, and its request leaves while the session is open
\* (run_live_one_request_composition, ExternalSessionBroker.fetch), for
\* every choice of the deadlines.
THEOREM RequestsAreFresh == Spec => []FetchIsFresh
<1>1. LaunchInv => FetchIsFresh
  BY DEF LaunchInv
<1>. QED  BY <1>1, LaunchIsInvariant, PTL

\* A live request goes to an endpoint reviewed under the approval it is made with,
\* by a contract in force at the claim (review_source_endpoint_contract).
THEOREM RequestsAreReviewed == Spec => []FetchIsReviewed
<1>1. LaunchInv => FetchIsReviewed
  BY DEF LaunchInv
<1>. QED  BY <1>1, LaunchIsInvariant, PTL
=============================================================================
