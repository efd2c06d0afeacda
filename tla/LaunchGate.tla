----------------------------- MODULE LaunchGate -----------------------------
(***************************************************************************)
(* The evidence a live request rests on, and its age.  An owner keeps an   *)
(* approval file (G0), a reviewer the evidence of the endpoint; command    *)
(* line tools turn them into an endpoint contract and a launch review.     *)
(* Operators load these documents once and go through the gates of         *)
(* run_live_one_request_composition - precheck, typed confirmation, the    *)
(* approval's one slot, readiness latch, endpoint binding, two             *)
(* capabilities - while the clock runs between every two reads of it and   *)
(* the files change under them.  A dry run takes the same slot.            *)
(*                                                                         *)
(* A document stands for its own fingerprint: two documents have the same  *)
(* SHA-256 exactly when they are equal.                                    *)
(***************************************************************************)
EXTENDS Integers, FiniteSets

CONSTANTS
    Approval,       \* the contents an approval file may have
    Scope,          \* fields, ratings and timeout, as one value
    Evidence,       \* the contents an evidence file may have
    Expiry,         \* the contract expiries a reviewer may ask for
    Operator,       \* processes, each of which runs the composition once
    MaxTime,        \* bound of the clock
    MaxWrites,      \* bound of the documents written
    MaxApprovalAge, \* 90 days
    ReviewAge,      \* MAX_REVIEW_AGE, 5 minutes
    ConfirmTtl,     \* confirmation_ttl_seconds
    EnableTtl,      \* enablement_ttl_seconds
    SessionTtl      \* ttl_minutes of the runtime session

None == [none |-> TRUE]

LaunchAssumption ==
    /\ Approval \subseteq [from : Nat, until : Nat, terms : Nat, scope : Scope,
                           session : BOOLEAN, solo : BOOLEAN]
    /\ Evidence \subseteq [scope : Scope, terms_at : Nat, response_at : Nat,
                           sound : BOOLEAN]
    /\ Expiry \subseteq Nat
    /\ {MaxTime, MaxWrites, ReviewAge} \subseteq Nat
    /\ {MaxApprovalAge, ConfirmTtl, EnableTtl, SessionTtl} \subseteq Nat \ {0}
ASSUME LaunchAssumption

VARIABLES
    clock,
    g0,        \* the approval file
    evidence,  \* the endpoint review evidence file
    contract,  \* the endpoint contract file
    review,    \* the last launch review
    writes,    \* how often a document was written
    slots,     \* the approval's first-request slot
    pc, mode,  \* where an operator's process is, and whether it rehearses
    doc,       \* the documents it loaded
    expiry,    \* when its challenge, session, latch and live capability end
    latch,     \* the state of its enablement
    claimed,   \* when it claimed the slot
    passed,    \* when it burnt the live capability, and its permit's stamp
    fetches    \* history: the requests the provider was asked for

files == <<g0, evidence, contract, review, writes>>
held == <<mode, doc, expiry, latch, claimed, passed>>
vars == <<clock, files, slots, pc, held, fetches>>

Time == 0 .. MaxTime
Contract == [approval : Approval, scope : Scope, reviewed_at : Nat, until : Nat]
Review == [approval : Approval, at : Time, until : Nat, passed : BOOLEAN]
Slot == {"free", "claimed", "completed", "failed"}
Step == {"idle", "precheck", "prompt", "typing", "claim", "arm", "bind",
         "endpoint", "execute", "fetch", "journal", "authorize", "send",
         "complete", "fail", "over"}
Doc == [approval : Approval \cup {None}, contract : Contract \cup {None},
        review : Review \cup {None}]
Fetch == [op : Operator, mode : {"live", "dry"}, at : Time, doc : Doc,
          claimed : Time, asked : Int, guarded : Time, stamp : Time]

TypeOK ==
    /\ clock \in Time
    /\ g0 \in Approval \cup {None}
    /\ evidence \in Evidence \cup {None}
    /\ contract \in Contract \cup {None}
    /\ review \in Review \cup {None}
    /\ writes \in 0 .. MaxWrites
    /\ slots \in [Approval -> Slot]
    /\ pc \in [Operator -> Step]
    /\ mode \in [Operator -> {"live", "dry"}]
    /\ doc \in [Operator -> Doc]
    /\ expiry \in [Operator -> [challenge : Nat, session : Nat, latch : Nat,
                                capability : Nat]]
    /\ latch \in [Operator -> {"disabled", "armed", "consumed", "expired"}]
    /\ claimed \in [Operator -> Time]
    /\ passed \in [Operator -> [guard : Time, stamp : Time]]
    /\ fetches \subseteq Fetch

NoDoc == [approval |-> None, contract |-> None, review |-> None]
NoPass == [guard |-> 0, stamp |-> 0]
NoExpiry == [challenge |-> 0, session |-> 0, latch |-> 0, capability |-> 0]

Init ==
    /\ clock = 0
    /\ g0 = None /\ evidence = None /\ contract = None /\ review = None
    /\ writes = 0
    /\ slots = [a \in Approval |-> "free"]
    /\ pc = [o \in Operator |-> "idle"]
    /\ mode = [o \in Operator |-> "live"]
    /\ doc = [o \in Operator |-> NoDoc]
    /\ expiry = [o \in Operator |-> NoExpiry]
    /\ latch = [o \in Operator |-> "disabled"]
    /\ claimed = [o \in Operator |-> 0]
    /\ passed = [o \in Operator |-> NoPass]
    /\ fetches = {}
-----------------------------------------------------------------------------
\* Documents

Tick ==
    /\ clock < MaxTime
    /\ clock' = clock + 1
    /\ UNCHANGED <<files, slots, pc, held, fetches>>

\* G0Approval and its parts refuse a file whose window is empty or longer than
\* 90 days, or whose terms were reviewed after the approval.
ValidApproval(a) ==
    /\ a \in Approval
    /\ a.terms <= a.from
    /\ a.from < a.until
    /\ a.until - a.from <= MaxApprovalAge

Active(a, t) == a.from <= t /\ t < a.until

\* load_active_g0_approval
Loadable(a, t) == ValidApproval(a) /\ Active(a, t)

Write == writes < MaxWrites /\ writes' = writes + 1

\* The owner puts an approval in place of the last one.
WriteApproval(a) ==
    /\ Write
    /\ a # g0
    /\ g0' = a
    /\ UNCHANGED <<clock, evidence, contract, review, slots, pc, held, fetches>>

\* The reviewer records what was seen of the endpoint, at most now.
WriteEvidence(e) ==
    /\ Write
    /\ e # evidence
    /\ e.response_at <= clock /\ e.terms_at <= clock
    /\ evidence' = e
    /\ UNCHANGED <<clock, g0, contract, review, slots, pc, held, fetches>>

MaxOf(a, b) == IF a > b THEN a ELSE b
MinOf(a, b) == IF a < b THEN a ELSE b

\* Mutant: the contract is not tied to the approval it was reviewed for.
ContractPassesUnbound(c, a, t) ==
    /\ Active(a, t)
    /\ t < c.until

\* review_source_endpoint_contract
ContractPasses(c, a, t) ==
    /\ Active(a, t)
    /\ c.approval = a
    /\ a.from <= c.reviewed_at /\ c.reviewed_at <= t
    /\ t < c.until /\ c.until <= a.until
    /\ c.scope = a.scope
    /\ a.session

\* finalize_source_endpoint_contract: what the evidence makes of an approval.
Finalized(e, a, until) ==
    [approval |-> a, scope |-> a.scope, until |-> until,
     reviewed_at |-> MaxOf(e.terms_at, e.response_at)]

\* source_endpoint_review: evidence, approval and an explicit expiry become a
\* contract; nothing is written when any check fails, and an existing contract
\* is only overwritten by force.
FinalizeContract(until, force) ==
    /\ Write
    /\ g0 # None /\ evidence # None
    /\ Loadable(g0, clock)
    /\ evidence.sound
    /\ g0.from <= evidence.terms_at /\ g0.from <= evidence.response_at
    /\ evidence.scope = g0.scope
    /\ until > MaxOf(evidence.terms_at, evidence.response_at)
    /\ ContractPasses(Finalized(evidence, g0, until), g0, clock)
    /\ contract = None \/ force
    /\ contract' = Finalized(evidence, g0, until)
    /\ UNCHANGED <<clock, g0, evidence, review, slots, pc, held, fetches>>

\* launch_review: counts the active permits, the slots and the stopped runs of
\* the approval, with SELECT statements only.
LaunchReview(busy) ==
    /\ Write
    /\ g0 # None
    /\ Loadable(g0, clock)
    /\ review' = [approval |-> g0, at |-> clock, until |-> g0.until,
                  passed |-> slots[g0] = "free" /\ ~busy]
    /\ UNCHANGED <<clock, g0, evidence, contract, slots, pc, held, fetches>>
-----------------------------------------------------------------------------
\* The composition

Goto(o, step) == pc' = [pc EXCEPT ![o] = step]
Set(f, o, v) == [f EXCEPT ![o] = v]
Until(o, e) == expiry' = [expiry EXCEPT ![o] = e]

\* The call returns: its documents, session and capabilities are gone.
Return(o) ==
    /\ Goto(o, "over")
    /\ mode' = Set(mode, o, "live")
    /\ doc' = Set(doc, o, NoDoc)
    /\ expiry' = Set(expiry, o, NoExpiry)
    /\ latch' = Set(latch, o, "disabled")
    /\ claimed' = Set(claimed, o, 0)
    /\ passed' = Set(passed, o, NoPass)

\* Goes on when the gate passes and returns when it does not.
PassOr(o, gate, step) ==
    \/ gate /\ Goto(o, step) /\ UNCHANGED held
    \/ ~gate /\ Return(o)

\* The caller loads the documents and opens a session; a rehearsal
\* (run_first_sample_dry_run) has an offline provider and needs no contract.
Load(o, m) ==
    /\ pc[o] = "idle"
    /\ g0 # None /\ Loadable(g0, clock)
    /\ \/ /\ m = "live" /\ contract # None /\ review # None
          /\ doc' = Set(doc, o, [approval |-> g0, contract |-> contract,
                                 review |-> review])
       \/ /\ m = "dry"
          /\ doc' = Set(doc, o, [NoDoc EXCEPT !.approval = g0])
    /\ mode' = Set(mode, o, m)
    /\ Until(o, [expiry[o] EXCEPT !.session = clock + SessionTtl])
    /\ Goto(o, IF m = "live" THEN "precheck" ELSE "prompt")
    /\ UNCHANGED <<clock, files, slots, latch, claimed, passed, fetches>>

\* A launch review that passed for this approval, no more than ReviewAge ago.
ReviewPasses(r, a, t) ==
    /\ r.passed
    /\ r.approval = a
    /\ r.until = a.until
    /\ r.at <= t /\ t <= r.at + ReviewAge

SessionActive(o, t) == t < expiry[o].session

\* _precheck: no claim is made when any of the evidence is missing or stale.
Precheck(o) ==
    /\ pc[o] = "precheck"
    /\ LET d == doc[o] IN
       PassOr(o, /\ ContractPasses(d.contract, d.approval, clock)
                 /\ ReviewPasses(d.review, d.approval, clock)
                 /\ SessionActive(o, clock),
              "prompt")
    /\ UNCHANGED <<clock, files, slots, fetches>>

\* confirm_live_one_request_capability issues a phrase ...
Prompt(o) ==
    /\ pc[o] = "prompt"
    /\ Until(o, [expiry[o] EXCEPT !.challenge = clock + ConfirmTtl])
    /\ Goto(o, "typing")
    /\ UNCHANGED <<clock, files, slots, mode, doc, latch, claimed, passed, fetches>>

\* ... and OneUseConfirmation.confirm accepts it once, in time and unaltered.
Confirm(o, right) ==
    /\ pc[o] = "typing"
    /\ PassOr(o, right /\ clock < expiry[o].challenge, "claim")
    /\ UNCHANGED <<clock, files, slots, fetches>>

\* Mutant: a slot that failed may be claimed again.
ClaimSlotAgain(o) ==
    /\ pc[o] = "claim"
    /\ slots[doc[o].approval] \in {"free", "failed"}
    /\ slots' = [slots EXCEPT ![doc[o].approval] = "claimed"]
    /\ claimed' = Set(claimed, o, clock)
    /\ Goto(o, IF mode[o] = "live" THEN "arm" ELSE "execute")
    /\ UNCHANGED <<clock, files, mode, doc, expiry, latch, passed, fetches>>

\* FirstRequestSlotService.claim: one slot per approval, for ever.
ClaimSlot(o) ==
    LET a == doc[o].approval IN
    /\ pc[o] = "claim"
    /\ \/ /\ slots[a] = "free"
          /\ slots' = [slots EXCEPT ![a] = "claimed"]
          /\ claimed' = Set(claimed, o, clock)
          /\ Goto(o, IF mode[o] = "live" THEN "arm" ELSE "execute")
          /\ UNCHANGED <<mode, doc, expiry, latch, passed>>
       \/ /\ slots[a] # "free"
          /\ Return(o)
          /\ UNCHANGED slots
    /\ UNCHANGED <<clock, files, fetches>>

\* arm_live_one_request_enablement
Arm(o) ==
    /\ pc[o] = "arm"
    /\ Until(o, [expiry[o] EXCEPT !.latch = clock + EnableTtl])
    /\ latch' = Set(latch, o, "armed")
    /\ Goto(o, "bind")
    /\ UNCHANGED <<clock, files, slots, mode, doc, claimed, passed, fetches>>

\* ExplicitRealRequestEnablement.consume ends in a terminal state either way.
Consumed(o) == IF clock < expiry[o].latch THEN "consumed" ELSE "expired"

\* bind_live_one_request_readiness: everything again, and the claim between
\* the review and now; the latch is burnt even when it refuses.
BindReadiness(o) ==
    LET d == doc[o] IN
    /\ pc[o] = "bind"
    /\ latch' = Set(latch, o, Consumed(o))
    /\ Goto(o, IF /\ Consumed(o) = "consumed"
                  /\ Active(d.approval, clock)
                  /\ d.approval.solo /\ d.approval.session
                  /\ ReviewPasses(d.review, d.approval, clock)
                  /\ SessionActive(o, clock)
                  /\ d.review.at <= claimed[o] /\ claimed[o] <= clock
               THEN "endpoint" ELSE "fail")
    /\ UNCHANGED <<clock, files, slots, mode, doc, expiry, claimed, passed, fetches>>

\* bind_reviewed_endpoint_request, then the live capability: it ends with the
\* first of the challenge, the session and the approval - the contract's own
\* expiry is not among them.
BindEndpoint(o) ==
    LET d == doc[o] IN
    /\ pc[o] = "endpoint"
    /\ \/ /\ ContractPasses(d.contract, d.approval, clock)
          /\ Until(o, [expiry[o] EXCEPT !.capability =
                           MinOf(expiry[o].challenge, MinOf(expiry[o].session, d.approval.until))])
          /\ Goto(o, "execute")
       \/ /\ ~ContractPasses(d.contract, d.approval, clock)
          /\ Goto(o, "fail")
          /\ UNCHANGED expiry
    /\ UNCHANGED <<clock, files, slots, mode, doc, latch, claimed, passed, fetches>>

\* execute_exactly_one_provider_request burns the operator's capability, which
\* expires with the challenge.
Execute(o) ==
    /\ pc[o] = "execute"
    /\ Goto(o, IF clock < expiry[o].challenge THEN "fetch" ELSE "fail")
    /\ UNCHANGED <<clock, files, slots, held, fetches>>

Requested(o) ==
    [op |-> o, mode |-> mode[o], at |-> clock, doc |-> doc[o],
     claimed |-> claimed[o], asked |-> expiry[o].challenge - ConfirmTtl,
     guarded |-> passed[o].guard, stamp |-> passed[o].stamp]

\* A rehearsal asks its offline provider; the answer is a matching 2xx
\* response or anything else.
Rehearse(o) ==
    /\ pc[o] = "fetch" /\ mode[o] = "dry"
    /\ fetches' = fetches \cup {Requested(o)}
    /\ \E step \in {"complete", "fail"} : Goto(o, step)
    /\ UNCHANGED <<clock, files, slots, held>>

\* _GuardedLiveProviderProxy.fetch burns the live capability: the last look at
\* the challenge, and the last at the approval by the composition itself.
Guard(o) ==
    /\ pc[o] = "fetch" /\ mode[o] = "live"
    /\ \/ /\ clock < expiry[o].capability
          /\ passed' = Set(passed, o, [passed[o] EXCEPT !.guard = clock])
          /\ Goto(o, "journal")
       \/ /\ ~(clock < expiry[o].capability)
          /\ Goto(o, "fail")
          /\ UNCHANGED passed
    /\ UNCHANGED <<clock, files, slots, mode, doc, expiry, latch, claimed, fetches>>

\* The executor plans again and its coordinator claims the journal, or not
\* (LiveAttempt has the cases), and then reads the time for the permit.
ClaimJournal(o) ==
    /\ pc[o] = "journal"
    /\ \/ /\ passed' = Set(passed, o, [passed[o] EXCEPT !.stamp = clock])
          /\ Goto(o, "authorize")
       \/ /\ Goto(o, "fail")
          /\ UNCHANGED passed
    /\ UNCHANGED <<clock, files, slots, mode, doc, expiry, latch, claimed, fetches>>

\* Mutant: the approval's window is not checked with the permit.
AuthorizeAnyTime(o) ==
    /\ pc[o] = "authorize"
    /\ Goto(o, "send")
    /\ UNCHANGED <<clock, files, slots, held, fetches>>

\* authorize_and_start_live_send, once it has the approval's lock: the approval
\* is checked at the stamp, however long the lock was waited for.  A limit or
\* a binding may refuse as well (RequestBudget, LiveAttempt).
Authorize(o) ==
    /\ pc[o] = "authorize"
    /\ \/ Active(doc[o].approval, passed[o].stamp) /\ Goto(o, "send")
       \/ Goto(o, "fail")
    /\ UNCHANGED <<clock, files, slots, held, fetches>>

\* The sender verifies the durable marker and the broker reveals the session,
\* with checks of the session's window that the last one implies: the broker
\* looks once more immediately before the request goes out.  (The broker is
\* the caller's; it is taken to be made for the very session of the call.)
Send(o) ==
    /\ pc[o] = "send"
    /\ \/ /\ SessionActive(o, clock)
          /\ fetches' = fetches \cup {Requested(o)}
          /\ \E step \in {"complete", "fail"} : Goto(o, step)
       \/ /\ Goto(o, "fail")
          /\ UNCHANGED fetches
    /\ UNCHANGED <<clock, files, slots, held>>

\* The slot's verdict; the session is closed with the composition.
Resolve(o) ==
    /\ pc[o] \in {"complete", "fail"}
    /\ slots' = [slots EXCEPT ![doc[o].approval] =
                    IF pc[o] = "complete" THEN "completed" ELSE "failed"]
    /\ Return(o)
    /\ UNCHANGED <<clock, files, fetches>>

OperatorStep(o) ==
    \/ \E m \in {"live", "dry"} : Load(o, m)
    \/ Precheck(o)
    \/ Prompt(o)
    \/ \E right \in BOOLEAN : Confirm(o, right)
    \/ ClaimSlot(o)
    \/ Arm(o)
    \/ BindReadiness(o)
    \/ BindEndpoint(o)
    \/ Execute(o)
    \/ Rehearse(o)
    \/ Guard(o) \/ ClaimJournal(o) \/ Authorize(o) \/ Send(o)
    \/ Resolve(o)

Next ==
    \/ Tick
    \/ \E a \in Approval : WriteApproval(a)
    \/ \E e \in Evidence : WriteEvidence(e)
    \/ \E until \in Expiry, force \in BOOLEAN : FinalizeContract(until, force)
    \/ \E busy \in BOOLEAN : LaunchReview(busy)
    \/ \E o \in Operator : OperatorStep(o)

Spec == Init /\ [][Next]_vars
-----------------------------------------------------------------------------
\* One approval pays for one request, whoever asks and however the files are
\* replaced in between, and a rehearsal spends it too (first_request_slot.py:64,
\* first_sample_dry_run.py:79).
OneFetchPerApproval ==
    \A f, g \in fetches : f.doc.approval = g.doc.approval => f = g

Live == {f \in fetches : f.mode = "live"}

\* Prompt, slot claim, live capability, permit and request of a live call come
\* in this order, and its launch review before the claim and under the same
\* approval.  The capability is burnt before the challenge ends and the
\* approval is active at the permit's stamp.  The request itself comes later,
\* after a lock and three transactions, and may leave after both have ended:
\* only the session's window bounds it, and so it follows its prompt by less
\* than SessionTtl and its review by less than ReviewAge + SessionTtl
\* (live_one_request_composition.py:218, live_attempt_coordinator.py:125,
\* external_transport.py:211).
FetchIsFresh ==
    \A f \in Live :
        LET d == f.doc IN
        /\ d.review.approval = d.approval
        /\ d.review.at <= f.claimed /\ f.asked <= f.claimed
        /\ f.claimed <= f.guarded /\ f.guarded <= f.stamp /\ f.stamp <= f.at
        /\ f.guarded < f.asked + ConfirmTtl
        /\ Active(d.approval, f.stamp)
        /\ f.at < f.asked + SessionTtl
        /\ f.at < d.review.at + ReviewAge + SessionTtl

\* The endpoint of a live request was reviewed under the very approval it is
\* made with, for the same scope, after it was given and before the slot was
\* claimed, and the contract was still in force at the claim
\* (source_endpoint_contract.py:113, reviewed_endpoint_binding.py:34).
FetchIsReviewed ==
    \A f \in Live :
        LET c == f.doc.contract
            a == f.doc.approval IN
        /\ c.approval = a /\ c.scope = a.scope
        /\ a.from <= c.reviewed_at /\ c.reviewed_at <= f.claimed
        /\ f.claimed < c.until
-----------------------------------------------------------------------------
(* The inductive invariant behind the properties *)

\* An operator has loaded its documents, holds the slot of its approval, and
\* has not asked the provider yet.
Started == Step \ {"idle", "over"}
Sending == {"journal", "authorize", "send"}
Bound == {"execute", "fetch"} \cup Sending
Holding == {"arm", "bind", "endpoint", "complete", "fail"} \cup Bound
Unspent == Holding \ {"complete", "fail"}

DocsInv(o) ==
    pc[o] \in Started =>
        /\ doc[o].approval \in Approval
        /\ mode[o] = "live" => /\ doc[o].contract \in Contract
                              /\ doc[o].review \in Review

\* A slot that is held is claimed, by one operator, who fetches once.
SlotInv ==
    /\ \A o \in Operator :
           pc[o] \in Holding => slots[doc[o].approval] = "claimed"
    /\ \A o, q \in Operator :
           (/\ pc[o] \in Holding /\ pc[q] \in Holding
            /\ doc[o].approval = doc[q].approval) => o = q
    /\ \A f \in fetches :
           f.doc.approval \in Approval /\ slots[f.doc.approval] # "free"
    /\ \A o \in Operator : pc[o] \in Unspent =>
           \A f \in fetches : f.doc.approval # doc[o].approval

\* The session is opened before the prompt, the prompt comes before the claim,
\* and the claim before now.
PromptInv(o) ==
    /\ pc[o] \in {"precheck", "prompt"} => expiry[o].session <= clock + SessionTtl
    /\ pc[o] \in {"typing", "claim"} \cup Holding =>
           expiry[o].session + ConfirmTtl <= expiry[o].challenge + SessionTtl
    /\ pc[o] \in {"typing", "claim"} => expiry[o].challenge <= clock + ConfirmTtl
    /\ pc[o] \in Holding => /\ expiry[o].challenge <= claimed[o] + ConfirmTtl
                            /\ claimed[o] <= clock

\* The contract is of the approval, from the precheck on.
ContractInv(o) ==
    LET d == doc[o] IN
    /\ (mode[o] = "live" /\ pc[o] \in Holding \cup {"prompt", "typing", "claim"}) =>
           /\ d.contract.approval = d.approval
           /\ d.contract.scope = d.approval.scope
           /\ d.approval.from <= d.contract.reviewed_at
           /\ d.contract.reviewed_at <= clock
    /\ (mode[o] = "live" /\ pc[o] \in Holding) =>
           d.contract.reviewed_at <= claimed[o]
    /\ (mode[o] = "live" /\ pc[o] \in Bound) =>
           claimed[o] < d.contract.until

\* The review is of the approval and not long before the claim, from the
\* readiness binding on; the live capability ends with the approval.
ReviewInv(o) ==
    LET d == doc[o] IN
    /\ (mode[o] = "live" /\ pc[o] \in {"endpoint"} \cup Bound) =>
           /\ d.review.approval = d.approval
           /\ d.approval.from <= clock
           /\ d.review.at <= claimed[o]
           /\ claimed[o] <= d.review.at + ReviewAge
    /\ (mode[o] = "live" /\ pc[o] \in Bound) =>
           expiry[o].capability <= expiry[o].challenge

\* The stamps of a request under way, in order; only live calls make them.
SendInv(o) ==
    /\ pc[o] \in Sending =>
           /\ mode[o] = "live"
           /\ claimed[o] <= passed[o].guard /\ passed[o].guard <= clock
           /\ passed[o].guard < expiry[o].challenge
    /\ pc[o] \in {"authorize", "send"} =>
           passed[o].guard <= passed[o].stamp /\ passed[o].stamp <= clock
    /\ pc[o] = "send" => Active(doc[o].approval, passed[o].stamp)

OperatorInv(o) ==
    DocsInv(o) /\ PromptInv(o) /\ ContractInv(o) /\ ReviewInv(o) /\ SendInv(o)

LaunchInv ==
    /\ TypeOK
    /\ \A o \in Operator : OperatorInv(o)
    /\ SlotInv
    /\ OneFetchPerApproval /\ FetchIsFresh /\ FetchIsReviewed
=============================================================================
