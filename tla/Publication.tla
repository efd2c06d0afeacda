---------------------------- MODULE Publication ----------------------------
(***************************************************************************)
(* The reviews that stand between the private API and a deployment.  Each  *)
(* is a command that reads saved JSON files and writes one report: the     *)
(* phase 2 and phase 5 exit reviews, the review of the production evidence *)
(* (identity proxy and TLS), the review of the publication manifest, the   *)
(* binding of the two, and the readiness matrix over all of them.  People  *)
(* edit the evidence and the manifest at any time, and every command may   *)
(* be run in any order, so a report may be older than what it speaks of.   *)
(*                                                                         *)
(* A document stands for its own SHA-256: a hash in a report is the        *)
(* document that was hashed.  Every control of a document that is neither  *)
(* a date nor compared with another document is in its field sound.        *)
(***************************************************************************)
EXTENDS Integers

CONSTANTS
    Evidence,       \* the contents the production evidence file may have
    Manifest,       \* the contents the publication manifest may have
    Surface,        \* OpenAPI contracts: a path count and a checksum
    Phase2Paths,    \* EXPECTED_API_PATH_COUNT
    Phase5Surface,  \* EXPECTED_OPENAPI_PATHS and EXPECTED_OPENAPI_SHA256
    Decision,       \* the contents the tag review decision may have
    MaxTime,        \* bound of the clock
    MaxWrites,      \* bound of the documents and exit reports written
    MaxLife,        \* 90 days
    MaxAge          \* MAX_EVIDENCE_AGE, 7 days

None == [none |-> TRUE]

PublicationAssumption ==
    /\ \A d \in Evidence \cup Manifest :
           d.from \in Nat /\ d.until \in Nat /\ d.not_after \in Nat
    /\ \A d \in Decision : d.at \in Nat /\ d.final \in BOOLEAN
    /\ Surface \subseteq [paths : Nat, sha : Nat]
    /\ {MaxTime, MaxWrites, MaxLife, MaxAge} \subseteq Nat
ASSUME PublicationAssumption

VARIABLES
    clock, writes,
    evidence,    \* the production evidence file
    manifest,    \* the publication manifest file
    phase2, phase5,           \* the exit reports
    production, publication,  \* the reports on evidence and manifest
    artifact,    \* the envelope that joins the two
    binding,     \* the report on the envelope
    readiness,   \* the readiness matrix, with the reports it was read from
    approved     \* history: the manifests approved, and when

phases == <<phase2, phase5>>
reports == <<production, publication, artifact, binding, readiness, approved>>
vars == <<clock, writes, evidence, manifest, phases, reports>>

Time == 0 .. MaxTime

Init ==
    /\ clock = 0 /\ writes = 0
    /\ evidence = None /\ manifest = None
    /\ phase2 = None /\ phase5 = None
    /\ production = None /\ publication = None
    /\ artifact = None /\ binding = None /\ readiness = None
    /\ approved = {}
-----------------------------------------------------------------------------
Tick ==
    /\ clock < MaxTime
    /\ clock' = clock + 1
    /\ UNCHANGED <<writes, evidence, manifest, phases, reports>>

Write == writes < MaxWrites /\ writes' = writes + 1 /\ UNCHANGED clock

\* A review of what is there: repeated within a tick, it changes nothing.
Report == UNCHANGED <<clock, writes>>

\* draft_evidence, draft_publication_manifest: placeholders, zero hashes and
\* controls that are off.
Draft(status) ==
    [id |-> "draft", host |-> [name |-> "draft", plain |-> TRUE],
     cert |-> "draft", status |-> status, from |-> 0, until |-> 0,
     not_after |-> 0, sound |-> FALSE]

\* The owner edits the evidence, or has "init" write a draft, which replaces a
\* file only by force.
WriteEvidence(e, force) ==
    /\ Write
    /\ e = Draft("draft") => evidence = None \/ force
    /\ evidence' = e
    /\ UNCHANGED <<manifest, phases, reports>>

WriteManifest(m, force) ==
    /\ Write
    /\ m = Draft("draft") => manifest = None \/ force
    /\ manifest' = m
    /\ UNCHANGED <<evidence, phases, reports>>

\* review_phase2: good says that the seven saved reports it reads pass, openapi
\* is the contract the last export wrote.  No report is dated.
ReviewPhase2(openapi, good) ==
    /\ Write
    /\ phase2' = [at |-> clock, surface |-> openapi,
                  passed |-> good /\ openapi.paths = Phase2Paths]
    /\ UNCHANGED <<evidence, manifest, phase5, reports>>

\* validate_tag_review_decision
DecisionVerified(d, t) == d.final /\ d.at <= t

\* review_phase5: one mutually consistent bundle, no part of it older than
\* MaxAge.  decision is the artifact, reported and discovered are the decisions
\* that the saved manual review and the saved discovery report were made from.
ReviewPhase5(openapi, core, decision, reported, discovered, age, good) ==
    LET matches == /\ openapi = Phase5Surface
                   /\ core = openapi /\ phase2.surface = openapi
        bound == /\ DecisionVerified(decision, clock)
                 /\ reported = decision
                 /\ discovered.candidate = decision.candidate
        fresh == age <= MaxAge /\ clock - phase2.at <= MaxAge
    IN
    /\ Write
    /\ phase2 # None
    /\ phase5' = [at |-> clock, phase2 |-> phase2, matches |-> matches,
                  openapi |-> openapi, decision |-> decision,
                  passed |-> matches /\ bound /\ fresh /\ good /\ phase2.passed]
    /\ UNCHANGED <<evidence, manifest, phase2, reports>>
-----------------------------------------------------------------------------
\* The window of a document, and a certificate that outlives it.
InForce(d, t) ==
    /\ d.from <= t /\ t < d.until
    /\ d.until - d.from <= MaxLife
    /\ d.not_after >= d.until

\* review_production_evidence
ProductionPasses(e, t) == e.status = "reviewed" /\ e.sound /\ InForce(e, t)

\* review_publication, of the manifest alone
ManifestPasses(m, t) == m.status = "approved" /\ m.sound /\ InForce(m, t)

ReviewEvidence ==
    /\ Report
    /\ production' = [at |-> clock, evidence |-> evidence,
                      passed |-> /\ evidence # None
                                 /\ ProductionPasses(evidence, clock)]
    /\ UNCHANGED <<evidence, manifest, phases, publication, artifact, binding,
                   readiness, approved>>

\* A missing or unreadable input gives a blocked report, which is also saved.
ReviewPublication ==
    LET passed == /\ manifest # None /\ phase2 # None
                  /\ phase2.passed
                  /\ ManifestPasses(manifest, clock)
    IN
    /\ Report
    /\ publication' = [at |-> clock, manifest |-> manifest, passed |-> passed]
    /\ approved' = approved \cup
           (IF passed THEN {[manifest |-> manifest, at |-> clock]} ELSE {})
    /\ UNCHANGED <<evidence, manifest, phases, production, artifact, binding,
                   readiness>>

\* run-production-publication-binding.ps1 puts the envelope together from four
\* files as they are now.
AssembleArtifact ==
    /\ Report
    /\ None \notin {evidence, manifest, production, publication}
    /\ artifact' = [manifest |-> manifest, review |-> publication,
                    cert |-> evidence.cert, evidence |-> production.evidence]
    /\ UNCHANGED <<evidence, manifest, phases, production, publication, binding,
                   readiness, approved>>

\* _normalize_hostname: case and the final dot do not count.
NormalizeHost(h) == h.name

\* Mutant: the review in the envelope may be of another manifest.
BindsAnyReview(e, a, t) ==
    /\ ProductionPasses(e, t)
    /\ a.manifest.status = "approved" /\ a.review.passed
    /\ a.evidence = e /\ a.cert = e.cert
    /\ a.manifest.id = e.id
    /\ NormalizeHost(a.manifest.host) = NormalizeHost(e.host)

\* review_production_publication_binding: the evidence is reviewed again, the
\* manifest is not; its approval is taken from the review in the envelope.
Binds(e, a, t) ==
    /\ ProductionPasses(e, t)
    /\ a.manifest.status = "approved"
    /\ a.review.passed
    /\ a.review.manifest = a.manifest
    /\ a.evidence = e
    /\ a.cert = e.cert
    /\ a.manifest.id = e.id
    /\ NormalizeHost(a.manifest.host) = NormalizeHost(e.host)

Bind ==
    LET bound == /\ None \notin {evidence, artifact}
                 /\ Binds(evidence, artifact, clock)
    IN
    /\ Report
    /\ binding' = [at |-> clock, bound |-> bound,
                   evidence |-> IF bound THEN evidence ELSE None,
                   manifest |-> IF bound THEN artifact.manifest ELSE None]
    /\ UNCHANGED <<evidence, manifest, phases, production, publication, artifact,
                   readiness, approved>>

\* The controls of review_deployment_readiness that rest on saved reports.
Ready(r) ==
    /\ r.phase2.passed /\ r.phase5.passed
    /\ r.production.passed
    /\ r.publication.passed /\ r.binding.bound

\* secure stands for the controls that rest on Compose, the Dockerfiles, the
\* runbook and the restore drill.  A missing report ends the command before it
\* writes.
ReviewReadiness(secure) ==
    LET read == [phase2 |-> phase2, phase5 |-> phase5, production |-> production,
                 publication |-> publication, binding |-> binding]
    IN
    /\ Report
    /\ None \notin {phase2, phase5, production, publication, binding}
    /\ readiness' = [at |-> clock, read |-> read, ready |-> secure /\ Ready(read)]
    /\ UNCHANGED <<evidence, manifest, phases, production, publication, artifact,
                   binding, approved>>

Phase5Step ==
    \E openapi, core \in Surface, decision, reported, discovered \in Decision,
       age \in 0 .. MaxAge + 1, good \in BOOLEAN :
        ReviewPhase5(openapi, core, decision, reported, discovered, age, good)

Next ==
    \/ Tick
    \/ \E e \in Evidence \cup {Draft("draft")}, force \in BOOLEAN :
           WriteEvidence(e, force)
    \/ \E m \in Manifest \cup {Draft("draft")}, force \in BOOLEAN :
           WriteManifest(m, force)
    \/ \E s \in Surface, good \in BOOLEAN : ReviewPhase2(s, good)
    \/ Phase5Step
    \/ ReviewEvidence
    \/ ReviewPublication
    \/ AssembleArtifact
    \/ Bind
    \/ \E secure \in BOOLEAN : ReviewReadiness(secure)

Spec == Init /\ [][Next]_vars
-----------------------------------------------------------------------------
\* A binding is about one deployment: the evidence is in force when it is
\* bound, its certificate too, and the manifest it is bound to was approved
\* before - exactly as it is in the envelope, however the files changed between
\* the reviews - for the same deployment and host
\* (production_publication_binding.py:187).
BoundIsApproved ==
    binding # None /\ binding.bound =>
        LET e == binding.evidence
            m == binding.manifest IN
        /\ ProductionPasses(e, binding.at) /\ binding.at < e.not_after
        /\ e.id = m.id /\ NormalizeHost(e.host) = NormalizeHost(m.host)
        /\ \E a \in approved :
               a.manifest = m /\ a.at <= binding.at /\ ManifestPasses(m, a.at)

-----------------------------------------------------------------------------
(* The inductive invariant behind the property *)

Datings == /\ clock \in Nat
           /\ evidence \in Evidence \cup {None, Draft("draft")}
           /\ phase2 # None => phase2.at \in Nat /\ phase2.at <= clock

\* An approval was given to a manifest that passed at that time, and a saved
\* report that says so, in its own file or in an envelope, is of one of them.
ApprovalsInv ==
    /\ \A a \in approved :
           a.at \in Nat /\ a.at <= clock /\ ManifestPasses(a.manifest, a.at)
    /\ publication # None /\ publication.passed =>
           [manifest |-> publication.manifest, at |-> publication.at] \in approved
    /\ artifact # None /\ artifact.review.passed =>
           [manifest |-> artifact.review.manifest, at |-> artifact.review.at]
               \in approved

PublicationInv == Datings /\ ApprovalsInv /\ BoundIsApproved
=============================================================================
