------------------------- MODULE PublicationProofs -------------------------
(***************************************************************************)
(* Proofs about the chain of reviews before a publication, for every set   *)
(* of documents, every order of the commands and every age limit.          *)
(***************************************************************************)
EXTENDS Publication, TLAPS

LEMMA InitPublication == Init => PublicationInv
BY DEF Init, PublicationInv, Datings, ApprovalsInv, BoundIsApproved

\* A date of an evidence that passes is a number.
LEMMA PassingDates ==
    ASSUME Datings, evidence # None, ProductionPasses(evidence, clock)
    PROVE  clock < evidence.not_after
<1>1. CASE evidence \in Evidence
  <2>1. evidence.until \in Nat /\ evidence.not_after \in Nat /\ clock \in Nat
    BY <1>1, PublicationAssumption DEF PublicationAssumption, Datings
  <2>. QED  BY <2>1 DEF ProductionPasses, InForce
<1>2. CASE evidence = Draft("draft")
  BY <1>2 DEF ProductionPasses, Draft
<1>. QED  BY <1>1, <1>2 DEF Datings
-----------------------------------------------------------------------------
(* The invariant is preserved, one command at a time *)

LEMMA TickPublication == PublicationInv /\ Tick => PublicationInv'
<1>. SUFFICES ASSUME PublicationInv, Tick PROVE PublicationInv'  OBVIOUS
<1>. USE DEF PublicationInv, Tick, phases, reports
<1>1. Datings' /\ ApprovalsInv'
  BY DEF Datings, ApprovalsInv
<1>2. BoundIsApproved'
  BY DEF BoundIsApproved
<1>. QED  BY <1>1, <1>2

\* What the owner writes is in no report yet.
LEMMA WritesPublication ==
    ASSUME PublicationInv,
           \/ \E e \in Evidence \cup {Draft("draft")}, force \in BOOLEAN :
                  WriteEvidence(e, force)
           \/ \E m \in Manifest \cup {Draft("draft")}, force \in BOOLEAN :
                  WriteManifest(m, force)
    PROVE  PublicationInv'
<1>. USE DEF PublicationInv, WriteEvidence, WriteManifest, Write, phases, reports
<1>1. Datings' /\ ApprovalsInv'
  BY DEF Datings, ApprovalsInv
<1>2. BoundIsApproved'
  BY DEF BoundIsApproved
<1>. QED  BY <1>1, <1>2

\* The exit reviews of the phases write their own reports only.
LEMMA PhasesPublication ==
    ASSUME PublicationInv,
           \/ \E s \in Surface, good \in BOOLEAN : ReviewPhase2(s, good)
           \/ Phase5Step
    PROVE  PublicationInv'
<1>. USE DEF PublicationInv, ReviewPhase2, Phase5Step, ReviewPhase5, Write, reports
<1>1. Datings' /\ ApprovalsInv'
  BY DEF Datings, ApprovalsInv
<1>2. BoundIsApproved'
  BY DEF BoundIsApproved
<1>. QED  BY <1>1, <1>2

LEMMA EvidencePublication == PublicationInv /\ ReviewEvidence => PublicationInv'
<1>. SUFFICES ASSUME PublicationInv, ReviewEvidence PROVE PublicationInv'  OBVIOUS
<1>. USE DEF PublicationInv, ReviewEvidence, Report, phases
<1>1. Datings' /\ ApprovalsInv'
  BY DEF Datings, ApprovalsInv
<1>2. BoundIsApproved'
  BY DEF BoundIsApproved
<1>. QED  BY <1>1, <1>2

\* An approval adds to those there were, so what rested on one still does.
LEMMA ApprovalPublication == PublicationInv /\ ReviewPublication => PublicationInv'
<1>. SUFFICES ASSUME PublicationInv, ReviewPublication PROVE PublicationInv'  OBVIOUS
<1>. USE DEF PublicationInv, ReviewPublication, Report, phases
<1>0. approved \subseteq approved'
  OBVIOUS
<1>1. Datings'
  BY DEF Datings
<1>2. ApprovalsInv'
  BY DEF ApprovalsInv, Datings
<1>3. BoundIsApproved'
  BY <1>0 DEF BoundIsApproved
<1>. QED  BY <1>1, <1>2, <1>3

LEMMA ArtifactPublication == PublicationInv /\ AssembleArtifact => PublicationInv'
<1>. SUFFICES ASSUME PublicationInv, AssembleArtifact PROVE PublicationInv'  OBVIOUS
<1>. USE DEF PublicationInv, AssembleArtifact, Report, phases
<1>1. Datings'
  BY DEF Datings
<1>2. ApprovalsInv'
  BY DEF ApprovalsInv
<1>3. BoundIsApproved'
  BY DEF BoundIsApproved
<1>. QED  BY <1>1, <1>2, <1>3

\* The manifest that is bound is the one the review in the envelope approved.
LEMMA BindPublication == PublicationInv /\ Bind => PublicationInv'
<1>. SUFFICES ASSUME PublicationInv, Bind PROVE PublicationInv'  OBVIOUS
<1>. USE DEF PublicationInv, Report, phases
<1>1. Datings'
  BY DEF Bind, Datings
<1>2. ApprovalsInv'
  BY DEF Bind, ApprovalsInv
<1>3. BoundIsApproved'
  <2>. SUFFICES ASSUME binding' # None, binding'.bound
                PROVE  LET e == binding'.evidence
                           m == binding'.manifest IN
                       /\ ProductionPasses(e, binding'.at)
                       /\ binding'.at < e.not_after
                       /\ e.id = m.id /\ NormalizeHost(e.host) = NormalizeHost(m.host)
                       /\ \E a \in approved' : /\ a.manifest = m
                                               /\ a.at <= binding'.at
                                               /\ ManifestPasses(m, a.at)
    BY DEF BoundIsApproved
  <2>1. /\ evidence # None /\ artifact # None
        /\ Binds(evidence, artifact, clock)
        /\ binding'.evidence = evidence /\ binding'.manifest = artifact.manifest
        /\ binding'.at = clock /\ approved' = approved
    BY DEF Bind
  <2>2. clock < evidence.not_after
    BY <2>1, PassingDates DEF Binds
  <2>3. \E a \in approved : /\ a.manifest = artifact.manifest
                            /\ a.at <= clock
                            /\ ManifestPasses(artifact.manifest, a.at)
    <3>. DEFINE a == [manifest |-> artifact.review.manifest,
                      at |-> artifact.review.at]
    <3>1. a \in approved /\ a.manifest = artifact.manifest
      BY <2>1 DEF ApprovalsInv, Binds
    <3>2. a.at <= clock /\ ManifestPasses(a.manifest, a.at)
      BY <3>1 DEF ApprovalsInv
    <3>. HIDE DEF a
    <3>. QED  BY <3>1, <3>2
  <2>. QED  BY <2>1, <2>2, <2>3 DEF Binds
<1>. QED  BY <1>1, <1>2, <1>3

LEMMA ReadinessPublication ==
    ASSUME PublicationInv, NEW secure \in BOOLEAN, ReviewReadiness(secure)
    PROVE  PublicationInv'
<1>. USE DEF PublicationInv, ReviewReadiness, Report, phases
<1>1. Datings' /\ ApprovalsInv'
  BY DEF Datings, ApprovalsInv
<1>2. BoundIsApproved'
  BY DEF BoundIsApproved
<1>. QED  BY <1>1, <1>2
-----------------------------------------------------------------------------
(* The theorems *)

LEMMA NextPublication == PublicationInv /\ [Next]_vars => PublicationInv'
<1>. SUFFICES ASSUME PublicationInv, [Next]_vars PROVE PublicationInv'  OBVIOUS
<1>1. CASE UNCHANGED vars
  <2>. USE <1>1 DEF vars, phases, reports, PublicationInv
  <2>1. Datings' /\ ApprovalsInv'
    BY DEF Datings, ApprovalsInv
  <2>2. BoundIsApproved'
    BY DEF BoundIsApproved
  <2>. QED  BY <2>1, <2>2
<1>2. CASE Next
  BY <1>2, TickPublication, WritesPublication, PhasesPublication,
     EvidencePublication, ApprovalPublication, ArtifactPublication, BindPublication,
     ReadinessPublication DEF Next
<1>. QED  BY <1>1, <1>2

\* What the saved reviews say of a manifest stays true of it, however the files
\* change between the commands.
THEOREM ReportsAreTrue == Spec => []PublicationInv
BY InitPublication, NextPublication, PTL DEF Spec

\* A binding is of one deployment, in force, to a manifest that was approved just
\* as it is bound.
THEOREM BindingsAreApproved == Spec => []BoundIsApproved
<1>1. PublicationInv => BoundIsApproved
  BY DEF PublicationInv
<1>. QED  BY <1>1, ReportsAreTrue, PTL
=============================================================================
