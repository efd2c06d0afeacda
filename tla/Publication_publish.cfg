CONSTANTS
    Evidence <- MCEvidence
    Manifest <- MCManifest
    Surface <- MCSurface
    Phase2Paths = 36
    Phase5Surface <- Old
    Decision <- MCDecision
    MaxTime = 1
    MaxWrites = 5
    MaxLife = 2
    MaxAge = 0
SPECIFICATION Spec
CHECK_DEADLOCK FALSE
INVARIANT BoundIsApproved
