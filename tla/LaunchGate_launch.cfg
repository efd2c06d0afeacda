CONSTANTS
    o1 = o1
    o2 = o2
    Operator <- MCOperator
    Scope <- MCScope
    Approval <- MCApproval
    Evidence <- MCEvidence
    Expiry = {3}
    MaxTime = 3
    MaxWrites = 5
    MaxApprovalAge = 4
    ReviewAge = 1
    ConfirmTtl = 2
    EnableTtl = 1
    SessionTtl = 3
SPECIFICATION Spec
SYMMETRY Symmetry
INVARIANTS OneFetchPerApproval FetchIsFresh FetchIsReviewed
CHECK_DEADLOCK FALSE
