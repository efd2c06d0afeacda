SPECIFICATION FairSpec
CONSTANTS
  c1 = c1 c2 = c2 a1 = a1 r1 = r1 r2 = r2 k1 = k1
  l1 = l1 l2 = l2
  Composer <- TwoComposers
  Reconciler = {q1}
  Approval = {a1}
  Run = {r1}
  Key = {k1}
  Lease = {l1, l2}
  ApprovalOf <- SameApproval
  RunOf <- SameRun
  KeyOf <- SameKey
  LeaseOf <- OwnLease
  BoundTo <- OneRun
  Fault = {}
INVARIANT FailedSlotIsFinal
PROPERTIES JournalsAreResolved ClaimedSlotsAreAccounted
CHECK_DEADLOCK FALSE
