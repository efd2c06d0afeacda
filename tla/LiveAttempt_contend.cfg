SPECIFICATION Spec
CONSTANTS
  c1 = c1 c2 = c2 a1 = a1 r1 = r1 r2 = r2 k1 = k1
  l1 = l1 l2 = l2
  Composer <- TwoComposers
  Reconciler = {q1, q2}
  Approval = {a1}
  Run = {r1, r2}
  Key = {k1}
  Lease = {l1, l2}
  ApprovalOf <- SameApproval
  RunOf <- TwoRuns
  KeyOf <- SameKey
  LeaseOf <- OwnLease
  BoundTo <- BothRuns
  Fault = {"abort", "lost_ack"}
INVARIANTS AtMostOneSend FailedMeansKnown CompletedMeansSuccess InFlightCount
PROPERTIES OneWay ImplementsOneShot
CHECK_DEADLOCK FALSE
