--------------------------- MODULE MCLiveAttempt ---------------------------
(* Instances of LiveAttempt for TLC. *)
EXTENDS LiveAttempt, TLC

CONSTANTS c1, c2, a1, r1, r2, k1, l1, l2

\* Two composers compete for one approval, in one run or in a run each.
TwoComposers == {c1, c2}
SameApproval == c1 :> a1 @@ c2 :> a1
SameRun == c1 :> r1 @@ c2 :> r1
TwoRuns == c1 :> r1 @@ c2 :> r2
SameKey == c1 :> k1 @@ c2 :> k1
OwnLease == c1 :> l1 @@ c2 :> l2
OneRun == r1 :> a1
BothRuns == r1 :> a1 @@ r2 :> a1
=============================================================================
