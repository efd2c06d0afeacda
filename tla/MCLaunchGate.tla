---------------------------- MODULE MCLaunchGate ----------------------------
EXTENDS LaunchGate, TLC

CONSTANTS o1, o2

MCOperator == {o1, o2}
Symmetry == Permutations(MCOperator)
MCScope == {"s"}

\* Two approvals: one outlasts the clock, the other starts later and runs out.
MCApproval ==
    {[from |-> w[1], until |-> w[2], terms |-> 0, scope |-> "s",
      session |-> TRUE, solo |-> TRUE] : w \in {<<0, 4>>, <<1, 3>>}}

\* Evidence from before and after the second approval.
MCEvidence ==
    {[scope |-> "s", terms_at |-> t, response_at |-> t, sound |-> TRUE] :
        t \in {0, 1}}
=============================================================================
