--------------------------- MODULE MCRequestBudget --------------------------
(* Instances of RequestBudget for TLC. *)
EXTENDS RequestBudget, TLC

CONSTANTS w1, w2, r1, r2

\* Two workers, each with a run of its own or both in one run.
TwoWorkers == {w1, w2}
OwnRuns == w1 :> r1 @@ w2 :> r2
SameRun == w1 :> r1 @@ w2 :> r1

\* Two ticks or one tick a day; a month of two days.
TwoDays == 0 .. 1
TwoTicksADay == [t \in Time |-> t \div 2]
OneTickADay == [t \in Time |-> t]
OneMonth == [d \in TwoDays |-> 0]

\* Request keys are only compared.
KeySymmetry == Permutations(Key)
=============================================================================
