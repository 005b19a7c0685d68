---------------------------- MODULE MCBillingRuns ----------------------------
(***************************************************************************)
(* Small instances of BillingRuns for TLC.                                 *)
(***************************************************************************)
EXTENDS BillingRuns, TLC

CONSTANTS u1, planA, planB, w1, w2

WorkerSymmetry == Permutations(Workers)

Purchase == {-1}
TopUpOrCharge == {-1, 2}
OneOwner == [s \in Services |-> u1]
Opening2 == [u \in Users |-> 2]
PlanOfEach == [s \in Services |-> IF s = 1 THEN planA ELSE planB]

SamePlan == [s \in Services |-> planA]
=============================================================================
