------------------------ MODULE MCProvisioningWorker ------------------------
(***************************************************************************)
(* Instances of ProvisioningWorker for TLC: two worker processes, which    *)
(* are interchangeable, and small numbers of attempts and claims.          *)
(***************************************************************************)
EXTENDS ProvisioningWorker, TLC

WorkerSymmetry == Permutations(Workers)
=============================================================================
