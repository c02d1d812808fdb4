---------------------------- MODULE MCBootstrap ----------------------------
(* Instances of Bootstrap for TLC. *)
EXTENDS Bootstrap, TLC

CONSTANTS loop, w1, w2

MCWorkers == {w1, w2}
Distinct == <<"CFN_CT_001", "CFN_EC2_001">>
Pasted == <<"CFN_CT_001", "CFN_EC2_001", "CFN_CT_001">>
MCDeclarations == {Distinct, Pasted}
WorkerSymmetry == Permutations(MCWorkers)
=============================================================================
