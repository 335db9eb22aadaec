----------------------- MODULE MCVerificationWorkflow -----------------------
(* Instances of VerificationWorkflow for TLC. *)
EXTENDS VerificationWorkflow, TLC
CONSTANTS t1, t2, t3, r1, r2
MCRunOf == [t \in Tasks |-> IF t = t3 THEN r2 ELSE r1]
=============================================================================
