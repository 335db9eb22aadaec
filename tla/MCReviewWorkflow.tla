--------------------------- MODULE MCReviewWorkflow ---------------------------
(* Instances of ReviewWorkflow for TLC: all the people are of one school.    *)
EXTENDS ReviewWorkflow, TLC
CONSTANTS s1, s2, p1
MCSchoolOf == [p \in People |-> s1]
=============================================================================
