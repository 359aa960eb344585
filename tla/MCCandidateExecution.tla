------------------------ MODULE MCCandidateExecution ------------------------
(* Instances of CandidateExecution for TLC.                                *)
EXTENDS CandidateExecution
=============================================================================
