------------------------ MODULE MCProviderAdmission ------------------------
(* Instances of ProviderAdmission for TLC.                                 *)
EXTENDS ProviderAdmission

(* A request is answered or the leader is gone, for one execution: all are *)
(* interchangeable in Spec, Fairness and Init, so it stands for each.      *)
RequestAnsweredOrLeaderGone ==
  AnsweredOrLeaderGone(CHOOSE e \in Executions : TRUE)
=============================================================================
