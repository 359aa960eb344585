-------------------------- MODULE MCMessageTrees --------------------------
(* Instances of MessageTrees for TLC.                                      *)
EXTENDS MessageTrees
=============================================================================
