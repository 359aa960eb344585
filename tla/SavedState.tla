------------------------------ MODULE SavedState ------------------------------
(* What a durable store promises, without saying how: the file holds a     *)
(* version of the state that only moves forward, a restart loses at most   *)
(* what came after it, and what was acknowledged is in the file.           *)
EXTENDS Naturals

VARIABLES
  current,      (* version of the state in memory                            *)
  saved,        (* version in the file                                       *)
  acknowledged  (* newest version a caller was told is saved                 *)

vars == <<current, saved, acknowledged>>

Init == current = 0 /\ saved = 0 /\ acknowledged = 0

Edit == current' = current + 1 /\ UNCHANGED <<saved, acknowledged>>

Save == saved' \in saved..current /\ UNCHANGED <<current, acknowledged>>

Acknowledge ==
  /\ saved = current
  /\ acknowledged' = current
  /\ UNCHANGED <<current, saved>>

Restart == current' = saved /\ UNCHANGED <<saved, acknowledged>>

Next == Edit \/ Save \/ Acknowledge \/ Restart

Spec == Init /\ [][Next]_vars
=============================================================================
