----------------------------- MODULE ChatAnswers -----------------------------
(* What a chat promises about the answer of its newest turn, without saying *)
(* how: it is written by one operation at a time, and by newer operations   *)
(* only; a finished answer changes only because the user asked for another; *)
(* a completed one is never taken back, only replaced by a whole new one.   *)
EXTENDS Naturals

CONSTANT MaxOps      (* bound: operations ever started in the chat          *)

VARIABLE newest      (* the newest turn, who answers it, and how far it is  *)

Nothing == [turn |-> 0, by |-> 0, status |-> "none"]
Gone == [turn |-> 0, by |-> 0, status |-> "deleted"]

Unfinished == {"stopped", "interrupted", "failed"}

Newer == {o \in 1..MaxOps : o > newest.by}

Ask ==
  /\ newest # Gone
  /\ \E o \in Newer :
       newest' = [turn |-> newest.turn + 1, by |-> o, status |-> "running"]

Retry ==
  /\ newest.status \in Unfinished
  /\ \E o \in Newer : newest' = [newest EXCEPT !.by = o, !.status = "running"]

Finish ==
  /\ newest.status = "running"
  /\ \E s \in Unfinished \union {"completed"} : newest' = [newest EXCEPT !.status = s]

Replace ==
  /\ newest.status = "completed"
  /\ \E o \in Newer, s \in {"completed", "failed"} :
       newest' = [newest EXCEPT !.by = o, !.status = s]

Delete == newest # Gone /\ newest' = Gone

Next == Ask \/ Retry \/ Finish \/ Replace \/ Delete

Spec == newest = Nothing /\ [][Next]_newest
=============================================================================
