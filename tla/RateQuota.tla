------------------------------ MODULE RateQuota ------------------------------
(* What a strict sliding-window limiter promises, without saying how: a    *)
(* grant happens only when at most Limit - 1 of the grants so far are      *)
(* younger than Window.  RateWindow implements it, and assumes of these    *)
(* constants what it needs.                                                *)
EXTENDS Naturals, Sequences

CONSTANTS
  Limit,      (* rate_limit                                                *)
  Window,     (* rate_window, in clock units                               *)
  MaxTime     (* bound: the clock stops here                               *)

VARIABLES
  clock,      (* time.monotonic()                                          *)
  grants      (* the time of every grant ever made, oldest first           *)

vars == <<clock, grants>>

Init == clock = 0 /\ grants = <<>>

(* The Limit-th last grant has left the window.                            *)
HasRoom == Len(grants) >= Limit => grants[Len(grants) + 1 - Limit] + Window <= clock

Grant ==
  /\ HasRoom
  /\ clock' \in clock..MaxTime
  /\ grants' = Append(grants, clock')

Pass == clock' \in clock..MaxTime /\ UNCHANGED grants

Next == Grant \/ Pass

Spec == Init /\ [][Next]_vars

(* At most rate_limit acquisitions in any interval of length rate_window:  *)
(* any Limit + 1 consecutive grants span at least Window.                  *)
WindowBound ==
  \A i \in 1..Len(grants) :
    i + Limit <= Len(grants) => grants[i] + Window <= grants[i + Limit]
=============================================================================
